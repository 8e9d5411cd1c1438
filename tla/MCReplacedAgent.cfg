CONSTANTS
    Sessions = {s1, s2}
    Calls = {c1, c2}
SPECIFICATION ChannelSpec
PROPERTY NewestConnectionIsCommanded
CHECK_DEADLOCK FALSE
