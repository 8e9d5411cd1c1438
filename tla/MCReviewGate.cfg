SPECIFICATION ReviewSpec
INVARIANT CriticalIssuesAreReviewed
CHECK_DEADLOCK FALSE
