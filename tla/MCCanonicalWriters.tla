------------------------- MODULE MCCanonicalWriters -------------------------
(* CanonicalWriters with duplicate deliveries of a command, a second         *)
(* command, a manual edit and an import of the same project.                 *)
EXTENDS CanonicalWriters

CONSTANTS c1, c2, p1, x

Single(id, n) ==
    [first |-> id, ids |-> {id}, project |-> p1, payload |-> x,
     expected |-> n, composite |-> FALSE, dryRun |-> FALSE]

MCRequests == {Single(c1, 1), Single(c2, 1), Single(c2, 2)}
=============================================================================
