---------------------------- MODULE MCCommandBus ----------------------------
(* CommandBus with a few requests that meet: two commands for the same      *)
(* revision, a retry, a commandId reused with another payload and for       *)
(* another project, a workflow that shares a command, and a preview.        *)
EXTENDS CommandBus

CONSTANTS c1, c2, c3, p1, p2, x, y

Single(id, p, pay, n) ==
    [first |-> id, ids |-> {id}, project |-> p, payload |-> pay,
     expected |-> n, composite |-> FALSE, dryRun |-> FALSE]

Workflow(first, ids, n, dry) ==
    [first |-> first, ids |-> ids, project |-> p1, payload |-> x,
     expected |-> n, composite |-> TRUE, dryRun |-> dry]

MCRequests ==
    {Single(c1, p1, x, 1), Single(c1, p1, y, 2), Single(c1, p2, x, 1),
     Single(c2, p1, x, 1), Single(c2, p1, x, 2),
     Workflow(c2, {c2, c3}, 2, FALSE), Workflow(c3, {c1, c3}, 1, TRUE),
     [Single(c3, p1, x, 1) EXCEPT !.dryRun = TRUE]}
=============================================================================
