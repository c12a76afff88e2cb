------------------------------ MODULE MCConsole ------------------------------
(* Small instances of Console: two delegates and two nodes that both may know. *)
EXTENDS Console

CONSTANTS north, south, na, nb, r1

TwoDelegates == <<north, south>>

Entry(n, infer, jobs, seen) ==
    [node |-> n, infer |-> infer, runningJobs |-> jobs, lastSeen |-> seen]

Serving == {Entry(na, TRUE, 2, 0), Entry(nb, FALSE, 0, 1)}      \* a worker and a router
Stale == {Entry(na, TRUE, 2, 3), Entry(nb, TRUE, 0, 0)}         \* gone, and idle
Alone == {Entry(na, TRUE, 0, 1)}

ThreeAtlases == {Serving, Stale, Alone}
ServingAndStale == (north :> Serving) @@ (south :> Stale)
SomeHistory == {{na}}
=============================================================================
