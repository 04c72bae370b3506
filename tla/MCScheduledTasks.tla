-------------------------- MODULE MCScheduledTasks --------------------------
(* Two workers that read one task at a time, and a task that recurs for     *)
(* ever beside a reminder or a task that recurs twice.                      *)
EXTENDS ScheduledTasks, TLC
CONSTANTS k1, k2, w1, w2
Ever == [recurs |-> TRUE, max |-> 0]
Twice == [recurs |-> TRUE, max |-> 2]
Once == [recurs |-> FALSE, max |-> 0]
MCTables == {(k1 :> Ever) @@ (k2 :> other) : other \in {Once, Twice}}
=============================================================================
