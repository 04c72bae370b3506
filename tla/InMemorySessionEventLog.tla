----------------------- MODULE InMemorySessionEventLog -----------------------
(***************************************************************************)
(* The event log of one chat session as its in-memory backend keeps it     *)
(* (app/engine/runtime/session_event_log.py): every method holds one lock  *)
(* from end to end, so an append numbers and stores its event at once.     *)
(*                                                                         *)
(* log has every event ever stored, in order; live are the places in it    *)
(* that prune_older_than has left.                                         *)
(***************************************************************************)
EXTENDS Naturals, Sequences

CONSTANT Event        \* what a caller stores: [kind, turn, ids]

VARIABLES log, live, counter      \* counter: _SessionState.seq
vars == <<log, live, counter>>

Append1(e) ==
  /\ counter' = counter + 1
  /\ log' = Append(log, [seq |-> counter', event |-> e])
  /\ live' = live \cup {Len(log')}

\* A session whose last event goes is dropped, and its counter with it.
PruneOlderThan ==
  /\ live' \in SUBSET live
  /\ counter' = IF live' = {} THEN 0 ELSE counter
  /\ UNCHANGED log

Init == log = <<>> /\ live = {} /\ counter = 0
Next == (\E e \in Event : Append1(e)) \/ PruneOlderThan
Spec == Init /\ [][Next]_vars
=============================================================================
