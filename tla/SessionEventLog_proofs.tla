----------------------- MODULE SessionEventLog_proofs -----------------------
(* What the session event log guarantees for every number of turns and of   *)
(* tool calls, while the session is younger than the retention.             *)
(*                                                                          *)
(* The argument: as the newest row stays, the n-th row ever committed has   *)
(* seq n (Numbered) and MAX(seq) is Len(log); and as nothing goes that was  *)
(* committed under an open INSERT (Held), its number is free only if no     *)
(* other append has committed since it was computed.                        *)
EXTENDS SessionEventLog, FiniteSetTheorems, SequenceTheorems, TLAPS

Row == [seq : Nat \ {0}, event : Event]

Numbered ==
  /\ log \in Seq(Row)
  /\ \A i \in DOMAIN log : log[i].seq = i
  /\ live \subseteq DOMAIN log
  /\ Len(log) > 0 => Len(log) \in live

Held ==
  /\ snap \in [Turn -> [seq : Nat, from : Nat]]
  /\ \A t \in Turn : snap[t] # NoInsert =>
       /\ snap[t].seq = snap[t].from + 1 /\ snap[t].from <= Len(log)
       /\ snap[t].from + 1 .. Len(log) \subseteq live

Turns ==
  /\ pc \in [Turn -> PC]
  /\ tries \in [Turn -> 0..MAX_APPEND_RETRIES - 1]
  /\ calls \in [Turn -> Seq(Tool)]
  /\ \A t \in Turn :
       /\ snap[t] # NoInsert => pc[t] \in Appending
       /\ pc[t] = "assistant" => calls[t] \in Calls
       /\ pc[t] = "result" => calls[t] # <<>>

Replayed == cursor \in 0..Len(log) /\ seen = {i \in live : i <= cursor}

Inv == KeepsNewest /\ Numbered /\ Held /\ Turns /\ Replayed

-----------------------------------------------------------------------------
(* Facts about a state in which Inv holds *)

\* A greatest element is the maximum.
LEMMA MaxIs ==
  ASSUME NEW S \in SUBSET Nat, NEW m \in S, \A x \in S : x <= m
  PROVE  Max(S) = m
<1>1. \A y \in S : m >= y
  OBVIOUS
<1>2. \A x \in S : (\A y \in S : x >= y) => x = m
  <2>1. ASSUME NEW x \in S, \A y \in S : x >= y PROVE x = m
    BY <2>1
  <2>2. QED
    BY <2>1
<1>3. QED
  BY <1>1, <1>2, Zenon DEF Max

\* The numbers in the table are the places of the rows.
LEMMA SeqsAreLive == ASSUME Numbered PROVE Seqs = live /\ live \subseteq Nat \ {0}
BY DEF Numbered, Seqs

Counted == Max(Seqs \cup {0}) = Len(log)

\* COALESCE(MAX(seq), 0) counts every row ever committed.
LEMMA LastSeq == ASSUME Numbered PROVE Max(Seqs \cup {0}) = Len(log)
<1>1. Seqs \cup {0} \in SUBSET Nat /\ Len(log) \in Seqs \cup {0} /\ Len(log) \in Nat
  BY SeqsAreLive DEF Numbered
<1>2. \A x \in Seqs \cup {0} : x <= Len(log)
  BY SeqsAreLive DEF Numbered
<1>3. QED
  BY <1>1, <1>2, MaxIs

\* What a turn is about to append is an event.
LEMMA NextEventType ==
  ASSUME Turns, NEW t \in Turn, pc[t] \in Appending
  PROVE  NextEvent(t) \in Event
<1>1. CASE pc[t] = "user"
  BY <1>1 DEF NextEvent, Event
<1>2. CASE pc[t] = "assistant"
  <2>1. calls[t] \in Calls
    BY <1>2 DEF Turns
  <2>2. NextEvent(t) = AssistantMessage(t, calls[t])
    BY <1>2 DEF NextEvent
  <2>3. QED
    BY <2>1, <2>2 DEF Event
<1>3. CASE pc[t] = "error"
  BY <1>3 DEF NextEvent, Event
<1>4. CASE pc[t] = "result"
  <2>1. Head(calls[t]) \in Tool
    BY <1>4 DEF Turns
  <2>2. NextEvent(t) = ToolResult(t, Head(calls[t]))
    BY <1>4 DEF NextEvent
  <2>3. QED
    BY <2>1, <2>2 DEF Event
<1>5. QED
  BY <1>1, <1>2, <1>3, <1>4 DEF Appending

\* A number that is free when its INSERT commits is the next one.
LEMMA FreeIsNext ==
  ASSUME Inv, NEW t \in Turn, snap[t] # NoInsert, Unique(t)
  PROVE  snap[t].seq = Len(log) + 1
<1>1. /\ snap[t].from \in Nat /\ Len(log) \in Nat
      /\ snap[t].seq = snap[t].from + 1 /\ snap[t].from <= Len(log)
      /\ snap[t].from + 1 .. Len(log) \subseteq live
  BY DEF Inv, Held, Numbered
<1>2. snap[t].seq \notin live
  BY SeqsAreLive DEF Inv, Unique
<1>3. QED
  BY <1>1, <1>2

-----------------------------------------------------------------------------
(* Inv is inductive *)

LEMMA InvInit == KeepsNewest /\ Init => Inv
<1> SUFFICES ASSUME KeepsNewest, Init PROVE Inv
  OBVIOUS
<1>1. Numbered /\ Replayed
  BY DEF Init, Numbered, Replayed
<1>2. Held
  BY DEF Init, Held, NoInsert
<1>3. Turns
  BY DEF Init, Turns, PC, Appending, MAX_APPEND_RETRIES
<1>4. QED
  BY <1>1, <1>2, <1>3 DEF Inv

\* A turn that is done with an append, whatever its result, is in order.
LEMMA ReturnTurns ==
  ASSUME Turns, Held, NEW t \in Turn, NEW p \in PC, NEW c \in Seq(Tool),
         Returns(t, p), calls' = [calls EXCEPT ![t] = c],
         p = "assistant" => c \in Calls, p = "result" => c # <<>>
  PROVE  Turns'
<1>1. /\ pc' = [pc EXCEPT ![t] = p] /\ tries' = [tries EXCEPT ![t] = 0]
      /\ snap' = [snap EXCEPT ![t] = NoInsert]
  BY DEF Returns
<1>2. /\ pc' \in [Turn -> PC] /\ calls' \in [Turn -> Seq(Tool)]
      /\ tries' \in [Turn -> 0..MAX_APPEND_RETRIES - 1]
  BY <1>1 DEF Turns, MAX_APPEND_RETRIES
<1>3. ASSUME NEW u \in Turn
      PROVE  /\ snap'[u] # NoInsert => pc'[u] \in Appending
             /\ pc'[u] = "assistant" => calls'[u] \in Calls
             /\ pc'[u] = "result" => calls'[u] # <<>>
  <2>1. CASE u = t
    BY <1>1, <2>1 DEF Turns, Held
  <2>2. CASE u # t
    BY <1>1, <2>2 DEF Turns, Held
  <2>3. QED
    BY <2>1, <2>2
<1>4. QED
  BY <1>2, <1>3 DEF Turns

LEMMA FollowTurns ==
  ASSUME Turns, Held, NEW t \in Turn, pc[t] \in Appending, Follow(t)
  PROVE  Turns'
<1> DEFINE rest == IF pc[t] = "result" THEN Tail(calls[t]) ELSE calls[t]
           p == CASE pc[t] = "user" -> "inner"
                  [] pc[t] = "error" -> "failed"
                  [] OTHER -> IF rest = <<>> THEN "done" ELSE "result"
<1>1. rest \in Seq(Tool)
  BY DEF Turns
<1>2. p \in PC /\ p # "assistant" /\ (p = "result" => rest # <<>>)
  BY DEF PC, Appending
<1>3. Returns(t, p) /\ calls' = [calls EXCEPT ![t] = rest]
  BY DEF Follow
<1> HIDE DEF rest, p
<1>4. QED
  BY <1>1, <1>2, <1>3, ReturnTurns

LEMMA GiveUpTurns ==
  ASSUME Turns, Held, NEW t \in Turn, Returns(t, "failed"), UNCHANGED calls
  PROVE  Turns'
<1>1. calls' = [calls EXCEPT ![t] = calls[t]] /\ calls[t] \in Seq(Tool)
  BY DEF Turns
<1>2. QED
  BY <1>1, ReturnTurns DEF PC

\* A turn that ends its INSERT holds nothing; the others hold what they held.
LEMMA ReturnHeld ==
  ASSUME Held, Len(log) \in Nat, Len(log') \in Nat, Len(log) <= Len(log'),
         NEW t \in Turn, snap' = [snap EXCEPT ![t] = NoInsert],
         live \subseteq live', Len(log) + 1 .. Len(log') \subseteq live'
  PROVE  Held'
<1>1. snap' \in [Turn -> [seq : Nat, from : Nat]]
  BY DEF Held, NoInsert
<1>2. ASSUME NEW u \in Turn, snap'[u] # NoInsert
      PROVE  /\ snap'[u].seq = snap'[u].from + 1 /\ snap'[u].from <= Len(log')
             /\ snap'[u].from + 1 .. Len(log') \subseteq live'
  <2>1. u # t /\ snap'[u] = snap[u] /\ snap[u].from \in Nat
    BY <1>2 DEF Held
  <2>2. /\ snap[u].seq = snap[u].from + 1 /\ snap[u].from <= Len(log)
        /\ snap[u].from + 1 .. Len(log) \subseteq live
    BY <1>2, <2>1 DEF Held
  <2>3. QED
    BY <2>1, <2>2
<1>3. QED
  BY <1>1, <1>2 DEF Held

-----------------------------------------------------------------------------
(* One lemma per action *)

LEMMA CommitInv == ASSUME Inv, NEW t \in Turn, Commit(t) PROVE Inv'
<1> DEFINE row == [seq |-> snap[t].seq, event |-> NextEvent(t)]
<1>1. pc[t] \in Appending /\ snap[t].seq = Len(log) + 1 /\ Len(log) \in Nat
  BY FreeIsNext DEF Commit, Inv, Turns, Numbered
<1>2. row \in Row
  BY <1>1, NextEventType DEF Inv, Row
<1>3. /\ log' = Append(log, row) /\ live' = live \cup {Len(log')}
  BY DEF Commit
<1>4. row.seq = Len(log) + 1
  BY <1>1
<1> HIDE DEF row
<1>5. /\ log' \in Seq(Row) /\ Len(log') = Len(log) + 1 /\ DOMAIN log' = 1..Len(log) + 1
      /\ \A i \in DOMAIN log : i \in DOMAIN log' /\ log'[i] = log[i]
      /\ log'[Len(log) + 1] = row
  BY <1>1, <1>2, <1>3 DEF Inv, Numbered
<1>6. Numbered'
  BY <1>1, <1>3, <1>4, <1>5 DEF Inv, Numbered
<1>7. snap' = [snap EXCEPT ![t] = NoInsert] /\ UNCHANGED <<cursor, seen>>
  BY DEF Commit, Follow, GiveUp, Returns
<1>8. Held'
  <2>1. /\ Len(log') \in Nat /\ Len(log) <= Len(log') /\ live \subseteq live'
        /\ Len(log) + 1 .. Len(log') \subseteq live'
    BY <1>1, <1>3, <1>5
  <2>2. QED
    BY <1>1, <1>7, <2>1, ReturnHeld DEF Inv
<1>9. Turns'
  BY <1>1, FollowTurns, GiveUpTurns DEF Inv, Commit, GiveUp
<1>10. Replayed'
  <2>1. /\ cursor' = cursor /\ seen' = seen /\ live' = live \cup {Len(log) + 1}
        /\ cursor \in 0..Len(log) /\ seen = {i \in live : i <= cursor}
    BY <1>3, <1>5, <1>7 DEF Inv, Replayed
  <2>2. ~(Len(log) + 1 <= cursor)
    BY <1>1, <2>1
  <2>3. cursor' \in 0..Len(log')
    BY <1>1, <1>5, <2>1
  <2>4. \A i : i \in seen' <=> i \in live' /\ i <= cursor'
    BY <2>1, <2>2
  <2>5. seen' = {i \in live' : i <= cursor'}
    BY <2>4
  <2>6. QED
    BY <2>3, <2>5 DEF Replayed
<1>11. QED
  BY <1>6, <1>8, <1>9, <1>10 DEF Inv

LEMMA BeginInsertInv == ASSUME Inv, NEW t \in Turn, BeginInsert(t) PROVE Inv'
<1>1. /\ pc[t] \in Appending /\ UNCHANGED <<log, live, pc, tries, calls, cursor, seen>>
      /\ snap' = [snap EXCEPT ![t] = [seq |-> Len(log) + 1, from |-> Len(log)]]
  BY LastSeq DEF BeginInsert, NextSeq, Inv
<1>2. Len(log) \in Nat
  BY DEF Inv, Numbered
<1>3. Numbered' /\ Replayed'
  BY <1>1 DEF Inv, Numbered, Replayed
<1>4. Held'
  <2>1. snap' \in [Turn -> [seq : Nat, from : Nat]]
    BY <1>1, <1>2 DEF Inv, Held
  <2>2. \A u \in Turn : snap'[u] = IF u = t THEN [seq |-> Len(log) + 1, from |-> Len(log)]
                                   ELSE snap[u]
    BY <1>1 DEF Inv, Held
  <2>3. QED
    BY <1>1, <1>2, <2>1, <2>2 DEF Inv, Held
<1>5. Turns'
  BY <1>1 DEF Inv, Turns, Held
<1>6. QED
  BY <1>1, <1>3, <1>4, <1>5 DEF Inv

\* What leaves the rows alone and ends t's INSERT keeps all but Turns.
LEMMA NoRowInv ==
  ASSUME Inv, NEW t \in Turn, snap' = [snap EXCEPT ![t] = NoInsert], Turns',
         UNCHANGED <<log, live, cursor, seen>>
  PROVE  Inv'
<1>1. Numbered' /\ Replayed' /\ Len(log) \in Nat
  BY DEF Inv, Numbered, Replayed
<1>2. Held'
  <2>1. /\ Len(log') \in Nat /\ Len(log) <= Len(log') /\ live \subseteq live'
        /\ Len(log) + 1 .. Len(log') \subseteq live'
    BY <1>1
  <2>2. QED
    BY <1>1, <2>1, ReturnHeld DEF Inv
<1>3. QED
  BY <1>1, <1>2 DEF Inv

LEMMA ConflictInv == ASSUME Inv, NEW t \in Turn, Conflict(t) PROVE Inv'
<1>1. CASE GiveUp(t)
  BY <1>1, GiveUpTurns, NoRowInv DEF Conflict, GiveUp, Returns, Inv
<1>2. CASE ~GiveUp(t)
  <2>1. /\ tries[t] + 1 < MAX_APPEND_RETRIES /\ tries' = [tries EXCEPT ![t] = @ + 1]
        /\ snap' = [snap EXCEPT ![t] = NoInsert]
        /\ UNCHANGED <<pc, calls, log, live, cursor, seen>>
    BY <1>2 DEF Conflict
  <2>2. tries' \in [Turn -> 0..MAX_APPEND_RETRIES - 1]
    <3>1. /\ tries \in [Turn -> 0..MAX_APPEND_RETRIES - 1] /\ MAX_APPEND_RETRIES \in Nat
          /\ tries[t] \in 0..MAX_APPEND_RETRIES - 1
      BY DEF Inv, Turns, MAX_APPEND_RETRIES
    <3>2. tries[t] + 1 \in 0..MAX_APPEND_RETRIES - 1
      BY <2>1, <3>1
    <3>3. QED
      BY <2>1, <3>1, <3>2
  <2>3. \A u \in Turn : snap'[u] # NoInsert => snap[u] # NoInsert
    BY <2>1 DEF Inv, Held
  <2>4. Turns'
    BY <2>1, <2>2, <2>3 DEF Inv, Turns
  <2>5. QED
    BY <2>1, <2>4, NoRowInv
<1>3. QED
  BY <1>1, <1>2

LEMMA AbortInv == ASSUME Inv, NEW t \in Turn, Abort(t) PROVE Inv'
BY GiveUpTurns, NoRowInv DEF Abort, Returns, Inv

LEMMA InnerInv == ASSUME Inv, NEW t \in Turn, Inner(t) PROVE Inv'
<1>1. /\ pc[t] = "inner" /\ UNCHANGED <<log, live, snap, tries, cursor, seen>>
      /\ \/ \E c \in Calls : /\ calls' = [calls EXCEPT ![t] = c]
                             /\ pc' = [pc EXCEPT ![t] = "assistant"]
         \/ pc' = [pc EXCEPT ![t] = "error"] /\ UNCHANGED calls
  BY DEF Inner
<1>2. Turns'
  <2>1. snap[t] = NoInsert
    BY <1>1 DEF Inv, Turns, Appending
  <2>2. CASE pc' = [pc EXCEPT ![t] = "error"] /\ UNCHANGED calls
    BY <1>1, <2>1, <2>2 DEF Inv, Turns, PC, Appending
  <2>3. ASSUME NEW c \in Calls, calls' = [calls EXCEPT ![t] = c],
               pc' = [pc EXCEPT ![t] = "assistant"]
        PROVE  Turns'
    <3>1. c \in Seq(Tool)
      BY Shapes
    <3>2. QED
      BY <1>1, <2>1, <2>3, <3>1 DEF Inv, Turns, PC, Appending
  <2>4. QED
    BY <1>1, <2>2, <2>3
<1>3. QED
  BY <1>1, <1>2 DEF Inv, Numbered, Held, Replayed

LEMMA PruneInv ==
  ASSUME Inv, NEW n \in 1..Len(log), NEW k \in PruneKind, Prune(n, k)
  PROVE  Inv'
<1>1. PICK gone \in SUBSET live :
        /\ \A i \in gone : i <= n
        /\ live' = live \ gone /\ seen' = seen \ gone
  BY DEF Prune
<1>2. /\ n < Len(log) /\ UNCHANGED <<log, pc, snap, tries, calls, cursor>>
      /\ \A t \in Turn : snap[t] # NoInsert => n <= snap[t].from
      /\ n \in Nat /\ Len(log) \in Nat
  BY DEF Prune, Inv, Numbered
<1>3. Numbered'
  BY <1>1, <1>2 DEF Inv, Numbered
<1>4. Held'
  <2>1. ASSUME NEW t \in Turn, snap[t] # NoInsert
        PROVE  snap[t].from + 1 .. Len(log) \subseteq live'
    BY <1>1, <1>2, <2>1 DEF Inv, Held
  <2>2. QED
    BY <1>2, <2>1 DEF Inv, Held
<1>5. Turns' /\ Replayed'
  BY <1>1, <1>2 DEF Inv, Turns, Replayed
<1>6. QED
  BY <1>3, <1>4, <1>5 DEF Inv

LEMMA WakeInv == ASSUME Inv, Wake PROVE Inv'
<1>1. /\ live \subseteq 1..Len(log) /\ Len(log) \in Nat /\ cursor \in Nat
      /\ \A i \in live : log[i].seq = i
      /\ Len(log) > 0 => Len(log) \in live
  BY DEF Inv, Numbered, Replayed
<1>2. Since(cursor) = {i \in live : i > cursor} /\ Since(cursor) # {}
  BY <1>1 DEF Since, Wake
<1>3. \A i \in Since(cursor) : log[i].seq = i /\ i \in 1..Len(log)
  BY <1>1, <1>2
<1>4. Len(log) \in Since(cursor)
  <2>1. PICK i \in live : i > cursor
    BY <1>2
  <2>2. i \in 1..Len(log) /\ Len(log) > cursor /\ Len(log) \in live
    BY <1>1, <2>1
  <2>3. QED
    BY <1>2, <2>2
<1>5. cursor' = Len(log)
  <2> DEFINE S == {log[i].seq : i \in Since(cursor)}
  <2>1. S \in SUBSET Nat /\ Len(log) \in S /\ \A x \in S : x <= Len(log)
    BY <1>1, <1>3, <1>4
  <2>2. cursor' = Max(S)
    BY DEF Wake
  <2> HIDE DEF S
  <2>3. QED
    BY <2>1, <2>2, MaxIs
<1>6. seen' = seen \cup Since(cursor) /\ UNCHANGED <<log, live, pc, snap, tries, calls>>
  BY DEF Wake
<1>7. Replayed'
  <2>1. /\ \A i : i \in seen <=> i \in live /\ i <= cursor
        /\ \A i \in live : i <= cursor \/ i > cursor
        /\ \A i \in live : i <= Len(log)
    BY <1>1 DEF Inv, Replayed
  <2>2. \A i : i \in seen' <=> i \in live
    BY <1>2, <1>6, <2>1
  <2>3. seen' = {i \in live' : i <= cursor'}
    BY <1>5, <1>6, <2>1, <2>2
  <2>4. cursor' \in 0..Len(log')
    BY <1>1, <1>5, <1>6
  <2>5. QED
    BY <2>3, <2>4 DEF Replayed
<1>8. QED
  BY <1>6, <1>7 DEF Inv, Numbered, Held, Turns

LEMMA InvNext == Inv /\ [Next]_vars => Inv'
<1> SUFFICES ASSUME Inv, [Next]_vars PROVE Inv'
  OBVIOUS
<1>1. CASE UNCHANGED vars
  BY <1>1 DEF vars, Inv, Numbered, Held, Turns, Replayed
<1>2. QED
  BY <1>1, CommitInv, BeginInsertInv, ConflictInv, InnerInv, AbortInv, PruneInv, WakeInv DEF Next

-----------------------------------------------------------------------------
(* Theorems *)

LEMMA Invariance == ASSUME KeepsNewest PROVE Spec => []Inv
<1>1. Init => Inv
  BY InvInit
<1>2. QED
  BY <1>1, InvNext, PTL DEF Spec

\* Type correctness; in particular no two rows of the table share a seq.
THEOREM TypeCorrect == ASSUME KeepsNewest PROVE Spec => []TypeOK
<1>1. Inv => TypeOK
  <2> SUFFICES ASSUME Inv PROVE TypeOK
    OBVIOUS
  <2>1. \A i \in DOMAIN log : log[i].seq \in Nat \ {0} /\ log[i].event \in Event
    <3>1. ASSUME NEW i \in DOMAIN log PROVE log[i] \in Row
      BY DEF Inv, Numbered
    <3>2. QED
      BY <3>1 DEF Row
  <2>2. \A t \in Turn : \A i \in DOMAIN calls[t] : calls[t][i] \in Tool
    BY DEF Inv, Turns
  <2>3. Cardinality(Seqs) = Cardinality(live)
    BY SeqsAreLive DEF Inv
  <2>4. QED
    BY <2>1, <2>2, <2>3 DEF Inv, Numbered, Turns, Replayed, TypeOK
<1>2. QED
  BY <1>1, Invariance, PTL

\* A worker that replays from its cursor has seen every row at or below it.
THEOREM WorkerMissesNothing == ASSUME KeepsNewest PROVE Spec => []NothingMissed
<1>1. Inv => NothingMissed
  BY DEF Inv, Numbered, Replayed, NothingMissed
<1>2. QED
  BY <1>1, Invariance, PTL

\* Optimistic appends with retries do what the appends under a lock do.
THEOREM OptimisticIsLocked == ASSUME KeepsNewest PROVE Spec => ImplementsInMemory
<1>1. Init => InMemory!Init
  <2> SUFFICES ASSUME Init PROVE InMemory!Init
    OBVIOUS
  <2>1. Seqs \cup {0} = {0}
    BY DEF Init, Seqs
  <2>2. Max({0}) = 0
    BY MaxIs
  <2>3. QED
    BY <2>1, <2>2 DEF Init, InMemory!Init
<1>2. Inv /\ Inv' /\ Counted /\ Counted' /\ [Next]_vars => [InMemory!Next]_(InMemory!vars)
  <2> SUFFICES ASSUME Inv, Inv', Counted, Counted', [Next]_vars
               PROVE  [InMemory!Next]_(InMemory!vars)
    OBVIOUS
  <2>1. Max(Seqs \cup {0}) = Len(log) /\ Max(Seqs' \cup {0}) = Len(log')
    BY DEF Counted
  <2>2. ASSUME NEW t \in Turn, Commit(t) PROVE InMemory!Next
    <3>1. /\ snap[t].seq = Len(log) + 1 /\ NextEvent(t) \in Event
      BY <2>2, FreeIsNext, NextEventType DEF Inv, Turns, Commit
    <3>2. /\ log' = Append(log, [seq |-> Len(log) + 1, event |-> NextEvent(t)])
          /\ live' = live \cup {Len(log')}
      BY <2>2, <3>1 DEF Commit
    <3>3. Len(log') = Len(log) + 1
      BY <3>2 DEF Inv, Numbered
    <3>4. InMemory!Append1(NextEvent(t))
      BY <2>1, <3>2, <3>3 DEF InMemory!Append1
    <3>5. QED
      BY <3>1, <3>4 DEF InMemory!Next
  <2>3. ASSUME NEW n \in 1..Len(log), NEW k \in PruneKind, Prune(n, k)
        PROVE  InMemory!Next
    <3>1. live' \in SUBSET live /\ UNCHANGED log
      BY <2>3 DEF Prune
    <3>2. live' # {}
      BY <2>3 DEF Inv, Numbered, Prune
    <3>3. InMemory!PruneOlderThan
      BY <2>1, <3>1, <3>2 DEF InMemory!PruneOlderThan
    <3>4. QED
      BY <3>3 DEF InMemory!Next
  <2>4. CASE UNCHANGED <<log, live>>
    BY <2>1, <2>4 DEF InMemory!vars
  <2>5. UNCHANGED <<log, live>>
          \/ (\E t \in Turn : Commit(t))
          \/ (\E n \in 1..Len(log), k \in PruneKind : Prune(n, k))
    BY DEF Next, vars, BeginInsert, Conflict, Inner, Abort, Wake
  <2>6. QED
    BY <2>2, <2>3, <2>4, <2>5
<1>3. Inv => Counted
  BY LastSeq DEF Inv, Counted
<1>4. QED
  BY <1>1, <1>2, <1>3, Invariance, PTL DEF Spec, ImplementsInMemory, InMemory!Spec
-----------------------------------------------------------------------------
(* What the turns record, also when the newest rows may go *)

Written(t) == Cardinality(Rows(t))
Failure(t) == <<UserMessage(t), ErrorMessage(t)>>

\* The calls left to record are the last ones of c.
Remains(t, c) ==
  /\ Len(calls[t]) > 0 /\ Written(t) >= 2 /\ Written(t) + Len(calls[t]) = Len(c) + 2
  /\ \A k \in 1..Len(calls[t]) : calls[t][k] = c[Written(t) - 2 + k]

\* What turn t has recorded, by where it is.
TurnAt(t) ==
  /\ pc[t] = "user" => Written(t) = 0
  /\ pc[t] \in {"inner", "assistant", "error"} => Written(t) = 1 /\ Tells(t, <<UserMessage(t)>>)
  /\ pc[t] = "assistant" => calls[t] \in Calls
  /\ pc[t] = "result" => \E c \in Calls : Tells(t, StoryOf(t, c)) /\ Remains(t, c)
  /\ pc[t] = "done" => \E c \in Calls : Tells(t, StoryOf(t, c)) /\ Written(t) = Len(c) + 2
  /\ pc[t] = "failed" => Tells(t, Failure(t)) \/ \E c \in Calls : Tells(t, StoryOf(t, c))

Shape ==
  /\ \E S : log \in Seq(S)
  /\ pc \in [Turn -> PC] /\ calls \in [Turn -> Seq(Tool)] /\ \E S : snap \in [Turn -> S]
  /\ \A t \in Turn : snap[t] # NoInsert => pc[t] \in Appending

\* No rank is left out.
Full(t) == \A n \in 1..Written(t) : \E i \in Rows(t) : Rank(i) = n

Recorded == Shape /\ \A t \in Turn : TurnAt(t) /\ Full(t)

\* The n-th event of the story of a turn whose response declares c.
LEMMA StoryIs ==
  ASSUME NEW t, NEW c \in Calls
  PROVE  /\ Len(StoryOf(t, c)) = Len(c) + 2 /\ DOMAIN StoryOf(t, c) = 1..Len(c) + 2 /\ Len(c) \in Nat
         /\ StoryOf(t, c)[1] = UserMessage(t) /\ StoryOf(t, c)[2] = AssistantMessage(t, c)
         /\ \A n \in 1..Len(c) : StoryOf(t, c)[n + 2] = ToolResult(t, c[n])
<1> DEFINE r == [i \in DOMAIN c |-> ToolResult(t, c[i])]
           h == <<UserMessage(t), AssistantMessage(t, c)>>
           S == {UserMessage(t), AssistantMessage(t, c)} \cup {ToolResult(t, id) : id \in Tool}
<1>1. c \in Seq(Tool)
  BY Shapes
<1>2. r \in Seq(S) /\ Len(r) = Len(c) /\ \A n \in 1..Len(c) : r[n] = ToolResult(t, c[n])
  <2>1. \A n \in 1..Len(c) : c[n] \in Tool
    BY <1>1
  <2>2. r \in [1..Len(c) -> S]
    BY <1>1, <2>1
  <2>3. Len(c) \in Nat
    BY <1>1
  <2>4. QED
    BY <1>1, <2>2, <2>3
<1>3. h \in Seq(S) /\ Len(h) = 2 /\ h[1] = UserMessage(t) /\ h[2] = AssistantMessage(t, c)
  OBVIOUS
<1>4. StoryOf(t, c) = h \o r
  BY DEF StoryOf
<1> HIDE DEF r, h, S
<1>5. Len(c) \in Nat
  BY <1>1
<1>6. h \in Seq(S) /\ r \in Seq(S)
  BY <1>2, <1>3
<1>7. /\ h \o r \in Seq(S) /\ Len(h \o r) = Len(h) + Len(r)
      /\ \A i \in 1..Len(h) + Len(r) : (h \o r)[i] = IF i <= Len(h) THEN h[i] ELSE r[i - Len(h)]
  BY <1>6, ConcatProperties
<1>8. Len(h \o r) = Len(c) + 2 /\ DOMAIN (h \o r) = 1..Len(c) + 2
  BY <1>2, <1>3, <1>5, <1>7
<1>9. (h \o r)[1] = UserMessage(t) /\ (h \o r)[2] = AssistantMessage(t, c)
  BY <1>2, <1>3, <1>5, <1>7
<1>10. ASSUME NEW n \in 1..Len(c) PROVE (h \o r)[n + 2] = ToolResult(t, c[n])
  <2>1. n + 2 \in 1..Len(h) + Len(r) /\ ~(n + 2 <= Len(h)) /\ n + 2 - Len(h) = n
    BY <1>2, <1>3, <1>5
  <2>2. (h \o r)[n + 2] = r[n]
    BY <1>7, <2>1
  <2>3. QED
    BY <1>2, <2>2
<1>11. QED
  BY <1>4, <1>5, <1>7, <1>8, <1>9, <1>10

\* What a turn told is the beginning of every story that goes on the same way.
LEMMA TellsMore ==
  ASSUME NEW t, NEW s, NEW r, Tells(t, s), DOMAIN s \subseteq DOMAIN r, \A n \in DOMAIN s : r[n] = s[n]
  PROVE  Tells(t, r)
BY DEF Tells

\* The rows of a turn are finitely many.
LEMMA RowsFinite ==
  ASSUME Shape, NEW t
  PROVE  /\ IsFiniteSet(Rows(t)) /\ Written(t) \in Nat /\ Rows(t) \subseteq 1..Len(log) /\ Len(log) \in Nat
         /\ Written(t) = 0 => Rows(t) = {}
<1>1. PICK S : log \in Seq(S)
  BY DEF Shape
<1>2. Rows(t) \subseteq 1..Len(log) /\ Len(log) \in Nat
  BY <1>1 DEF Rows
<1>3. IsFiniteSet(Rows(t))
  <2>1. IsFiniteSet(1..Len(log))
    BY <1>2, FS_Interval
  <2>2. QED
    BY <1>2, <2>1, FS_Subset
<1>4. QED
  BY <1>2, <1>3, FS_CardinalityType, FS_EmptySet DEF Written

\* A turn that has recorded nothing tells every story.
LEMMA NothingTold == ASSUME Shape, NEW t, Written(t) = 0, NEW s PROVE Tells(t, s)
BY RowsFinite DEF Tells

\* One more row of turn t: the others tell what they told, and t goes on with it.
LEMMA RowAdded ==
  ASSUME Shape, NEW t, NEW q, NEW e, e.turn = t, log' = Append(log, [seq |-> q, event |-> e])
  PROVE  /\ \A u : u # t => Rows(u)' = Rows(u) /\ \A s : Tells(u, s) => Tells(u, s)'
         /\ Written(t)' = Written(t) + 1
         /\ \A s : Tells(t, s) /\ Written(t) + 1 \in DOMAIN s /\ s[Written(t) + 1] = e => Tells(t, s)'
         /\ \E S : log' \in Seq(S)
         /\ \A u : Full(u) => Full(u)'
<1> DEFINE row == [seq |-> q, event |-> e]
<1>0. PICK N : N = Len(log) + 1
  OBVIOUS
<1>1. PICK S : log \in Seq(S)
  BY DEF Shape
<1>2. log \in Seq(S \cup {row}) /\ row \in S \cup {row}
  <2>1. Len(log) \in Nat /\ log \in [1..Len(log) -> S \cup {row}]
    BY <1>1
  <2>2. QED
    BY <2>1
<1>3. row.event = e
  OBVIOUS
<1> HIDE DEF row
<1>4. /\ log' \in Seq(S \cup {row}) /\ DOMAIN log' = 1..N /\ DOMAIN log = 1..Len(log) /\ log'[N] = row
      /\ \A i \in DOMAIN log : log'[i] = log[i]
      /\ Len(log) \in Nat /\ N = Len(log) + 1
  BY <1>0, <1>2 DEF row
<1>5. \A u : Rows(u)' = IF u = t THEN Rows(t) \cup {N} ELSE Rows(u)
  BY <1>3, <1>4 DEF Rows
<1>6. \A u : Rows(u) \subseteq 1..Len(log) /\ N \notin Rows(u)
  BY <1>4 DEF Rows
<1>7. ASSUME NEW i \in DOMAIN log PROVE Rank(i)' = Rank(i)
  <2>1. log'[i].event.turn = log[i].event.turn
    BY <1>4
  <2>2. ~(N <= i)
    BY <1>4
  <2>3. {j \in Rows(log[i].event.turn)' : j <= i} = {j \in Rows(log[i].event.turn) : j <= i}
    BY <1>5, <2>2
  <2>4. QED
    BY <2>1, <2>3 DEF Rank
<1>8. Rank(N)' = Written(t) + 1 /\ Written(t)' = Written(t) + 1
  <2>1. Cardinality(Rows(t) \cup {N}) = Written(t) + 1
    BY <1>6, RowsFinite, FS_AddElement DEF Written
  <2>2. log'[N].event.turn = t
    BY <1>3, <1>4
  <2>3. {j \in Rows(t)' : j <= N} = Rows(t) \cup {N}
    BY <1>4, <1>5, <1>6
  <2>4. Rank(N)' = Cardinality({j \in Rows(t)' : j <= N})
    BY <2>2 DEF Rank
  <2>5. QED
    BY <1>5, <2>1, <2>3, <2>4 DEF Written
<1>9. ASSUME NEW u, NEW s, Tells(u, s), u = t => Written(t) + 1 \in DOMAIN s /\ s[Written(t) + 1] = e
      PROVE  Tells(u, s)'
  <2>1. ASSUME NEW i \in Rows(u) PROVE Rank(i)' \in DOMAIN s /\ log'[i].event = s[Rank(i)']
    <3>1. i \in DOMAIN log
      BY DEF Rows
    <3>2. QED
      BY <1>4, <1>7, <1>9, <3>1 DEF Tells
  <2>2. u = t => Rank(N)' \in DOMAIN s /\ log'[N].event = s[Rank(N)']
    BY <1>3, <1>4, <1>8, <1>9
  <2>3. \A i \in Rows(u)' : i \in Rows(u) \/ (u = t /\ i = N)
    BY <1>5
  <2>4. QED
    BY <2>1, <2>2, <2>3 DEF Tells
<1>10. ASSUME NEW u, Full(u) PROVE Full(u)'
  <2>1. ASSUME NEW n \in 1..Written(u) PROVE \E i \in Rows(u)' : Rank(i)' = n
    <3>1. PICK i \in Rows(u) : Rank(i) = n
      BY <1>10 DEF Full
    <3>2. i \in DOMAIN log /\ i \in Rows(u)'
      BY <1>5, <3>1 DEF Rows
    <3>3. QED
      BY <1>7, <3>1, <3>2
  <2>2. CASE u # t
    <3>1. Written(u)' = Written(u)
      BY <1>5, <2>2 DEF Written
    <3>2. QED
      BY <2>1, <3>1 DEF Full
  <2>3. CASE u = t
    <3>1. \A n \in 1..Written(t) + 1 : n \in 1..Written(t) \/ n = Written(t) + 1
      BY RowsFinite
    <3>2. N \in Rows(t)'
      BY <1>5
    <3>3. QED
      BY <1>8, <2>1, <2>3, <3>1, <3>2 DEF Full
  <2>4. QED
    BY <2>2, <2>3
<1>11. QED
  BY <1>4, <1>5, <1>8, <1>9, <1>10
\* Where a turn fails, whatever it has recorded begins a story.
LEMMA Fails ==
  ASSUME Shape, NEW t \in Turn, TurnAt(t), pc[t] # "done"
  PROVE  Tells(t, Failure(t)) \/ \E c \in Calls : Tells(t, StoryOf(t, c))
<1>1. CASE pc[t] = "user"
  BY <1>1, NothingTold DEF TurnAt
<1>2. CASE pc[t] \in {"inner", "assistant", "error"}
  BY <1>2, TellsMore DEF TurnAt, Failure
<1>3. CASE pc[t] \in {"result", "failed"}
  BY <1>3 DEF TurnAt
<1>4. QED
  BY <1>1, <1>2, <1>3 DEF Shape, PC, Appending

\* A step of turn t that stores nothing leaves what the others have recorded.
LEMMA SameRows ==
  ASSUME UNCHANGED log
  PROVE  \A u : /\ Written(u)' = Written(u) /\ (Full(u) => Full(u)')
               /\ \A s : Tells(u, s)' <=> Tells(u, s)
BY DEF Written, Full, Tells, Rows, Rank

LEMMA OtherTurn ==
  ASSUME NEW u, TurnAt(u), pc'[u] = pc[u], calls'[u] = calls[u], Written(u)' = Written(u),
         \A s : Tells(u, s) => Tells(u, s)'
  PROVE  TurnAt(u)'
BY DEF TurnAt, Remains

\* What the end of an append does to the slots.
LEMMA ShapeReturns ==
  ASSUME Shape, NEW t \in Turn, NEW p \in PC, Returns(t, p), NEW c \in Seq(Tool), calls' = [calls EXCEPT ![t] = c],
         \E S : log' \in Seq(S)
  PROVE  /\ Shape' /\ pc'[t] = p /\ calls'[t] = c
         /\ \A u \in Turn \ {t} : pc'[u] = pc[u] /\ calls'[u] = calls[u]
<1>1. pc' = [pc EXCEPT ![t] = p] /\ snap' = [snap EXCEPT ![t] = NoInsert]
  BY DEF Returns
<1>2. PICK S : snap \in [Turn -> S]
  BY DEF Shape
<1>3. snap' \in [Turn -> S \cup {NoInsert}]
  BY <1>1, <1>2
<1>4. \A u \in Turn : snap'[u] # NoInsert => u # t /\ snap'[u] = snap[u]
  BY <1>1, <1>2
<1>5. /\ pc' \in [Turn -> PC] /\ calls' \in [Turn -> Seq(Tool)] /\ pc'[t] = p /\ calls'[t] = c
      /\ \A u \in Turn \ {t} : pc'[u] = pc[u] /\ calls'[u] = calls[u]
  BY <1>1 DEF Shape
<1>6. QED
  BY <1>3, <1>4, <1>5 DEF Shape

\* The row t stores is the next event of its story.
LEMMA CommitTells ==
  ASSUME Recorded, NEW t \in Turn, Commit(t)
  PROVE  TurnAt(t)'
<1>1. Shape /\ TurnAt(t) /\ pc[t] \in Appending /\ calls[t] \in Seq(Tool) /\ Written(t) \in Nat
  BY RowsFinite DEF Recorded, Shape, Commit
<1>2. /\ log' = Append(log, [seq |-> snap[t].seq, event |-> NextEvent(t)])
      /\ Follow(t) \/ GiveUp(t)
  BY DEF Commit
<1>3. ASSUME NextEvent(t).turn = t
      PROVE  /\ Written(t)' = Written(t) + 1
             /\ \A s : Tells(t, s) /\ Written(t) + 1 \in DOMAIN s /\ s[Written(t) + 1] = NextEvent(t) => Tells(t, s)'
  BY <1>1, <1>2, <1>3, RowAdded
<1>4. CASE pc[t] = "user"
  <2>1. NextEvent(t) = UserMessage(t) /\ Written(t) = 0 /\ \A s : Tells(t, s)
    BY <1>1, <1>4, NothingTold DEF NextEvent, TurnAt
  <2>2. Written(t)' = 1 /\ Tells(t, <<UserMessage(t)>>)' /\ Tells(t, Failure(t))'
    BY <1>3, <2>1 DEF UserMessage, Failure
  <2>3. pc'[t] \in {"inner", "failed"}
    BY <1>1, <1>2, <1>4 DEF Follow, GiveUp, Returns, Shape
  <2>4. QED
    BY <2>2, <2>3 DEF TurnAt
<1>5. CASE pc[t] = "error"
  <2>1. NextEvent(t) = ErrorMessage(t) /\ Written(t) = 1 /\ Tells(t, Failure(t))
    BY <1>1, <1>5, TellsMore DEF NextEvent, TurnAt, Failure
  <2>2. Tells(t, Failure(t))'
    BY <1>3, <2>1 DEF ErrorMessage, Failure
  <2>3. pc'[t] = "failed"
    BY <1>1, <1>2, <1>5 DEF Follow, GiveUp, Returns, Shape
  <2>4. QED
    BY <2>2, <2>3 DEF TurnAt
<1>6. CASE pc[t] = "assistant"
  <2>1. PICK c \in Calls : c = calls[t] /\ c \in Seq(Tool) /\ Len(c) \in Nat
    BY <1>1, <1>6 DEF TurnAt
  <2>2. NextEvent(t) = AssistantMessage(t, c) /\ Written(t) = 1 /\ Tells(t, StoryOf(t, c))
    <3>1. Tells(t, <<UserMessage(t)>>) /\ Written(t) = 1
      BY <1>1, <1>6 DEF TurnAt
    <3>2. Tells(t, StoryOf(t, c))
      BY <2>1, <3>1, StoryIs, TellsMore
    <3>3. QED
      BY <1>6, <2>1, <3>1, <3>2 DEF NextEvent
  <2>3. Written(t)' = 2 /\ Tells(t, StoryOf(t, c))'
    <3>1. 2 \in DOMAIN StoryOf(t, c) /\ StoryOf(t, c)[2] = NextEvent(t)
      BY <2>1, <2>2, StoryIs
    <3>2. QED
      BY <1>3, <2>2, <3>1 DEF AssistantMessage
  <2>4. CASE Follow(t)
    <3>1. /\ calls'[t] = c /\ pc'[t] = IF c = <<>> THEN "done" ELSE "result"
      BY <1>1, <1>6, <2>1, <2>4 DEF Follow, Returns, Shape
    <3>2. c # <<>> => Remains(t, c)'
      BY <2>1, <2>3, <3>1 DEF Remains
    <3>3. c = <<>> => Written(t)' = Len(c) + 2
      BY <2>3
    <3>4. QED
      BY <2>1, <2>3, <3>1, <3>2, <3>3 DEF TurnAt
  <2>5. CASE GiveUp(t)
    <3>1. pc'[t] = "failed"
      BY <1>1, <2>5 DEF GiveUp, Returns, Shape
    <3>2. QED
      BY <2>3, <3>1 DEF TurnAt
  <2>6. QED
    BY <1>2, <2>4, <2>5
<1>7. CASE pc[t] = "result"
  <2>1. PICK c \in Calls : Tells(t, StoryOf(t, c)) /\ Remains(t, c)
    BY <1>1, <1>7 DEF TurnAt
  <2>2. PICK n \in Nat, m \in Nat : n = Written(t) /\ m = Len(calls[t])
    BY <1>1
  <2>3. /\ m > 0 /\ n >= 2 /\ n + m = Len(c) + 2 /\ Len(c) \in Nat
        /\ \A k \in 1..m : calls[t][k] = c[n - 2 + k]
    BY <2>1, <2>2, StoryIs DEF Remains
  <2>4. NextEvent(t) = ToolResult(t, c[n - 1])
    <3>1. Head(calls[t]) = calls[t][1] /\ 1 \in 1..m /\ n - 2 + 1 = n - 1
      BY <1>1, <2>2, <2>3
    <3>2. Head(calls[t]) = c[n - 1]
      BY <2>3, <3>1
    <3>3. QED
      BY <1>7, <3>2 DEF NextEvent
  <2>5. n + 1 \in DOMAIN StoryOf(t, c) /\ StoryOf(t, c)[n + 1] = NextEvent(t)
    <3>1. n - 1 \in 1..Len(c) /\ n - 1 + 2 = n + 1 /\ n + 1 \in 1..Len(c) + 2
      BY <2>2, <2>3
    <3>2. StoryOf(t, c)[n - 1 + 2] = ToolResult(t, c[n - 1])
      BY <3>1, StoryIs
    <3>3. QED
      BY <2>4, <3>1, <3>2, StoryIs
  <2>6. Written(t)' = n + 1 /\ Tells(t, StoryOf(t, c))'
    <3>1. NextEvent(t).turn = t
      BY <2>4 DEF ToolResult
    <3>2. QED
      BY <1>3, <2>1, <2>2, <2>5, <3>1
  <2>7. CASE Follow(t)
    <3>1. PICK d \in Seq(Tool) : /\ d = Tail(calls[t]) /\ Len(d) = m - 1
                                 /\ \A k \in 1..m - 1 : d[k] = calls[t][k + 1]
      <4>1. calls[t] # <<>>
        BY <2>2, <2>3
      <4>2. /\ Tail(calls[t]) \in Seq(Tool) /\ Len(Tail(calls[t])) = m - 1
            /\ \A k \in 1..Len(Tail(calls[t])) : Tail(calls[t])[k] = calls[t][k + 1]
        BY <1>1, <2>2, <4>1, HeadTailProperties
      <4>3. QED
        BY <4>2
    <3>2. d = <<>> <=> m - 1 = 0
      BY <3>1, EmptySeq
    <3>3. calls'[t] = d /\ pc'[t] = IF d = <<>> THEN "done" ELSE "result"
      BY <1>1, <1>7, <2>7, <3>1 DEF Follow, Returns, Shape
    <3>4. CASE d # <<>>
      <4>1. ASSUME NEW k \in 1..m - 1 PROVE d[k] = c[n + 1 - 2 + k]
        <5>1. k + 1 \in 1..m /\ n - 2 + (k + 1) = n + 1 - 2 + k
          BY <2>2
        <5>2. QED
          BY <2>3, <3>1, <5>1
      <4>2. m - 1 > 0 /\ n + 1 >= 2 /\ n + 1 + (m - 1) = Len(c) + 2
        BY <2>2, <2>3, <3>1, <3>2, <3>4
      <4>3. Remains(t, c)'
        <5>1. calls'[t] = d /\ Len(d) = m - 1 /\ Written(t)' = n + 1
          BY <2>6, <3>1, <3>3
        <5>2. /\ Len(d) > 0 /\ n + 1 >= 2 /\ n + 1 + Len(d) = Len(c) + 2
              /\ \A k \in 1..Len(d) : d[k] = c[n + 1 - 2 + k]
          BY <4>1, <4>2, <5>1
        <5>3. QED
          BY <5>1, <5>2 DEF Remains
      <4>4. QED
        BY <2>6, <3>3, <3>4, <4>3 DEF TurnAt
    <3>5. CASE d = <<>>
      <4>1. Written(t)' = Len(c) + 2
        BY <2>2, <2>3, <2>6, <3>2, <3>5
      <4>2. QED
        BY <2>6, <3>3, <3>5, <4>1 DEF TurnAt
    <3>6. QED
      BY <3>4, <3>5
  <2>8. CASE GiveUp(t)
    <3>1. pc'[t] = "failed"
      BY <1>1, <2>8 DEF GiveUp, Returns, Shape
    <3>2. QED
      BY <2>6, <3>1 DEF TurnAt
  <2>9. QED
    BY <1>2, <2>7, <2>8
<1>8. QED
  BY <1>1, <1>4, <1>5, <1>6, <1>7 DEF Appending

LEMMA CommitRecorded == ASSUME Recorded, NEW t \in Turn, Commit(t) PROVE Recorded'
<1>1. Shape /\ pc[t] \in Appending /\ calls[t] \in Seq(Tool)
  BY DEF Recorded, Shape, Commit
<1>2. /\ log' = Append(log, [seq |-> snap[t].seq, event |-> NextEvent(t)])
      /\ Follow(t) \/ GiveUp(t)
  BY DEF Commit
<1>3. NextEvent(t).turn = t
  BY <1>1 DEF NextEvent, Appending, UserMessage, AssistantMessage, ErrorMessage, ToolResult
<1>4. /\ \A u : u # t => Rows(u)' = Rows(u) /\ \A s : Tells(u, s) => Tells(u, s)'
      /\ (\E S : log' \in Seq(S)) /\ \A u : Full(u) => Full(u)'
  BY <1>1, <1>2, <1>3, RowAdded
<1>5. PICK p \in PC, c \in Seq(Tool) : Returns(t, p) /\ calls' = [calls EXCEPT ![t] = c]
  <2>1. CASE GiveUp(t)
    <3>1. calls' = [calls EXCEPT ![t] = calls[t]] /\ "failed" \in PC
      BY <1>1, <2>1 DEF GiveUp, Shape, PC
    <3>2. QED
      BY <1>1, <2>1, <3>1 DEF GiveUp
  <2>2. CASE Follow(t) /\ pc[t] = "result"
    <3>1. Tail(calls[t]) \in Seq(Tool)
      <4>1. calls[t] # <<>>
        <5>1. Len(calls[t]) > 0
          BY <2>2 DEF Recorded, TurnAt, Remains
        <5>2. QED
          BY <5>1
      <4>2. QED
        BY <1>1, <4>1
    <3>2. "done" \in PC /\ "result" \in PC
      BY DEF PC, Appending
    <3>3. calls' = [calls EXCEPT ![t] = Tail(calls[t])] /\ (Returns(t, "done") \/ Returns(t, "result"))
      BY <2>2 DEF Follow
    <3>4. QED
      BY <3>1, <3>2, <3>3
  <2>3. CASE Follow(t) /\ pc[t] # "result"
    <3>1. "done" \in PC /\ "result" \in PC /\ "inner" \in PC /\ "failed" \in PC
      BY DEF PC, Appending
    <3>2. /\ calls' = [calls EXCEPT ![t] = calls[t]]
          /\ Returns(t, "done") \/ Returns(t, "result") \/ Returns(t, "inner") \/ Returns(t, "failed")
      BY <2>3 DEF Follow
    <3>3. QED
      BY <1>1, <3>1, <3>2
  <2>4. QED
    BY <1>2, <2>1, <2>2, <2>3
<1>6. Shape' /\ \A u \in Turn \ {t} : pc'[u] = pc[u] /\ calls'[u] = calls[u]
  BY <1>1, <1>4, <1>5, ShapeReturns
<1>7. ASSUME NEW u \in Turn, u # t PROVE TurnAt(u)'
  <2>1. Written(u)' = Written(u) /\ (\A s : Tells(u, s) => Tells(u, s)') /\ TurnAt(u)
    BY <1>4, <1>7 DEF Written, Recorded
  <2>2. QED
    BY <1>6, <1>7, <2>1, OtherTurn
<1>8. QED
  BY <1>4, <1>6, <1>7, CommitTells DEF Recorded

\* A turn that fails without a row.
LEMMA FailRecorded ==
  ASSUME Recorded, NEW t \in Turn, pc[t] # "done", Returns(t, "failed"), UNCHANGED <<log, calls>>
  PROVE  Recorded'
<1>1. Shape /\ TurnAt(t) /\ calls[t] \in Seq(Tool) /\ calls' = [calls EXCEPT ![t] = calls[t]] /\ "failed" \in PC
      /\ \E S : log' \in Seq(S)
  BY DEF Recorded, Shape, PC
<1>2. /\ Shape' /\ pc'[t] = "failed"
      /\ \A u \in Turn \ {t} : pc'[u] = pc[u] /\ calls'[u] = calls[u]
  BY <1>1, ShapeReturns
<1>3. TurnAt(t)'
  BY <1>1, <1>2, Fails, SameRows DEF TurnAt
<1>4. ASSUME NEW u \in Turn, u # t PROVE TurnAt(u)'
  BY <1>2, <1>4, SameRows, OtherTurn DEF Recorded
<1>5. QED
  BY <1>2, <1>3, <1>4, SameRows DEF Recorded

LEMMA InnerRecorded == ASSUME Recorded, NEW t \in Turn, Inner(t) PROVE Recorded'
<1>1. /\ pc[t] = "inner" /\ UNCHANGED <<log, snap>>
      /\ \/ \E c \in Calls : calls' = [calls EXCEPT ![t] = c] /\ pc' = [pc EXCEPT ![t] = "assistant"]
         \/ pc' = [pc EXCEPT ![t] = "error"] /\ UNCHANGED calls
  BY DEF Inner
<1>2. Shape /\ snap[t] = NoInsert
  BY <1>1 DEF Recorded, Shape, Appending
<1>3. /\ pc'[t] \in {"assistant", "error"} /\ (pc'[t] = "assistant" => calls'[t] \in Calls)
      /\ pc' \in [Turn -> PC] /\ calls' \in [Turn -> Seq(Tool)]
      /\ \A u \in Turn \ {t} : pc'[u] = pc[u] /\ calls'[u] = calls[u]
  <2>1. "assistant" \in PC /\ "error" \in PC
    BY DEF PC, Appending
  <2>2. \A c \in Calls : c \in Seq(Tool)
    BY Shapes
  <2>3. QED
    BY <1>1, <1>2, <2>1, <2>2 DEF Shape
<1>4. Shape'
  BY <1>1, <1>2, <1>3 DEF Shape, Appending
<1>5. TurnAt(t)'
  BY <1>1, <1>3, SameRows DEF Recorded, TurnAt
<1>6. ASSUME NEW u \in Turn, u # t PROVE TurnAt(u)'
  BY <1>1, <1>3, <1>6, SameRows, OtherTurn DEF Recorded
<1>7. QED
  BY <1>1, <1>4, <1>5, <1>6, SameRows DEF Recorded

\* Steps that only move a statement, the table or the worker.
LEMMA QuietRecorded ==
  ASSUME Recorded, UNCHANGED <<log, pc, calls>>, \E S : snap' \in [Turn -> S],
         \A t \in Turn : snap'[t] # NoInsert => pc[t] \in Appending
  PROVE  Recorded'
<1>1. Shape'
  BY DEF Recorded, Shape
<1>2. \A u \in Turn : TurnAt(u)' /\ Full(u)'
  BY SameRows, OtherTurn DEF Recorded
<1>3. QED
  BY <1>1, <1>2 DEF Recorded

LEMMA NextRecorded == Recorded /\ [Next]_vars => Recorded'
<1>1. SUFFICES ASSUME Recorded, [Next]_vars PROVE Recorded'
  OBVIOUS
<1>2. PICK S : snap \in [Turn -> S]
  BY <1>1 DEF Recorded, Shape
<1>3. \A t \in Turn : snap[t] # NoInsert => pc[t] \in Appending
  BY <1>1 DEF Recorded, Shape
<1>4. ASSUME NEW t \in Turn, BeginInsert(t) PROVE Recorded'
  <2>1. PICK x : snap' = [snap EXCEPT ![t] = x]
    BY <1>4 DEF BeginInsert
  <2>2. snap' \in [Turn -> S \cup {x}] /\ \A u \in Turn : u # t => snap'[u] = snap[u]
    BY <1>2, <2>1
  <2>3. QED
    BY <1>1, <1>3, <1>4, <2>2, QuietRecorded DEF BeginInsert
<1>5. ASSUME NEW t \in Turn, Conflict(t) PROVE Recorded'
  <2>1. CASE GiveUp(t)
    <3>1. pc[t] # "done"
      BY <1>3, <1>5 DEF Conflict, Appending
    <3>2. QED
      BY <1>1, <1>5, <2>1, <3>1, FailRecorded DEF Conflict, GiveUp
  <2>2. CASE ~GiveUp(t)
    <3>1. snap' = [snap EXCEPT ![t] = NoInsert] /\ UNCHANGED <<log, pc, calls>>
      BY <1>5, <2>2 DEF Conflict
    <3>2. snap' \in [Turn -> S \cup {NoInsert}] /\ \A u \in Turn : snap'[u] # NoInsert => snap'[u] = snap[u]
      BY <1>2, <3>1
    <3>3. QED
      BY <1>1, <1>3, <3>1, <3>2, QuietRecorded
  <2>3. QED
    BY <2>1, <2>2
<1>6. ASSUME NEW t \in Turn, Abort(t) PROVE Recorded'
  BY <1>1, <1>6, FailRecorded DEF Abort
<1>7. CASE UNCHANGED <<log, pc, calls, snap>>
  BY <1>1, <1>2, <1>3, <1>7, QuietRecorded
<1>8. CASE \/ UNCHANGED vars \/ Wake
           \/ \E n \in 1..Len(log), k \in PruneKind : Prune(n, k)
  BY <1>7, <1>8 DEF vars, Wake, Prune
<1>9. QED
  BY <1>1, <1>4, <1>5, <1>6, <1>8, CommitRecorded, InnerRecorded DEF Next

LEMMA StoryBegins == Init => Recorded
<1>1. SUFFICES ASSUME Init PROVE Recorded
  OBVIOUS
<1>2. Shape
  <2>1. log \in Seq({}) /\ snap \in [Turn -> {NoInsert}] /\ pc \in [Turn -> PC] /\ calls \in [Turn -> Seq(Tool)]
    BY <1>1 DEF Init, PC, Appending
  <2>2. QED
    BY <1>1, <2>1 DEF Init, Shape
<1>3. ASSUME NEW t \in Turn PROVE TurnAt(t) /\ Full(t)
  <2>1. Rows(t) = {} /\ pc[t] = "user"
    BY <1>1 DEF Init, Rows
  <2>2. Written(t) = 0
    BY <2>1, FS_EmptySet DEF Written
  <2>3. QED
    BY <2>1, <2>2 DEF TurnAt, Full
<1>4. QED
  BY <1>2, <1>3 DEF Recorded

\* What a turn has recorded begins its story, each event once and in order, and
\* a turn that answered has recorded all of it: also when newer rows are pruned
\* and seqs are given out again, for any number of turns and any tool calls.
THEOREM TurnsTellTheirStory == Spec => []TurnsRecorded
<1>1. Recorded => TurnsRecorded
  <2>1. SUFFICES ASSUME Recorded, NEW t \in Turn
                 PROVE  \/ pc[t] # "done" /\ Tells(t, Failure(t))
                        \/ \E c \in Calls : /\ Tells(t, StoryOf(t, c))
                                            /\ pc[t] = "done" => Cardinality(Rows(t)) = Len(StoryOf(t, c))
    BY DEF TurnsRecorded, Failure
  <2>2. CASE pc[t] = "done"
    BY <2>1, <2>2, StoryIs DEF Recorded, TurnAt, Written
  <2>3. CASE pc[t] # "done"
    BY <2>1, <2>3, Fails DEF Recorded
  <2>4. QED
    BY <2>2, <2>3
<1>2. QED
  BY <1>1, StoryBegins, NextRecorded, PTL DEF Spec
-----------------------------------------------------------------------------
(* What a replay finds pending *)

\* A tool result that is pruned goes with everything before it.
Behind ==
  \A i, j \in DOMAIN log : i < j /\ j \notin live /\ log[j].event.kind = "tool_result" => i \notin live

LEMMA NextBehind ==
  ASSUME "tool_result" \notin PruneKind, Inv, Behind, [Next]_vars
  PROVE  Behind'
<1>1. CASE UNCHANGED <<log, live>>
  BY <1>1 DEF Behind
<1>2. ASSUME NEW t \in Turn, Commit(t) PROVE Behind'
  <2>1. PICK r : log' = Append(log, r) /\ live' = live \cup {Len(log')}
    BY <1>2 DEF Commit
  <2>2. PICK S : log \in Seq(S) /\ log' \in Seq(S)
    BY <1>2, CommitInv DEF Inv, Numbered
  <2>3. /\ Len(log) \in Nat /\ DOMAIN log = 1..Len(log) /\ DOMAIN log' = 1..Len(log) + 1
        /\ Len(log') = Len(log) + 1 /\ \A i \in DOMAIN log : log'[i] = log[i]
    BY <2>1, <2>2
  <2>4. \A i, j \in DOMAIN log' : i < j /\ j \notin live' => i \in DOMAIN log /\ j \in DOMAIN log
    BY <2>1, <2>3
  <2>5. live' = live \cup {Len(log) + 1} /\ Len(log) + 1 \notin DOMAIN log
    BY <2>1, <2>3
  <2>6. QED
    BY <2>3, <2>4, <2>5 DEF Behind
<1>3. ASSUME NEW n \in 1..Len(log), NEW k \in PruneKind, Prune(n, k) PROVE Behind'
  <2>1. UNCHANGED log /\ \A i \in live : i \notin live' <=> i <= n /\ k \in {"any", log[i].event.kind}
    BY <1>3 DEF Prune
  <2>2. live' \subseteq live /\ \A i \in DOMAIN log : i \in Nat
    BY <1>3 DEF Prune, Inv, Numbered
  <2>3. ASSUME NEW i \in DOMAIN log, NEW j \in DOMAIN log, i < j, j \notin live', log[j].event.kind = "tool_result"
        PROVE  i \notin live'
    <3>1. CASE j \notin live
      BY <2>2, <2>3, <3>1 DEF Behind
    <3>2. CASE j \in live
      <4>1. j <= n /\ k = "any"
        BY <1>3, <2>1, <2>3, <3>2
      <4>2. i <= n
        BY <2>2, <2>3, <4>1
      <4>3. QED
        BY <2>1, <2>2, <4>1, <4>2
    <3>3. QED
      BY <3>1, <3>2
  <2>4. QED
    BY <2>1, <2>3 DEF Behind
<1>4. QED
  BY <1>1, <1>2, <1>3 DEF Next, vars, BeginInsert, Conflict, Inner, Abort, Wake

\* A later rank is a later row.
LEMMA RankGrows ==
  ASSUME Shape, NEW t, NEW i \in Rows(t), NEW j \in Rows(t), Rank(i) < Rank(j)
  PROVE  i < j
<1>1. i \in 1..Len(log) /\ j \in 1..Len(log) /\ Len(log) \in Nat
  BY RowsFinite
<1>2. SUFFICES ASSUME j <= i PROVE FALSE
  BY <1>1
<1>3. log[i].event.turn = t /\ log[j].event.turn = t
  BY DEF Rows
<1>4. PICK A, B : A = {m \in Rows(t) : m <= j} /\ B = {m \in Rows(t) : m <= i}
  OBVIOUS
<1>5. A \subseteq B
  <2>1. \A m \in Rows(t) : m \in 1..Len(log)
    BY RowsFinite
  <2>2. \A m \in Rows(t) : m <= j => m <= i
    BY <1>1, <1>2, <2>1
  <2>3. QED
    BY <1>4, <2>2
<1>6. IsFiniteSet(B) /\ B \subseteq Rows(t)
  BY <1>4, RowsFinite, FS_Subset
<1>7. Cardinality(A) <= Cardinality(B) /\ Cardinality(A) \in Nat /\ Cardinality(B) \in Nat
  BY <1>5, <1>6, FS_Subset, FS_CardinalityType
<1>8. Rank(i) = Cardinality(B) /\ Rank(j) = Cardinality(A)
  BY <1>3, <1>4 DEF Rank
<1>9. QED
  BY <1>7, <1>8

\* In the story of a turn that answered, each call has its result after it.
LEMMA CallAnswered ==
  ASSUME Inv, Recorded, Behind, NEW a \in live, log[a].event.kind = "assistant_message",
         pc[log[a].event.turn] = "done", NEW x \in log[a].event.ids
  PROVE  \E i \in live : log[i].event.kind = "tool_result" /\ Before(a, i) /\ x \in log[i].event.ids
<1>1. PICK t : t = log[a].event.turn
  OBVIOUS
<1>2. a \in Rows(t) /\ a \in DOMAIN log /\ log \in Seq(Row)
  BY <1>1 DEF Inv, Numbered, Rows
<1>3. t \in Turn
  <2>1. log[a] \in Row
    BY <1>2
  <2>2. log[a].event \in Event
    BY <2>1 DEF Row
  <2>3. QED
    BY <1>1, <2>2 DEF Event, UserMessage, ErrorMessage, AssistantMessage, ToolResult
<1>4. PICK c \in Calls : Tells(t, StoryOf(t, c)) /\ Written(t) = Len(c) + 2
  BY <1>1, <1>3 DEF Recorded, TurnAt
<1>5. log[a].event = AssistantMessage(t, c) /\ Rank(a) = 2
  <2>1. Rank(a) \in 1..Len(c) + 2 /\ log[a].event = StoryOf(t, c)[Rank(a)]
    BY <1>2, <1>4, StoryIs DEF Tells
  <2>2. Rank(a) # 1
    <3>1. UserMessage(t).kind = "user_message"
      BY DEF UserMessage
    <3>2. StoryOf(t, c)[1] = UserMessage(t)
      BY StoryIs
    <3>3. QED
      BY <2>1, <3>1, <3>2
  <2>3. ASSUME Rank(a) # 2 PROVE FALSE
    <3>1. Rank(a) - 2 \in 1..Len(c) /\ (Rank(a) - 2) + 2 = Rank(a)
      BY <2>1, <2>2, <2>3, StoryIs
    <3>2. StoryOf(t, c)[(Rank(a) - 2) + 2] = ToolResult(t, c[Rank(a) - 2])
      BY <3>1, StoryIs
    <3>3. log[a].event = ToolResult(t, c[Rank(a) - 2])
      BY <2>1, <3>1, <3>2
    <3>4. QED
      BY <3>3 DEF ToolResult
  <2>4. QED
    BY <2>1, <2>3, StoryIs
<1>6. PICK k \in 1..Len(c) : x = <<t, c[k]>>
  <2>1. c \in Seq(Tool)
    BY Shapes
  <2>2. QED
    BY <1>5, <2>1 DEF AssistantMessage, Ids
<1>7. PICK i \in Rows(t) : Rank(i) = k + 2
  <2>1. k + 2 \in 1..Written(t)
    BY <1>4, StoryIs
  <2>2. QED
    BY <1>3, <2>1 DEF Recorded, Full
<1>8. log[i].event = ToolResult(t, c[k])
  BY <1>4, <1>7, StoryIs DEF Tells
<1>9. a < i
  BY <1>2, <1>5, <1>7, RankGrows DEF Recorded
<1>10. i \in live /\ i \in DOMAIN log /\ log[i].event.kind = "tool_result" /\ x \in log[i].event.ids
  BY <1>2, <1>6, <1>8, <1>9 DEF Behind, Rows, ToolResult
<1>11. log[a].seq = a /\ log[i].seq = i
  BY <1>2, <1>10 DEF Inv, Numbered
<1>12. QED
  BY <1>9, <1>10, <1>11 DEF Before

\* A replay finds no call pending when the last assistant message is of a turn
\* that answered: for any number of turns and calls, while the session is
\* younger than the retention and results are not pruned by themselves.
THEOREM RepliesLeaveNothingPending ==
  ASSUME KeepsNewest, "tool_result" \notin PruneKind
  PROVE  Spec => []NoGhostCalls
<1>1. Init => Behind
  BY DEF Init, Behind
<1>2. Inv /\ Recorded /\ Behind => NoGhostCalls
  <2>1. SUFFICES ASSUME Inv, Recorded, Behind, \A a \in LastAssistant : pc[log[a].event.turn] = "done"
                 PROVE  PendingToolCalls = {}
    BY DEF NoGhostCalls
  <2>2. ASSUME NEW a \in LastAssistant, NEW x \in log[a].event.ids
        PROVE  \E i \in live : log[i].event.kind = "tool_result" /\ Before(a, i) /\ x \in log[i].event.ids
    BY <2>1, CallAnswered DEF LastAssistant, IsTurn
  <2>3. QED
    BY <2>2 DEF PendingToolCalls
<1>3. Spec => []Recorded
  BY StoryBegins, NextRecorded, PTL DEF Spec
<1>4. Inv /\ Behind /\ [Next]_vars => Behind'
  BY NextBehind
<1>5. QED
  BY <1>1, <1>2, <1>3, <1>4, Invariance, PTL DEF Spec
=============================================================================
