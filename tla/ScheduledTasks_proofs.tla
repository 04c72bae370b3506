----------------------- MODULE ScheduledTasks_proofs -----------------------
(* What the executors guarantee for every number of tasks and of workers,  *)
(* every limit of a poll and whatever is lost.                             *)
EXTENDS ScheduledTasks, FiniteSetTheorems, TLAPS

\* The workers that have task k in hand or on their list, and those of them
\* that have not run it yet.
Holders(k) == {w \in Worker : \E i \in 1..Len(work[w]) : work[w][i] = k}
Waiting(k) == {w \in Holders(k) : ~(step[w] \in {"mark", "fail"} /\ work[w][1] = k)}

\* A list names a task once and is empty exactly while its worker has nothing to do.
ListsOK ==
  \A w \in Worker :
    /\ work[w] = <<>> <=> step[w] \in {"down", "idle"}
    /\ \A i, j \in 1..Len(work[w]) : work[w][i] = work[w][j] => i = j

NotAheadOfItself == \A k \in Task : k \notin ahead[k]

\* A poll finds only what has not come to its end.
ActiveIsFresh ==
  \A k \in Task : row[k].status = "active" =>
    /\ row[k].next # "never" /\ row[k].fails < FAILURES /\ late[k] = 0
    /\ row[k].plan.max # 0 => row[k].runs < row[k].plan.max

\* Each worker that holds a task may still count one run or failure more.
Bounded(k) ==
  /\ row[k].plan.max # 0 =>
       row[k].runs + Cardinality(Holders(k)) < row[k].plan.max + Cardinality(Worker)
  /\ row[k].fails + Cardinality(Holders(k)) < FAILURES + Cardinality(Worker)
  /\ late[k] + Cardinality(Waiting(k)) <= Cardinality(Worker)

Inv == TypeOK /\ ListsOK /\ NotAheadOfItself /\ ActiveIsFresh /\ \A k \in Task : Bounded(k)

-----------------------------------------------------------------------------
(* Counting *)

LEMMA WorkersFinite == IsFiniteSet(Worker) /\ Cardinality(Worker) \in Nat \ {0}
BY TaskAssumption, FS_CardinalityType, FS_EmptySet

LEMMA Fewer ==
  ASSUME NEW S \in SUBSET Worker, NEW T \in SUBSET S
  PROVE  /\ Cardinality(S) \in Nat /\ Cardinality(T) \in Nat
         /\ Cardinality(T) <= Cardinality(S) /\ Cardinality(S) <= Cardinality(Worker)
BY WorkersFinite, FS_Subset, FS_CardinalityType

LEMMA OneFewer ==
  ASSUME NEW S \in SUBSET Worker, NEW w \in S, NEW T \in SUBSET (S \ {w})
  PROVE  Cardinality(T) + 1 <= Cardinality(S)
<1>1. IsFiniteSet(S) /\ Cardinality(S) \in Nat
  BY WorkersFinite, FS_Subset, FS_CardinalityType
<1>2. IsFiniteSet(S \ {w}) /\ Cardinality(S \ {w}) = Cardinality(S) - 1
  BY <1>1, FS_RemoveElement
<1>3. Cardinality(T) <= Cardinality(S \ {w}) /\ Cardinality(T) \in Nat
  BY <1>2, FS_Subset, FS_CardinalityType
<1>4. QED
  BY <1>1, <1>2, <1>3

LEMMA HoldersInWorker ==
  ASSUME NEW k
  PROVE  /\ Holders(k) \in SUBSET Worker /\ Waiting(k) \in SUBSET Holders(k)
         /\ Holders(k)' \in SUBSET Worker /\ Waiting(k)' \in SUBSET Holders(k)'
BY DEF Holders, Waiting

\* What a poll reads: tasks of D, each once, and not nothing.
LEMMA FirstOfLists ==
  ASSUME Inv, NEW D \in SUBSET Task, D # {}, NEW s \in FirstOf(D)
  PROVE  /\ s \in Seq(Task) /\ s # <<>>
         /\ \A i \in 1..Len(s) : s[i] \in D
         /\ \A i, j \in 1..Len(s) : s[i] = s[j] => i = j
<1> DEFINE n == Cardinality(D)
           m == IF n < Limit THEN n ELSE Limit
<1>1. n \in Nat \ {0}
  BY TaskAssumption, FS_Subset, FS_CardinalityType, FS_EmptySet
<1>2. m \in Nat \ {0}
  BY <1>1, TaskAssumption
<1>3. s \in [1..m -> D] /\ \A i \in DOMAIN s : ahead[s[i]] \cap D = {s[j] : j \in 1..(i - 1)}
  BY DEF FirstOf
<1> HIDE DEF m
<1>4. s \in Seq(Task) /\ Len(s) = m /\ s # <<>> /\ DOMAIN s = 1..m
  BY <1>2, <1>3
<1>5. ASSUME NEW i \in 1..m, NEW j \in 1..m, i < j PROVE s[i] # s[j]
  <2>1. s[i] \in ahead[s[j]]
    BY <1>2, <1>3, <1>4, <1>5
  <2>2. QED
    BY <2>1, <1>3, <1>4 DEF Inv, NotAheadOfItself
<1>6. QED
  BY <1>2, <1>3, <1>4, <1>5

-----------------------------------------------------------------------------
(* The invariant *)

LEMMA InvInit == Init => Inv
<1> SUFFICES ASSUME Init PROVE Inv
  OBVIOUS
<1> USE TaskAssumption
<1>1. PICK t \in Tables :
        row = [k \in Task |-> [plan |-> t[k], status |-> "active", next |-> "later", runs |-> 0, fails |-> 0]]
  BY DEF Init
<1>2. t \in [Task -> Plan]
  OBVIOUS
<1>3. TypeOK
  BY <1>1, <1>2 DEF Init, TypeOK, Status, Step
<1>4. ListsOK /\ NotAheadOfItself
  BY DEF Init, ListsOK, NotAheadOfItself
<1>5. ActiveIsFresh
  BY <1>1, <1>2 DEF Init, ActiveIsFresh, FAILURES, Plan
<1>6. ASSUME NEW k \in Task PROVE Bounded(k)
  <2>1. Holders(k) = {} /\ Waiting(k) = {}
    BY DEF Init, Holders, Waiting
  <2>2. Cardinality(Holders(k)) = 0 /\ Cardinality(Waiting(k)) = 0
    BY <2>1, FS_EmptySet
  <2>3. row[k].runs = 0 /\ row[k].fails = 0 /\ row[k].plan.max \in Nat /\ late[k] = 0
    BY <1>1, <1>2 DEF Init, Plan
  <2>4. QED
    BY <2>2, <2>3, WorkersFinite DEF Bounded, FAILURES
<1>7. QED
  BY <1>3, <1>4, <1>5, <1>6 DEF Inv

\* Where a step changes no count and adds no holder, the bounds of k stay.
LEMMA BoundedStays ==
  ASSUME Inv, NEW k \in Task, row'[k] = row[k], late'[k] = late[k],
         Holders(k)' \subseteq Holders(k), Waiting(k)' \subseteq Waiting(k)
  PROVE  Bounded(k)'
<1>1. /\ Cardinality(Holders(k)') <= Cardinality(Holders(k)) /\ Cardinality(Holders(k)') \in Nat
      /\ Cardinality(Holders(k)) \in Nat
  BY HoldersInWorker, Fewer
<1>2. /\ Cardinality(Waiting(k)') <= Cardinality(Waiting(k)) /\ Cardinality(Waiting(k)') \in Nat
      /\ Cardinality(Waiting(k)) \in Nat
  <2>1. Waiting(k) \in SUBSET Worker
    BY HoldersInWorker
  <2>2. QED
    BY <2>1, Fewer
<1>3. row[k].runs \in Nat /\ row[k].plan.max \in Nat /\ row[k].fails \in Nat /\ late[k] \in Nat
  BY DEF Inv, TypeOK, Plan
<1>4. QED
  BY <1>1, <1>2, <1>3, WorkersFinite DEF Inv, Bounded, FAILURES

LEMMA PollInv == ASSUME Inv, NEW w \in Worker, Poll(w) PROVE Inv'
<1>1. PICK s \in FirstOf(DueActive) : Begins(w, s)
  BY DEF Poll
<1>2. DueActive \in SUBSET Task /\ DueActive # {}
  BY DEF Poll, DueActive, Due
<1>3. /\ s \in Seq(Task) /\ s # <<>>
      /\ \A i \in 1..Len(s) : s[i] \in DueActive
      /\ \A i, j \in 1..Len(s) : s[i] = s[j] => i = j
  BY <1>1, <1>2, FirstOfLists
<1>4. /\ work' = [work EXCEPT ![w] = s] /\ step' = [step EXCEPT ![w] = "run"]
      /\ UNCHANGED <<row, ahead, late, falls, lost>>
  BY <1>1, <1>3 DEF Poll, Begins, Goes
<1>5. step[w] = "idle" /\ work[w] = <<>>
  BY DEF Poll, Inv, ListsOK
<1>6. TypeOK'
  BY <1>3, <1>4 DEF Inv, TypeOK, Step
<1>7. ListsOK'
  BY <1>3, <1>4 DEF Inv, ListsOK, TypeOK
<1>8. NotAheadOfItself' /\ ActiveIsFresh'
  BY <1>4 DEF Inv, NotAheadOfItself, ActiveIsFresh
<1>9. ASSUME NEW k \in Task PROVE Bounded(k)'
  <2>1. CASE k \in DueActive
    <3>1. /\ Cardinality(Holders(k)') <= Cardinality(Worker) /\ Cardinality(Holders(k)') \in Nat
          /\ Cardinality(Waiting(k)') <= Cardinality(Worker) /\ Cardinality(Waiting(k)') \in Nat
      BY HoldersInWorker, Fewer
    <3>2. /\ row[k].fails < FAILURES /\ late[k] = 0
          /\ row[k].plan.max # 0 => row[k].runs < row[k].plan.max
      BY <2>1 DEF DueActive, Inv, ActiveIsFresh
    <3>3. row[k].runs \in Nat /\ row[k].plan.max \in Nat /\ row[k].fails \in Nat
      BY DEF Inv, TypeOK, Plan
    <3>4. QED
      BY <1>4, <3>1, <3>2, <3>3, WorkersFinite DEF Bounded, FAILURES
  <2>2. CASE k \notin DueActive
    <3>1. w \notin Holders(k)'
      <4>1. work'[w] = s
        BY <1>4 DEF Inv, TypeOK
      <4>2. QED
        BY <1>3, <2>2, <4>1 DEF Holders
    <3>2. ASSUME NEW v \in Worker, v # w PROVE work'[v] = work[v] /\ step'[v] = step[v]
      BY <1>4, <3>2 DEF Inv, TypeOK
    <3>3. Holders(k)' \subseteq Holders(k)
      BY <3>1, <3>2 DEF Holders
    <3>4. Waiting(k)' \subseteq Waiting(k)
      BY <3>1, <3>2, <3>3 DEF Holders, Waiting
    <3>5. QED
      BY <1>4, <3>3, <3>4, BoundedStays
  <2>3. QED
    BY <2>1, <2>2
<1>10. QED
  BY <1>6, <1>7, <1>8, <1>9 DEF Inv

LEMMA RunInv == ASSUME Inv, NEW w \in Worker, Run(w) PROVE Inv'
<1>0. /\ step[w] = "run" /\ work[w] # <<>> /\ work[w] \in Seq(Task) /\ 1 \in 1..Len(work[w])
      /\ work[w][1] = Head(work[w]) /\ work[w][1] \in Task
  BY DEF Run, Inv, ListsOK, TypeOK
<1>1. PICK k \in Task : k = work[w][1]
  BY <1>0
<1>2. /\ UNCHANGED <<row, ahead, work, falls, lost>>
      /\ \E s \in {"mark", "fail"} : step' = [step EXCEPT ![w] = s]
      /\ \/ row[k].status = "cancelled" /\ late' = [late EXCEPT ![k] = @ + 1]
         \/ row[k].status # "cancelled" /\ UNCHANGED late
  BY <1>0, <1>1 DEF Run, Goes
<1>3. TypeOK'
  <2>1. step' \in [Worker -> Step]
    BY <1>2 DEF Inv, TypeOK, Step
  <2>2. late' \in [Task -> Nat]
    <3>1. late \in [Task -> Nat]
      BY DEF Inv, TypeOK
    <3>2. CASE late' = [late EXCEPT ![k] = @ + 1]
      BY <3>1, <3>2
    <3>3. CASE UNCHANGED late
      BY <3>1, <3>3
    <3>4. QED
      BY <1>2, <3>2, <3>3
  <2>3. QED
    BY <1>2, <2>1, <2>2 DEF Inv, TypeOK
<1>4. ListsOK' /\ NotAheadOfItself'
  BY <1>0, <1>2 DEF Inv, ListsOK, NotAheadOfItself, TypeOK
<1>5. ActiveIsFresh'
  BY <1>1, <1>2 DEF Inv, ActiveIsFresh, TypeOK
<1>6. ASSUME NEW j \in Task PROVE Bounded(j)'
  <2>1. Holders(j)' = Holders(j)
    BY <1>2 DEF Holders
  <2>2. Waiting(j)' \subseteq Waiting(j)
    BY <1>0, <1>1, <1>2, <2>1 DEF Waiting, Holders, Inv, TypeOK
  <2>3. CASE j # k
    <3>1. late'[j] = late[j] /\ row'[j] = row[j]
      BY <1>1, <1>2, <2>3 DEF Inv, TypeOK
    <3>2. QED
      BY <2>1, <2>2, <3>1, BoundedStays
  <2>4. CASE j = k
    <3>1. w \in Waiting(k) /\ w \notin Waiting(k)'
      BY <1>0, <1>1, <1>2 DEF Waiting, Holders, Inv, TypeOK
    <3>2. Cardinality(Waiting(k)') + 1 <= Cardinality(Waiting(k))
      <4>1. Waiting(k) \in SUBSET Worker /\ Waiting(k)' \in SUBSET (Waiting(k) \ {w})
        BY <1>1, <2>2, <2>4, <3>1, HoldersInWorker
      <4>2. QED
        BY <3>1, <4>1, OneFewer
    <3>3. Cardinality(Waiting(k)') \in Nat /\ Cardinality(Waiting(k)) \in Nat
      BY HoldersInWorker, Fewer
    <3>4. late'[k] <= late[k] + 1 /\ late[k] \in Nat /\ late'[k] \in Nat
      <4>1. late \in [Task -> Nat]
        BY DEF Inv, TypeOK
      <4>2. late'[k] = late[k] + 1 \/ late'[k] = late[k]
        BY <1>2, <4>1
      <4>3. QED
        BY <4>1, <4>2
    <3>5. Bounded(k)
      BY <1>1 DEF Inv
    <3>6. late'[k] + Cardinality(Waiting(k)') <= Cardinality(Worker)
      BY <3>2, <3>3, <3>4, <3>5, WorkersFinite DEF Bounded
    <3>7. QED
      BY <1>2, <2>1, <2>4, <3>5, <3>6 DEF Bounded
  <2>5. QED
    BY <2>3, <2>4
<1>7. QED
  BY <1>3, <1>4, <1>5, <1>6 DEF Inv

\* A step of w that drops the task in hand leaves fewer holders of it, and adds
\* none anywhere.
LEMMA DropHead ==
  ASSUME Inv, NEW w \in Worker, step[w] \in {"mark", "fail"}, Begins(w, Tail(work[w])),
         NEW k \in Task, k = Head(work[w])
  PROVE  /\ w \in Holders(k) /\ w \notin Holders(k)'
         /\ \A j \in Task : Holders(j)' \subseteq Holders(j) /\ Waiting(j)' \subseteq Waiting(j)
         /\ step' \in [Worker -> Step] /\ work' \in [Worker -> Seq(Task)] /\ ListsOK'
<1>0. PICK s : s = Tail(work[w])
  OBVIOUS
<1>1. /\ work[w] # <<>> /\ work[w] \in Seq(Task)
      /\ k = work[w][1] /\ 1 \in 1..Len(work[w])
  BY DEF Inv, ListsOK, TypeOK
<1>2. /\ s \in Seq(Task) /\ Len(s) = Len(work[w]) - 1
      /\ \A i \in 1..Len(s) : s[i] = work[w][i + 1] /\ i + 1 \in 1..Len(work[w]) /\ i + 1 # 1
  BY <1>0, <1>1
<1>3. \A i, j \in 1..Len(work[w]) : work[w][i] = work[w][j] => i = j
  BY DEF Inv, ListsOK
<1>4. \A i \in 1..Len(s) : s[i] # k
  BY <1>1, <1>2, <1>3
<1>5. \A i, j \in 1..Len(s) : s[i] = s[j] => i = j
  BY <1>2, <1>3
<1>6. /\ work' = [work EXCEPT ![w] = s]
      /\ step' = [step EXCEPT ![w] = IF s = <<>> THEN "idle" ELSE "run"]
  BY <1>0 DEF Begins, Goes
<1>7. w \in Holders(k) /\ w \notin Holders(k)'
  BY <1>1, <1>4, <1>6 DEF Holders, Inv, TypeOK
<1>8. ASSUME NEW j \in Task PROVE Holders(j)' \subseteq Holders(j)
  <2> SUFFICES ASSUME NEW v \in Holders(j)' PROVE v \in Holders(j)
    OBVIOUS
  <2>1. v \in Worker /\ \E i \in 1..Len(work'[v]) : work'[v][i] = j
    BY DEF Holders
  <2>2. CASE v = w
    <3>1. work'[w] = s
      BY <1>6 DEF Inv, TypeOK
    <3>2. PICK i \in 1..Len(s) : s[i] = j
      BY <2>1, <2>2, <3>1
    <3>3. i + 1 \in 1..Len(work[w]) /\ work[w][i + 1] = j
      BY <1>2, <3>2
    <3>4. QED
      BY <2>1, <2>2, <3>3 DEF Holders
  <2>3. CASE v # w
    <3>1. work'[v] = work[v]
      BY <1>6, <2>1, <2>3 DEF Inv, TypeOK
    <3>2. QED
      BY <2>1, <3>1 DEF Holders
  <2>4. QED
    BY <2>2, <2>3
<1>9. ASSUME NEW j \in Task PROVE Waiting(j)' \subseteq Waiting(j)
  <2> SUFFICES ASSUME NEW v \in Waiting(j)' PROVE v \in Waiting(j)
    OBVIOUS
  <2>1. v \in Holders(j) /\ v \in Holders(j)' /\ v \in Worker
    BY <1>8 DEF Waiting, Holders
  <2>2. CASE v = w
    <3>1. j # k
      BY <1>7, <2>1, <2>2
    <3>2. QED
      BY <1>1, <2>1, <2>2, <3>1 DEF Waiting
  <2>3. CASE v # w
    BY <1>6, <2>1, <2>3 DEF Waiting, Inv, TypeOK
  <2>4. QED
    BY <2>2, <2>3
<1>10. step' \in [Worker -> Step] /\ work' \in [Worker -> Seq(Task)]
  BY <1>2, <1>6 DEF Inv, TypeOK, Step
<1>11. ASSUME NEW v \in Worker
       PROVE  /\ work'[v] = <<>> <=> step'[v] \in {"down", "idle"}
              /\ \A i, j \in 1..Len(work'[v]) : work'[v][i] = work'[v][j] => i = j
  <2>1. CASE v = w
    <3>1. work'[w] = s
      BY <1>6 DEF Inv, TypeOK
    <3>2. step'[w] = IF s = <<>> THEN "idle" ELSE "run"
      BY <1>6 DEF Inv, TypeOK
    <3>3. s = <<>> <=> step'[w] \in {"down", "idle"}
      BY <3>2
    <3>4. QED
      BY <1>5, <2>1, <3>1, <3>3
  <2>2. CASE v # w
    <3>1. work'[v] = work[v] /\ step'[v] = step[v]
      BY <1>6, <2>2 DEF Inv, TypeOK
    <3>2. /\ work[v] = <<>> <=> step[v] \in {"down", "idle"}
          /\ \A i, j \in 1..Len(work[v]) : work[v][i] = work[v][j] => i = j
      BY DEF Inv, ListsOK
    <3>3. QED
      BY <3>1, <3>2
  <2>3. QED
    BY <2>1, <2>2
<1>12. ListsOK'
  BY <1>11 DEF ListsOK
<1>13. QED
  BY <1>7, <1>8, <1>9, <1>10, <1>12

\* What mark_executed and mark_failed make of a row.
LEMMA MarkedRow ==
  ASSUME TypeOK, ActiveIsFresh, NEW k \in Task, NEW r, r \in {Marked(row[k]), Failed(row[k])}
  PROVE  /\ r \in [plan : Plan, status : Status, next : {"never", "later", "due"}, runs : Nat, fails : Nat]
         /\ r.plan = row[k].plan
         /\ r.fails <= row[k].fails + 1
         /\ r.plan.max # 0 => r.runs <= row[k].runs + 1
         /\ r.status = "active" =>
              /\ row[k].status = "active" /\ r.next # "never" /\ r.fails < FAILURES
              /\ r.plan.max # 0 => r.runs < r.plan.max
<1> DEFINE b == row[k]
<1>1. b \in [plan : Plan, status : Status, next : {"never", "later", "due"}, runs : Nat, fails : Nat]
  BY DEF TypeOK
<1>2. b.plan \in [recurs : BOOLEAN, max : Nat] /\ b.runs \in Nat /\ b.fails \in Nat
  BY <1>1 DEF Plan
<1>3. b.status = "active" => b.next # "never" /\ b.fails < FAILURES /\ (b.plan.max # 0 => b.runs < b.plan.max)
  BY DEF ActiveIsFresh
<1> HIDE DEF b
<1>4. CASE r = Failed(b)
  <2>1. PICK n \in Nat : n = b.fails + 1
    BY <1>2
  <2>2. PICK st \in Status : st = IF b.fails + 1 >= FAILURES THEN "failed" ELSE b.status
    BY <1>1 DEF Status
  <2>3. r = [b EXCEPT !.fails = n, !.status = st]
    BY <1>4, <2>1, <2>2 DEF Failed
  <2>4. /\ r \in [plan : Plan, status : Status, next : {"never", "later", "due"}, runs : Nat, fails : Nat]
        /\ r.plan = b.plan /\ r.fails = n /\ r.runs = b.runs /\ r.next = b.next /\ r.status = st
    BY <1>1, <2>3
  <2>5. QED
    BY <1>2, <1>3, <2>1, <2>2, <2>4 DEF FAILURES, b
<1>5. CASE r = Marked(b)
  <2> DEFINE c == RanOnce(b)
  <2>1. /\ c \in [plan : Plan, status : Status, next : {"never", "later", "due"}, runs : Nat, fails : Nat]
        /\ c.plan = b.plan /\ c.fails = b.fails /\ c.status = b.status
        /\ c.plan.max # 0 => c.runs = b.runs + 1
    BY <1>1, <1>2 DEF RanOnce
  <2>2. Marked(b) = IF ~c.plan.recurs \/ (c.plan.max # 0 /\ c.runs >= c.plan.max)
                    THEN Ended(c) ELSE [c EXCEPT !.next = "later"]
    BY DEF Marked
  <2> HIDE DEF c
  <2>3. CASE r = Ended(c)
    <3>1. /\ r \in [plan : Plan, status : Status, next : {"never", "later", "due"}, runs : Nat, fails : Nat]
          /\ r.plan = c.plan /\ r.fails = c.fails /\ r.runs = c.runs /\ r.status = "completed"
      BY <2>1, <2>3 DEF Ended, Status
    <3>2. QED
      BY <1>2, <2>1, <3>1 DEF b
  <2>4. CASE r = [c EXCEPT !.next = "later"] /\ ~(c.plan.max # 0 /\ c.runs >= c.plan.max)
    <3>1. c.runs \in Nat /\ c.plan.max \in Nat
      BY <2>1 DEF Plan
    <3>2. QED
      BY <1>1, <1>2, <1>3, <2>1, <2>4, <3>1 DEF b
  <2>5. QED
    BY <1>5, <2>2, <2>3, <2>4
<1>6. QED
  BY <1>4, <1>5 DEF b

LEMMA MarkInv == ASSUME Inv, NEW w \in Worker, MarkExecuted(w) \/ MarkFailed(w) PROVE Inv'
<1>0. PICK k \in Task : k = Head(work[w])
  BY DEF MarkExecuted, MarkFailed, Inv, TypeOK, ListsOK
<1>1. /\ step[w] \in {"mark", "fail"} /\ Begins(w, Tail(work[w])) /\ UNCHANGED <<late, falls>>
  BY DEF MarkExecuted, MarkFailed, Writes
<1>2. /\ w \in Holders(k) /\ w \notin Holders(k)'
      /\ \A j \in Task : Holders(j)' \subseteq Holders(j) /\ Waiting(j)' \subseteq Waiting(j)
      /\ step' \in [Worker -> Step] /\ work' \in [Worker -> Seq(Task)] /\ ListsOK'
  BY <1>0, <1>1, DropHead
<1>3. PICK r \in {Marked(row[k]), Failed(row[k])}, a \in {ahead, Removed(k)} :
        \/ row' = [row EXCEPT ![k] = r] /\ ahead' = a /\ UNCHANGED lost
        \/ lost < MaxLost /\ lost' = lost + 1 /\ UNCHANGED <<row, ahead>>
  BY <1>0 DEF MarkExecuted, MarkFailed, Writes
<1>4. /\ r \in [plan : Plan, status : Status, next : {"never", "later", "due"}, runs : Nat, fails : Nat]
      /\ r.plan = row[k].plan /\ r.fails <= row[k].fails + 1
      /\ r.plan.max # 0 => r.runs <= row[k].runs + 1
      /\ r.status = "active" =>
           /\ row[k].status = "active" /\ r.next # "never" /\ r.fails < FAILURES
           /\ r.plan.max # 0 => r.runs < r.plan.max
  BY <1>2, MarkedRow DEF Inv
<1>5. Removed(k) \in [Task -> SUBSET Task] /\ \A j \in Task : j \notin Removed(k)[j]
  BY DEF Removed, Inv, TypeOK, NotAheadOfItself
<1>6. TypeOK'
  <2>1. row' \in [Task -> [plan : Plan, status : Status, next : {"never", "later", "due"}, runs : Nat, fails : Nat]]
    BY <1>2, <1>3, <1>4 DEF Inv, TypeOK
  <2>2. ahead' \in [Task -> SUBSET Task] /\ lost' \in 0..MaxLost
    BY <1>3, <1>5, TaskAssumption DEF Inv, TypeOK
  <2>3. QED
    BY <1>1, <1>2, <2>1, <2>2 DEF Inv, TypeOK
<1>7. NotAheadOfItself'
  BY <1>3, <1>5 DEF Inv, NotAheadOfItself
<1>8. ActiveIsFresh'
  BY <1>1, <1>2, <1>3, <1>4 DEF Inv, ActiveIsFresh, TypeOK
<1>9. ASSUME NEW j \in Task PROVE Bounded(j)'
  <2>1. CASE row'[j] = row[j]
    BY <1>1, <1>2, <2>1, BoundedStays
  <2>2. CASE row'[j] # row[j]
    <3>1. j = k /\ row'[k] = r
      BY <1>2, <1>3, <2>2 DEF Inv, TypeOK
    <3>2. Cardinality(Holders(k)') + 1 <= Cardinality(Holders(k))
      <4>1. Holders(k) \in SUBSET Worker /\ Holders(k)' \in SUBSET (Holders(k) \ {w})
        BY <1>2, HoldersInWorker
      <4>2. QED
        BY <1>2, <4>1, OneFewer
    <3>3. Cardinality(Waiting(k)') <= Cardinality(Waiting(k))
      <4>1. Waiting(k) \in SUBSET Worker /\ Waiting(k)' \in SUBSET Waiting(k)
        BY <1>2, HoldersInWorker
      <4>2. QED
        BY <4>1, Fewer
    <3>4. /\ Cardinality(Holders(k)) \in Nat /\ Cardinality(Holders(k)') \in Nat
          /\ Cardinality(Waiting(k)) \in Nat /\ Cardinality(Waiting(k)') \in Nat
      BY HoldersInWorker, Fewer
    <3>5. /\ row[k].runs \in Nat /\ row[k].plan.max \in Nat /\ row[k].fails \in Nat /\ late[k] \in Nat
          /\ r.runs \in Nat /\ r.fails \in Nat
      BY <1>2, <1>4 DEF Inv, TypeOK, Plan
    <3>6. Bounded(k)
      BY <1>2 DEF Inv
    <3>7. /\ r.plan.max # 0 => r.runs + Cardinality(Holders(k)') < r.plan.max + Cardinality(Worker)
          /\ r.fails + Cardinality(Holders(k)') < FAILURES + Cardinality(Worker)
          /\ late[k] + Cardinality(Waiting(k)') <= Cardinality(Worker)
      BY <1>4, <3>2, <3>3, <3>4, <3>5, <3>6, WorkersFinite DEF Bounded, FAILURES
    <3>8. QED
      BY <1>1, <3>1, <3>7 DEF Bounded
  <2>3. QED
    BY <2>1, <2>2
<1>10. QED
  BY <1>2, <1>6, <1>7, <1>8, <1>9 DEF Inv

LEMMA InvNext == Inv /\ [Next]_vars => Inv'
<1> SUFFICES ASSUME Inv, [Next]_vars PROVE Inv'
  OBVIOUS
<1>1. ASSUME UNCHANGED <<step, work, late, falls, lost>>, TypeOK', NotAheadOfItself', ActiveIsFresh',
             \A k \in Task : row'[k].plan = row[k].plan /\ row'[k].runs = row[k].runs /\ row'[k].fails = row[k].fails
      PROVE  Inv'
  <2>1. ListsOK'
    BY <1>1 DEF Inv, ListsOK
  <2>2. ASSUME NEW k \in Task PROVE Bounded(k)'
    <3>1. Holders(k)' = Holders(k) /\ Waiting(k)' = Waiting(k)
      BY <1>1 DEF Holders, Waiting
    <3>2. QED
      BY <1>1, <3>1 DEF Inv, Bounded
  <2>3. QED
    BY <1>1, <2>1, <2>2 DEF Inv
<1>2. ASSUME NEW k \in Task, Cancel(k) PROVE Inv'
  <2>1. TypeOK'
    BY <1>2 DEF Cancel, Inv, TypeOK, Status
  <2>2. NotAheadOfItself' /\ ActiveIsFresh'
    BY <1>2 DEF Cancel, Inv, NotAheadOfItself, ActiveIsFresh, TypeOK
  <2>3. \A j \in Task : row'[j].plan = row[j].plan /\ row'[j].runs = row[j].runs /\ row'[j].fails = row[j].fails
    BY <1>2 DEF Cancel, Inv, TypeOK
  <2>4. UNCHANGED <<step, work, late, falls, lost>>
    BY <1>2 DEF Cancel
  <2>5. QED
    BY <1>1, <2>1, <2>2, <2>3, <2>4
<1>3. ASSUME NEW k \in Task, Elapse(k) PROVE Inv'
  <2>1. k \notin Due /\ Due \subseteq Task
    BY <1>3 DEF Elapse, Due
  <2>2. TypeOK'
    BY <1>3, <2>1 DEF Elapse, Inv, TypeOK
  <2>3. NotAheadOfItself' /\ ActiveIsFresh'
    BY <1>3, <2>1 DEF Elapse, Inv, NotAheadOfItself, ActiveIsFresh, TypeOK
  <2>4. \A j \in Task : row'[j].plan = row[j].plan /\ row'[j].runs = row[j].runs /\ row'[j].fails = row[j].fails
    BY <1>3 DEF Elapse, Inv, TypeOK
  <2>5. UNCHANGED <<step, work, late, falls, lost>>
    BY <1>3 DEF Elapse
  <2>6. QED
    BY <1>1, <2>2, <2>3, <2>4, <2>5
<1>4. ASSUME NEW w \in Worker, Fall(w) PROVE Inv'
  <2>1. /\ work' = [work EXCEPT ![w] = <<>>] /\ step' = [step EXCEPT ![w] = "down"]
        /\ falls' = falls + 1 /\ falls < MaxFalls /\ UNCHANGED <<row, ahead, late, lost>>
    BY <1>4 DEF Fall, Goes
  <2>2. TypeOK' /\ ListsOK'
    BY <2>1, TaskAssumption DEF Inv, TypeOK, ListsOK, Step
  <2>3. NotAheadOfItself' /\ ActiveIsFresh'
    BY <2>1 DEF Inv, NotAheadOfItself, ActiveIsFresh
  <2>4. ASSUME NEW k \in Task PROVE Holders(k)' \subseteq Holders(k) /\ Waiting(k)' \subseteq Waiting(k)
    <3>1. work'[w] = <<>> /\ \A v \in Worker : v # w => work'[v] = work[v] /\ step'[v] = step[v]
      BY <2>1 DEF Inv, TypeOK
    <3>2. w \notin Holders(k)'
      BY <3>1 DEF Holders
    <3>3. QED
      BY <3>1, <3>2 DEF Holders, Waiting
  <2>5. QED
    BY <2>1, <2>2, <2>3, <2>4, BoundedStays DEF Inv
<1>5. ASSUME NEW w \in Worker, Start(w) PROVE Inv'
  <2>1. step[w] = "down" /\ step' = [step EXCEPT ![w] = "idle"] /\ UNCHANGED <<row, ahead, work, late, falls, lost>>
    BY <1>5 DEF Start, Goes
  <2>2. TypeOK' /\ ListsOK'
    BY <2>1 DEF Inv, TypeOK, ListsOK, Step
  <2>3. NotAheadOfItself' /\ ActiveIsFresh'
    BY <2>1 DEF Inv, NotAheadOfItself, ActiveIsFresh
  <2>4. ASSUME NEW k \in Task PROVE Holders(k)' \subseteq Holders(k) /\ Waiting(k)' \subseteq Waiting(k)
    BY <2>1 DEF Holders, Waiting, Inv, TypeOK
  <2>5. QED
    BY <2>1, <2>2, <2>3, <2>4, BoundedStays DEF Inv
<1>6. CASE UNCHANGED vars
  <2>1. TypeOK' /\ NotAheadOfItself' /\ ActiveIsFresh'
    BY <1>6 DEF vars, Inv, TypeOK, NotAheadOfItself, ActiveIsFresh
  <2>2. QED
    BY <1>1, <1>6, <2>1 DEF vars
<1>7. QED
  BY <1>2, <1>3, <1>4, <1>5, <1>6, PollInv, RunInv, MarkInv DEF Next, Executes

-----------------------------------------------------------------------------
(* Theorems *)

\* Type correctness.
THEOREM TypeCorrect == Spec => []TypeOK
<1>1. Inv => TypeOK
  BY DEF Inv
<1>2. QED
  BY <1>1, InvInit, InvNext, PTL DEF Spec

\* max_runs and the limit of failures are exceeded by one run for each other
\* worker at most.
THEOREM FewExtraRuns == Spec => []ExtraRunsBounded
<1>1. Inv => ExtraRunsBounded
  <2> SUFFICES ASSUME Inv, NEW k \in Task
               PROVE  /\ row[k].plan.max # 0 => row[k].runs <= row[k].plan.max + Cardinality(Worker) - 1
                      /\ row[k].fails <= FAILURES + Cardinality(Worker) - 1
    BY DEF ExtraRunsBounded
  <2>1. Cardinality(Holders(k)) \in Nat
    BY HoldersInWorker, Fewer
  <2>2. row[k].runs \in Nat /\ row[k].plan.max \in Nat /\ row[k].fails \in Nat
    BY DEF Inv, TypeOK, Plan
  <2>3. QED
    BY <2>1, <2>2, WorkersFinite DEF Inv, Bounded, FAILURES
<1>2. QED
  BY <1>1, InvInit, InvNext, PTL DEF Spec

\* A cancelled task runs at most once more on each worker.
THEOREM CancellationIsSoon == Spec => []CancelledSoonStops
<1>1. Inv => CancelledSoonStops
  <2> SUFFICES ASSUME Inv, NEW k \in Task PROVE late[k] <= Cardinality(Worker)
    BY DEF CancelledSoonStops
  <2>1. Cardinality(Waiting(k)) \in Nat
    BY HoldersInWorker, Fewer
  <2>2. late[k] \in Nat
    BY DEF Inv, TypeOK
  <2>3. QED
    BY <2>1, <2>2, WorkersFinite DEF Inv, Bounded
<1>2. QED
  BY <1>1, InvInit, InvNext, PTL DEF Spec

\* An active task is one that polls do not pass over.
THEOREM ActiveTasksRun == Spec => []ActiveWillRun
<1>1. Inv => ActiveWillRun
  BY DEF Inv, ActiveIsFresh, ActiveWillRun
<1>2. QED
  BY <1>1, InvInit, InvNext, PTL DEF Spec
=============================================================================
