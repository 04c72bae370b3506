--------------------------- MODULE ScheduledTasks ---------------------------
(***************************************************************************)
(* The scheduled tasks of Wiii: the rows of scheduled_tasks, the executor  *)
(* that each worker polls them with, and the owner who cancels them.  No   *)
(* worker claims a row: every one runs what it has read, task after task,  *)
(* and writes the result back.  A call of the repository blocks its worker *)
(* but no other; between two of them, while an agent runs or a             *)
(* notification is sent, anything may happen.                              *)
(***************************************************************************)
EXTENDS Integers, Sequences, FiniteSets

CONSTANTS
  Task,        \* rows, each active and due at some time to come
  Worker,      \* processes, each with its executor
  Tables,      \* what may have been scheduled: task -> its plan
  Limit,       \* scheduler_max_concurrent
  MaxFalls, MaxLost  \* bounds: workers lost, updates the database refuses

\* schedule_type and max_runs, of which 0 stands for none.
Plan == [recurs : BOOLEAN, max : Nat]

ASSUME TaskAssumption ==
  /\ Tables \subseteq [Task -> Plan] /\ IsFiniteSet(Task)
  /\ IsFiniteSet(Worker) /\ Worker # {}
  /\ Limit \in Nat \ {0} /\ MaxFalls \in Nat /\ MaxLost \in Nat

FAILURES == 3

VARIABLES
  row,     \* plan, status, next_run, run_count and failure_count of each task
  ahead,   \* for a task that is due, those whose next_run had passed before
  step,    \* where each executor is
  work,    \* the tasks it has read and not written back yet, the first in hand
  late,    \* runs of a task that began after its owner had cancelled it
  falls, lost

vars == <<row, ahead, step, work, late, falls, lost>>

Status == {"active", "completed", "cancelled", "failed"}
Step == {"down", "idle", "run", "mark", "fail"}

Due == {k \in Task : row[k].next = "due"}
Removed(k) == [j \in Task |-> IF j = k THEN {} ELSE ahead[j] \ {k}]

-----------------------------------------------------------------------------
(* get_due_tasks *)

DueActive == {k \in Due : row[k].status = "active" /\ row[k].fails < FAILURES}

\* ORDER BY next_run LIMIT: before each of its tasks come those of D ahead of it.
FirstOf(D) ==
  LET n == Cardinality(D)
  IN  {s \in [1..(IF n < Limit THEN n ELSE Limit) -> D] :
         \A i \in DOMAIN s : ahead[s[i]] \cap D = {s[j] : j \in 1..(i - 1)}}

Goes(w, s) == step' = [step EXCEPT ![w] = s]

\* _execute_due_tasks: nothing is due, or the first of what is begins.
Begins(w, s) ==
  /\ work' = [work EXCEPT ![w] = s]
  /\ Goes(w, IF s = <<>> THEN "idle" ELSE "run")

PollUnordered(w) ==
  /\ step[w] = "idle"
  /\ \E k \in DueActive : Begins(w, <<k>>)
  /\ UNCHANGED <<row, ahead, late, falls, lost>>

PollAllStatuses(w) ==
  /\ step[w] = "idle" /\ Due # {}
  /\ \E s \in FirstOf(Due) : Begins(w, s)
  /\ UNCHANGED <<row, ahead, late, falls, lost>>

Poll(w) ==
  /\ step[w] = "idle" /\ DueActive # {}
  /\ \E s \in FirstOf(DueActive) : Begins(w, s)
  /\ UNCHANGED <<row, ahead, late, falls, lost>>

-----------------------------------------------------------------------------
(* _execute_due_task_with_observability *)

\* The agent and the notification: an answer, delivered or not, or an exception.
Run(w) ==
  /\ step[w] = "run"
  /\ LET k == Head(work[w])
     IN  \/ /\ row[k].status = "cancelled" /\ late' = [late EXCEPT ![k] = @ + 1]
         \/ /\ row[k].status # "cancelled" /\ UNCHANGED late
  /\ \/ Goes(w, "mark")
     \/ Goes(w, "fail")
  /\ UNCHANGED <<row, ahead, work, falls, lost>>

\* run_count matters where it has a limit.
RanOnce(r) == [r EXCEPT !.runs = IF r.plan.max # 0 THEN @ + 1 ELSE @]
Ended(r) == [r EXCEPT !.status = "completed", !.next = "never"]

\* mark_executed: the next time, or the end; then the limit, in one transaction.
MarkedPastLimit(before) ==
  LET r == RanOnce(before)
      over == r.plan.max # 0 /\ r.runs > r.plan.max
  IN  IF ~r.plan.recurs \/ over THEN Ended(r) ELSE [r EXCEPT !.next = "later"]

Marked(before) ==
  LET r == RanOnce(before)
      over == r.plan.max # 0 /\ r.runs >= r.plan.max
  IN  IF ~r.plan.recurs \/ over THEN Ended(r) ELSE [r EXCEPT !.next = "later"]

\* The worker has written, or the database has refused, which it is not told of.
Writes(w, r, a) ==
  /\ \/ row' = [row EXCEPT ![Head(work[w])] = r] /\ ahead' = a /\ UNCHANGED lost
     \/ lost < MaxLost /\ lost' = lost + 1 /\ UNCHANGED <<row, ahead>>
  /\ Begins(w, Tail(work[w]))
  /\ UNCHANGED <<late, falls>>

MarkExecuted(w) ==
  /\ step[w] = "mark"
  /\ LET k == Head(work[w]) IN Writes(w, Marked(row[k]), Removed(k))

\* mark_failed: next_run stays, so the next poll tries again.
FailedLater(r) ==
  [r EXCEPT !.fails = @ + 1, !.status = IF r.fails + 1 > FAILURES THEN "failed" ELSE @]

Failed(r) ==
  [r EXCEPT !.fails = @ + 1, !.status = IF r.fails + 1 >= FAILURES THEN "failed" ELSE @]

MarkFailed(w) ==
  /\ step[w] = "fail"
  /\ Writes(w, Failed(row[Head(work[w])]), ahead)

-----------------------------------------------------------------------------
(* The owner, the clock and the workers *)

\* cancel_task
Cancel(k) ==
  /\ row[k].status = "active"
  /\ row' = [row EXCEPT ![k].status = "cancelled"]
  /\ UNCHANGED <<ahead, step, work, late, falls, lost>>

\* next_run passes: a task that was not due comes after all that were.
Elapse(k) ==
  /\ row[k].next = "later"
  /\ row' = [row EXCEPT ![k].next = "due"]
  /\ ahead' = [ahead EXCEPT ![k] = Due]
  /\ UNCHANGED <<step, work, late, falls, lost>>

\* A crash, or a stop that waits ten seconds and cancels what still runs.
Fall(w) ==
  /\ step[w] # "down" /\ falls < MaxFalls /\ falls' = falls + 1
  /\ Goes(w, "down") /\ work' = [work EXCEPT ![w] = <<>>]
  /\ UNCHANGED <<row, ahead, late, lost>>

Start(w) ==
  /\ step[w] = "down" /\ Goes(w, "idle")
  /\ UNCHANGED <<row, ahead, work, late, falls, lost>>

-----------------------------------------------------------------------------
(* Specification *)

Init ==
  /\ \E t \in Tables :
       row = [k \in Task |-> [plan |-> t[k], status |-> "active", next |-> "later", runs |-> 0, fails |-> 0]]
  /\ ahead = [k \in Task |-> {}] /\ late = [k \in Task |-> 0]
  /\ step = [w \in Worker |-> "idle"] /\ work = [w \in Worker |-> <<>>]
  /\ falls = 0 /\ lost = 0

Executes(w) == Poll(w) \/ Run(w) \/ MarkExecuted(w) \/ MarkFailed(w) \/ Start(w)

Next ==
  \/ \E w \in Worker : Executes(w) \/ Fall(w)
  \/ \E k \in Task : Cancel(k) \/ Elapse(k)

\* Every worker polls again and again, ends what it has begun and is restarted.
Spec == Init /\ [][Next]_vars /\ \A w \in Worker : WF_vars(Executes(w))

-----------------------------------------------------------------------------
(* Properties *)

TypeOK ==
  /\ row \in [Task -> [plan : Plan, status : Status, next : {"never", "later", "due"}, runs : Nat, fails : Nat]]
  /\ ahead \in [Task -> SUBSET Task] /\ step \in [Worker -> Step] /\ work \in [Worker -> Seq(Task)]
  /\ late \in [Task -> Nat] /\ falls \in 0..MaxFalls /\ lost \in 0..MaxLost

\* Workers claim nothing, so several run the same task at once; yet run_count
\* passes max_runs, and failure_count the failures after which no poll reads a
\* task, by at most one for each worker but one, whatever is lost in between.
ExtraRunsBounded ==
  \A k \in Task :
    /\ row[k].plan.max # 0 => row[k].runs <= row[k].plan.max + Cardinality(Worker) - 1
    /\ row[k].fails <= FAILURES + Cardinality(Worker) - 1

\* After a cancellation a task is run at most once by each worker, from the
\* list that the worker had read before.
CancelledSoonStops == \A k \in Task : late[k] <= Cardinality(Worker)

\* What its owner sees as active some poll will find: it has a next run, and
\* fewer failures than make the polls pass it over.
ActiveWillRun ==
  \A k \in Task : row[k].status = "active" => row[k].next # "never" /\ row[k].fails < FAILURES

\* A task that is due does not stay so: however many others come due again and
\* again, and though each poll reads only the first few, it is executed, given
\* up after its failures, or cancelled.
Served ==
  \A k \in Task :
    (row[k].status = "active" /\ row[k].next = "due") ~> (row[k].status # "active" \/ row[k].next # "due")
=============================================================================
