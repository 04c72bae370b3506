--------------------------- MODULE SessionEventLog ---------------------------
(***************************************************************************)
(* One chat session of Wiii's native runtime: turns that run at the same   *)
(* time and record themselves in the session's event log                   *)
(* (engine/runtime/native_dispatch.py), the PostgreSQL backend of the log  *)
(* (session_event_log.py), an administrator who prunes it, and a worker    *)
(* that replays it with a cursor (session_wake.py).                        *)
(*                                                                         *)
(* The backend has no lock: an INSERT computes MAX(seq) + 1 in its own     *)
(* snapshot, the unique constraint (session_id, seq) decides when it       *)
(* commits, and the loser tries again.                                     *)
(***************************************************************************)
EXTENDS Naturals, Sequences, FiniteSetsExt

CONSTANTS
  Turn,          \* calls of native_chat_dispatch for this session
  Calls,         \* the tool calls a response may declare: sequences over Tool
  Tool, NoId,    \* ids of tool calls; NoId \in Tool: a call without one
  PruneKind,     \* event types an administrator prunes; "any": no filter
  KeepsNewest    \* TRUE: the newest event is younger than the retention

ASSUME Shapes == NoId \in Tool /\ (\A c \in Calls : c \in Seq(Tool)) /\ KeepsNewest \in BOOLEAN

MAX_APPEND_RETRIES == 3

VARIABLES
  log,       \* every row ever committed to session_events, in order
  live,      \* the places in log that are still in the table
  pc,        \* where each turn is
  snap,      \* what its INSERT computed: [seq, from], seq 0 between statements
  tries,     \* unique violations of the append in progress
  calls,     \* the tool calls left to record
  cursor,    \* the worker's since_seq
  seen       \* the places in log the worker has replayed and that are live

vars == <<log, live, pc, snap, tries, calls, cursor, seen>>

NoInsert == [seq |-> 0, from |-> 0]

\* What a turn is about to append.
Appending == {"user", "assistant", "error", "result"}
PC == Appending \cup {"inner", "done", "failed"}

Ids(t, c) == {<<t, c[i]>> : i \in DOMAIN c}

UserMessage(t) == [kind |-> "user_message", turn |-> t, ids |-> {}, text |-> TRUE]

\* wake() drops declared tool calls that have no id.
AssistantMessage(t, c) ==
  [kind |-> "assistant_message", turn |-> t, ids |-> Ids(t, c) \ {<<t, NoId>>}, text |-> TRUE]

ErrorMessage(t) == [kind |-> "assistant_message", turn |-> t, ids |-> {}, text |-> FALSE]

ToolResultByName(t, id) ==
  [kind |-> "tool_result", turn |-> t, ids |-> {<<t, NoId>>}, text |-> TRUE]
ToolResult(t, id) == [kind |-> "tool_result", turn |-> t, ids |-> {<<t, id>>}, text |-> TRUE]

Event == UNION {{UserMessage(t), ErrorMessage(t)} \cup {AssistantMessage(t, c) : c \in Calls}
                  \cup {ToolResult(t, id) : id \in Tool} : t \in Turn}

NextEvent(t) ==
  CASE pc[t] = "user" -> UserMessage(t)
    [] pc[t] = "assistant" -> AssistantMessage(t, calls[t])
    [] pc[t] = "error" -> ErrorMessage(t)
    [] pc[t] = "result" -> ToolResult(t, Head(calls[t]))

-----------------------------------------------------------------------------
(* PostgresSessionEventLog *)

Seqs == {log[i].seq : i \in live}

\* COALESCE(MAX(seq), 0) + 1, in the snapshot of the statement.
NextSeqCounted(t) == Cardinality(live) + 1
NextSeqReserved(t) == Max(Seqs \cup {snap[u].seq : u \in Turn} \cup {0}) + 1
NextSeq(t) == Max(Seqs \cup {0}) + 1

BeginInsert(t) ==
  /\ pc[t] \in Appending /\ snap[t] = NoInsert
  /\ snap' = [snap EXCEPT ![t] = [seq |-> NextSeq(t), from |-> Len(log)]]
  /\ UNCHANGED <<log, live, pc, tries, calls, cursor, seen>>

\* append returns: the turn goes on to step p.
Returns(t, p) ==
  /\ pc' = [pc EXCEPT ![t] = p]
  /\ tries' = [tries EXCEPT ![t] = 0]
  /\ snap' = [snap EXCEPT ![t] = NoInsert]

\* native_chat_dispatch after each append: user message, then the call; its
\* result with the tool calls it made, one by one; or the error, then raise.
Follow(t) ==
  LET rest == IF pc[t] = "result" THEN Tail(calls[t]) ELSE calls[t]
  IN  /\ calls' = [calls EXCEPT ![t] = rest]
      /\ Returns(t, CASE pc[t] = "user" -> "inner"
                      [] pc[t] = "error" -> "failed"
                      [] OTHER -> IF rest = <<>> THEN "done" ELSE "result")

\* append raises: the turn neither answers nor goes on.
GiveUpQuietly(t) == Follow(t)
GiveUp(t) == Returns(t, "failed") /\ UNCHANGED calls

\* session_events_seq_unique.
UniqueUnchecked(t) == TRUE
Unique(t) == snap[t].seq \notin Seqs

\* The row is stored, and the turn hears of it or fails all the same (a command
\* that times out on the client is no UniqueViolationError and is not retried).
Commit(t) ==
  /\ snap[t] # NoInsert /\ Unique(t)
  /\ log' = Append(log, [seq |-> snap[t].seq, event |-> NextEvent(t)])
  /\ live' = live \cup {Len(log')}
  /\ Follow(t) \/ GiveUp(t)
  /\ UNCHANGED <<cursor, seen>>

Conflict(t) ==
  /\ snap[t] # NoInsert /\ ~Unique(t)
  /\ \/ /\ tries[t] + 1 < MAX_APPEND_RETRIES
        /\ tries' = [tries EXCEPT ![t] = @ + 1]
        /\ snap' = [snap EXCEPT ![t] = NoInsert]
        /\ UNCHANGED <<pc, calls>>
     \/ tries[t] + 1 = MAX_APPEND_RETRIES /\ GiveUp(t)
  /\ UNCHANGED <<log, live, cursor, seen>>

\* DELETE of the rows created before a moment, which lies after the first n rows.
\* The retention is a day at least and a statement takes seconds at most, so no
\* row goes that was committed while some INSERT was under way.
Prune(n, k) ==
  /\ KeepsNewest => n < Len(log)
  /\ \A t \in Turn : snap[t] # NoInsert => n <= snap[t].from
  /\ LET gone == {i \in live : i <= n /\ k \in {"any", log[i].event.kind}}
     IN  gone # {} /\ live' = live \ gone /\ seen' = seen \ gone
  /\ UNCHANGED <<log, pc, snap, tries, calls, cursor>>

-----------------------------------------------------------------------------
(* native_chat_dispatch and wake *)

\* ChatService answers or raises.
Inner(t) ==
  /\ pc[t] = "inner"
  /\ \/ \E c \in Calls : /\ calls' = [calls EXCEPT ![t] = c]
                         /\ pc' = [pc EXCEPT ![t] = "assistant"]
     \/ pc' = [pc EXCEPT ![t] = "error"] /\ UNCHANGED calls
  /\ UNCHANGED <<log, live, snap, tries, cursor, seen>>

\* The process dies, the task is cancelled or the database cannot be reached.
Abort(t) ==
  /\ pc[t] \notin {"done", "failed"}
  /\ Returns(t, "failed")
  /\ UNCHANGED <<log, live, calls, cursor, seen>>

Since(n) == {i \in live : log[i].seq > n}

\* wake(since_seq = cursor); the worker keeps the highest seq it has observed.
Wake ==
  /\ Since(cursor) # {}
  /\ seen' = seen \cup Since(cursor)
  /\ cursor' = Max({log[i].seq : i \in Since(cursor)})
  /\ UNCHANGED <<log, live, pc, snap, tries, calls>>

\* WakeState.pending_tool_calls of a full replay: the calls of the last assistant
\* turn that is not blank, without those answered after it.
Before(i, j) == log[i].seq < log[j].seq

IsTurn(e) == e.kind = "assistant_message" /\ (e.text \/ e.ids # {})

LastAssistant ==
  LET A == {i \in live : IsTurn(log[i].event)}
  IN  {a \in A : \A b \in A \ {a} : Before(b, a)}

PendingToolCalls ==
  UNION {log[a].event.ids \
           UNION {log[i].event.ids : i \in {j \in live : log[j].event.kind = "tool_result"
                                                         /\ Before(a, j)}} : a \in LastAssistant}

-----------------------------------------------------------------------------
(* Specification *)

Init ==
  /\ log = <<>> /\ live = {}
  /\ pc = [t \in Turn |-> "user"]
  /\ snap = [t \in Turn |-> NoInsert] /\ tries = [t \in Turn |-> 0]
  /\ calls = [t \in Turn |-> <<>>]
  /\ cursor = 0 /\ seen = {}

Next ==
  \/ \E t \in Turn : BeginInsert(t) \/ Commit(t) \/ Conflict(t) \/ Inner(t) \/ Abort(t)
  \/ \E n \in 1..Len(log), k \in PruneKind : Prune(n, k)
  \/ Wake

Spec == Init /\ [][Next]_vars

-----------------------------------------------------------------------------
(* Properties *)

\* Rows, turns and the worker have the shapes the code gives them, and no two
\* rows of the table share a seq.
TypeOK ==
  /\ \A i \in DOMAIN log : log[i].seq \in Nat \ {0} /\ log[i].event \in Event
  /\ live \subseteq DOMAIN log /\ seen \subseteq DOMAIN log
  /\ pc \in [Turn -> PC]
  /\ tries \in [Turn -> 0..MAX_APPEND_RETRIES - 1]
  /\ \A t \in Turn : \A i \in DOMAIN calls[t] : calls[t][i] \in Tool
  /\ Cardinality(Seqs) = Cardinality(live)

\* A worker that wakes with the highest seq it has seen misses nothing: no row
\* turns up later at or below its cursor, however the appends overlap.
NothingMissed == \A i \in live : log[i].seq <= cursor => i \in seen

\* What a turn has recorded is the beginning of its story, in order and without
\* repetition; a turn that answered has recorded all of it.
Rows(t) == {i \in DOMAIN log : log[i].event.turn = t}
Rank(i) == Cardinality({j \in Rows(log[i].event.turn) : j <= i})
Tells(t, s) == \A i \in Rows(t) : Rank(i) \in DOMAIN s /\ log[i].event = s[Rank(i)]

StoryOf(t, c) ==
  <<UserMessage(t), AssistantMessage(t, c)>> \o [i \in DOMAIN c |-> ToolResult(t, c[i])]

TurnsRecorded ==
  \A t \in Turn :
    \/ pc[t] # "done" /\ Tells(t, <<UserMessage(t), ErrorMessage(t)>>)
    \/ \E c \in Calls : /\ Tells(t, StoryOf(t, c))
                        /\ pc[t] = "done" => Cardinality(Rows(t)) = Len(StoryOf(t, c))

\* When the last assistant message is of a turn that answered, a replay finds no
\* tool call pending, whatever other turns wrote in between or failed to write.
NoGhostCalls ==
  (\A a \in LastAssistant : pc[log[a].event.turn] = "done") => PendingToolCalls = {}

\* The two backends are one interface: while the session is younger than the
\* retention, PostgreSQL's optimistic appends are the locked ones of the other.
InMemory == INSTANCE InMemorySessionEventLog WITH counter <- Max(Seqs \cup {0})
ImplementsInMemory == InMemory!Spec
=============================================================================
