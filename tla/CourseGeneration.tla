-------------------------- MODULE CourseGeneration --------------------------
(***************************************************************************)
(* One course generation job of Wiii: its row in course_generation_jobs,   *)
(* the teacher's requests, the background tasks that write its outline,    *)
(* expand its chapters and retry the failed ones, and the workers          *)
(* (processes) they run in, which crash, stop, and recover the job when    *)
(* they start.  Every SELECT and UPDATE of the row and every call of the   *)
(* language model or the LMS is a step; between two of them any other task *)
(* may run.                                                                *)
(***************************************************************************)
EXTENDS Integers, FiniteSets

CONSTANTS
  Task,        \* slots for requests in flight and background tasks
  Worker,      \* processes of the service
  Chapter,     \* indexes of the chapters of an outline
  Outlines,    \* what the model may propose: chapter -> the chapters it depends on
  NoOutline, Nowhere,
  Requests,    \* what a teacher may approve: [chapters, course]
  MaxShells, MaxCalls, MaxFalls  \* bounds: courses created, requests, workers lost

NoCourse == -1
Course == 0..MaxShells             \* 0: a course the teacher had before
NoRequest == [chapters |-> {}, course |-> NoCourse]

ASSUME CourseAssumption ==
  /\ Chapter \subseteq Nat /\ Outlines \subseteq [Chapter -> SUBSET Chapter]
  /\ NoOutline \notin Outlines /\ Nowhere \notin Worker /\ 0 \in Chapter
  /\ Requests \subseteq [chapters : (SUBSET Chapter) \ {{}}, course : {NoCourse, 0}]
  /\ MaxShells \in Nat /\ MaxCalls \in Nat /\ MaxFalls \in Nat

VARIABLES
  job,     \* the row
  file,    \* the uploaded document is still there
  shells,  \* courses created in the LMS for this job
  pushed,  \* the chapters the LMS holds: <<course, chapter>>
  up,      \* the workers that serve
  pc,      \* where each slot is
  loc,     \* the local variables of its request or task, and its worker
  past,    \* what has happened so far, of Event
  calls, falls

world == <<file, shells, pushed>>
env == <<up, calls, falls>>
vars == <<job, file, shells, pushed, up, pc, loc, past, calls, falls>>

Active == {"CONVERTING", "EXPANDING", "RECOVERING_OUTLINE", "RECOVERING_EXPANDING"}
Terminal == {"COMPLETED", "FAILED", "CANCELLED"}
Phase == Active \cup Terminal \cup {"OUTLINE_READY"}

\* A chapter in failed_chapters, without or with the content written for it.
Failure == {"no", "plain", "cached"}
\* A chapter of a wave: waiting, being written, and how it ended.
Stage == {"none", "todo", "draft", "ok", "plain", "cached"}

RequestSteps == {"expand", "cancelReady", "cancelAsk", "cancelTasks", "clear", "resume"}
Begins == {"oBegin", "xBegin", "rBegin"}
OutlineSteps == {"oCheck", "oConvert", "oRecheck", "oOutline", "oSave"}
ExpandSteps == {"xCheck", "xShell", "xSave", "xRecheck", "xPlan", "xWave", "xRun", "xFinish"}
RetrySteps == {"rLook", "rDo", "rCheck", "rRead", "rWrite", "rReread", "rClose"}
Handlers == {"cancelling", "failing", "rFail", "rFailWrite", "rFailClose"}
TaskSteps == Begins \cup OutlineSteps \cup ExpandSteps \cup RetrySteps \cup Handlers
PC == {"idle"} \cup RequestSteps \cup TaskSteps

NewJob == [phase |-> "CONVERTING", cancel |-> FALSE, outline |-> NoOutline,
           request |-> NoRequest, course |-> NoCourse, completed |-> {},
           failed |-> [c \in Chapter |-> "no"]]
NoStage == [c \in Chapter |-> "none"]
Blank == [seen |-> NewJob, req |-> NoRequest, outline |-> NoOutline, course |-> NoCourse,
          done |-> {}, bad |-> NewJob.failed, todo |-> {}, sched |-> {},
          stage |-> NoStage, ch |-> 0, at |-> Nowhere]
Fresh(t) == [Blank EXCEPT !.at = loc[t].at]
Kept(t) == [Fresh(t) EXCEPT !.req = loc[t].req]   \* all that the handlers use

Go(t, p) == pc' = [pc EXCEPT ![t] = p]
Note(t, l) == loc' = [loc EXCEPT ![t] = l]
Ends(t) == Go(t, "idle") /\ Note(t, Blank)

\* The chapters of a wave have all come to an end.
WaveOver(t) == pc[t] = "xRun" /\ \A c \in Chapter : loc[t].stage[c] \notin {"todo", "draft"}

\* A background task that expands.
Expands(t) == loc[t].req # NoRequest /\ pc[t] \in TaskSteps

\* A background task that retries a chapter.
Retries(t) == pc[t] \in {"rBegin", "rFail", "rFailWrite", "rFailClose"} \cup RetrySteps

-----------------------------------------------------------------------------
(* Requests: each reads the row, decides, and writes *)

Asks(t, w, p, l) ==
  /\ pc[t] = "idle" /\ w \in up /\ calls < MaxCalls
  /\ calls' = calls + 1
  /\ Go(t, p) /\ Note(t, [l EXCEPT !.at = w])
  /\ UNCHANGED <<job, world, up, falls>>

AskExpand(t, w, r) == job.phase = "OUTLINE_READY" /\ Asks(t, w, "expand", [Blank EXCEPT !.seen.request = r])

ExpandWithoutSnapshot(t) ==
  /\ pc[t] = "expand"
  /\ job' = [job EXCEPT !.phase = "EXPANDING", !.cancel = FALSE]
  /\ Go(t, "xBegin") /\ Note(t, [Fresh(t) EXCEPT !.req = loc[t].seen.request])
  /\ UNCHANGED <<world, env>>

Expand(t) ==
  /\ pc[t] = "expand"
  /\ LET r == loc[t].seen.request
     IN  /\ job' = [job EXCEPT !.phase = "EXPANDING", !.request = r, !.cancel = FALSE]
         /\ Note(t, [Fresh(t) EXCEPT !.req = r])
  /\ Go(t, "xBegin") /\ UNCHANGED <<world, env>>

AskRetry(t, w, c) ==
  /\ job.phase \in {"COMPLETED", "EXPANDING"} /\ job.failed[c] # "no"
  /\ Asks(t, w, "rBegin", [Blank EXCEPT !.ch = c])

AskCancel(t, w) ==
  /\ job.phase \notin Terminal
  /\ Asks(t, w, IF job.phase = "OUTLINE_READY" THEN "cancelReady" ELSE "cancelAsk", Blank)

CancelReady(t) ==
  /\ pc[t] = "cancelReady"
  /\ job' = [job EXCEPT !.phase = "CANCELLED", !.cancel = TRUE]
  /\ Ends(t) /\ UNCHANGED <<world, env>>

CancelAsk(t) ==
  /\ pc[t] = "cancelAsk"
  /\ job' = [job EXCEPT !.cancel = TRUE]
  /\ Go(t, "cancelTasks") /\ UNCHANGED <<world, loc, env>>

\* Where CancelledError takes a task: into its handler, out of it before it has
\* been entered or a second time, and nowhere while it waits for its heartbeat.
Interrupted(u) ==
  CASE pc[u] \in Begins -> {"cancelling", "idle"}
    [] pc[u] \in Handlers -> {"idle"}
    [] pc[u] = "oSave" \/ WaveOver(u) -> {"cancelling", pc[u]}
    [] OTHER -> {"cancelling"}

\* task.cancel() on every task of w; the requests in R have been answered.
Interrupt(w, R) ==
  LET hit == {u \in Task : loc[u].at = w /\ pc[u] \in TaskSteps}
  IN  \E to \in [hit -> {"cancelling", "idle", "oSave", "xRun"}] :
        /\ \A u \in hit : to[u] \in Interrupted(u)
        /\ pc' = [u \in Task |-> IF u \in hit THEN to[u] ELSE IF u \in R THEN "idle" ELSE pc[u]]
        /\ loc' = [u \in Task |-> CASE pc'[u] = "idle" -> Blank
                                    [] pc'[u] = "cancelling" -> Kept(u)
                                    [] OTHER -> loc[u]]

CancelTasks(t) ==
  /\ pc[t] = "cancelTasks" /\ Interrupt(loc[t].at, {t})
  /\ UNCHANGED <<job, world, env>>

AskResume(t, w) ==
  /\ job.phase \in Terminal
  /\ Asks(t, w, "clear", [Blank EXCEPT !.seen.outline = job.outline, !.seen.request = job.request])

ClearCancelRequest(t) ==
  /\ pc[t] = "clear"
  /\ job' = [job EXCEPT !.cancel = FALSE]
  /\ Go(t, "resume") /\ UNCHANGED <<world, loc, env>>

Resume(t) ==
  /\ pc[t] = "resume"
  /\ LET seen == loc[t].seen
     IN  \/ /\ seen.outline = NoOutline /\ ~file
            /\ Ends(t) /\ UNCHANGED job
         \/ /\ seen.outline = NoOutline /\ file
            /\ job' = [job EXCEPT !.phase = "CONVERTING"]
            /\ Go(t, "oBegin") /\ Note(t, Fresh(t))
         \/ /\ seen.outline # NoOutline /\ seen.request = NoRequest
            /\ job' = [job EXCEPT !.phase = "OUTLINE_READY"]
            /\ Ends(t)
         \/ /\ seen.outline # NoOutline /\ seen.request # NoRequest
            /\ job' = [job EXCEPT !.phase = "EXPANDING", !.request = seen.request]
            /\ Go(t, "xBegin") /\ Note(t, [Fresh(t) EXCEPT !.req = seen.request])
  /\ UNCHANGED <<world, env>>

-----------------------------------------------------------------------------
(* Workers *)

ClaimableOutline(stale) ==
  /\ ~job.cancel
  /\ \/ job.phase = "CONVERTING"
     \/ job.phase \in {"RECOVERING_OUTLINE", "RECOVERING_EXPANDING"} /\ stale

\* claim_jobs_for_recovery: a phase of recovery is taken over after a minute.
Claimable(stale) ==
  /\ ~job.cancel
  /\ \/ job.phase \in {"CONVERTING", "EXPANDING"}
     \/ job.phase \in {"RECOVERING_OUTLINE", "RECOVERING_EXPANDING"} /\ stale

Falls(w) == falls < MaxFalls /\ falls' = falls + 1 /\ up' = up \ {w}
Busy(w) == \E u \in Task : loc[u].at = w /\ pc[u] # "idle"

\* A worker starts and recovers the job, once, before it serves.
Start(t, w, stale) ==
  /\ w \notin up /\ ~Busy(w) /\ pc[t] = "idle"
  /\ up' = up \cup {w}
  /\ \/ ~Claimable(stale) /\ UNCHANGED <<job, pc, loc>>
     \/ /\ Claimable(stale) /\ job.phase \in {"CONVERTING", "RECOVERING_OUTLINE"}
        /\ \/ ~file /\ job' = [job EXCEPT !.phase = "FAILED"] /\ UNCHANGED <<pc, loc>>
           \/ /\ file /\ job' = [job EXCEPT !.phase = "RECOVERING_OUTLINE"]
              /\ Go(t, "oBegin") /\ Note(t, [Blank EXCEPT !.at = w])
     \/ /\ Claimable(stale) /\ job.phase \in {"EXPANDING", "RECOVERING_EXPANDING"}
        /\ job' = [job EXCEPT !.phase = "RECOVERING_EXPANDING"]
        /\ Go(t, "xBegin") /\ Note(t, [Blank EXCEPT !.req = job.request, !.at = w])
  /\ UNCHANGED <<world, calls, falls>>

Crash(w) ==
  /\ w \in up \/ Busy(w)
  /\ Falls(w)
  /\ pc' = [u \in Task |-> IF loc[u].at = w THEN "idle" ELSE pc[u]]
  /\ loc' = [u \in Task |-> IF loc[u].at = w THEN Blank ELSE loc[u]]
  /\ UNCHANGED <<job, world, calls>>

\* A graceful stop answers the requests in flight, then cancels every task.
Stop(w) ==
  /\ w \in up /\ Falls(w)
  /\ \A u \in Task : loc[u].at = w => pc[u] \notin RequestSteps
  /\ Interrupt(w, {})
  /\ UNCHANGED <<job, world, calls>>

-----------------------------------------------------------------------------
(* Steps of any background task *)

\* raise_if_generation_cancelled, and where the task goes on.
After == [oCheck |-> "oConvert", oRecheck |-> "oOutline", xCheck |-> "xShell",
          xRecheck |-> "xPlan", rCheck |-> "rRead"]

Check(t) ==
  /\ pc[t] \in DOMAIN After
  /\ \/ job.cancel /\ Go(t, "cancelling") /\ Note(t, Kept(t))
     \/ ~job.cancel /\ Go(t, After[pc[t]]) /\ UNCHANGED loc
  /\ UNCHANGED <<job, world, env>>

Snapshot(t) == IF Expands(t) THEN loc[t].req ELSE job.request

Cancelled(t) ==
  /\ pc[t] = "cancelling"
  /\ job' = [job EXCEPT !.phase = "CANCELLED", !.cancel = TRUE, !.request = Snapshot(t)]
  /\ Ends(t) /\ UNCHANGED <<world, env>>

Failed(t) ==
  /\ pc[t] = "failing"
  /\ job' = [job EXCEPT !.phase = "FAILED", !.request = Snapshot(t)]
  /\ Ends(t) /\ UNCHANGED <<world, env>>

-----------------------------------------------------------------------------
(* run_outline_phase *)

OBegin(t) ==
  /\ pc[t] = "oBegin"
  /\ job' = [job EXCEPT !.phase = "CONVERTING", !.cancel = FALSE]
  /\ Go(t, "oCheck") /\ UNCHANGED <<world, loc, env>>

OConvert(t) ==
  /\ pc[t] = "oConvert"
  /\ \/ file /\ Go(t, "oRecheck")
     \/ Go(t, "failing")
  /\ UNCHANGED <<job, world, loc, env>>

OOutline(t) ==
  /\ pc[t] = "oOutline"
  /\ \/ \E o \in Outlines : Go(t, "oSave") /\ Note(t, [Fresh(t) EXCEPT !.outline = o])
     \/ Go(t, "failing") /\ UNCHANGED loc
  /\ UNCHANGED <<job, world, env>>

OSave(t) ==
  /\ pc[t] = "oSave"
  /\ job' = [job EXCEPT !.phase = "OUTLINE_READY", !.outline = loc[t].outline, !.cancel = FALSE]
  /\ file' = FALSE
  /\ Ends(t) /\ UNCHANGED <<shells, pushed, env>>

-----------------------------------------------------------------------------
(* run_expand_phase *)

XBegin(t) ==
  /\ pc[t] = "xBegin"
  /\ job' = [job EXCEPT !.phase = "EXPANDING", !.request = loc[t].req, !.cancel = FALSE]
  /\ Go(t, "xCheck") /\ UNCHANGED <<world, loc, env>>

XShell(t) ==
  /\ pc[t] = "xShell"
  /\ LET r == loc[t].req
     IN  \/ /\ r.course # NoCourse
            /\ Go(t, "xSave") /\ Note(t, [loc[t] EXCEPT !.course = r.course])
            /\ UNCHANGED shells
         \/ /\ r.course = NoCourse /\ shells < MaxShells
            /\ shells' = shells + 1
            /\ Go(t, "xSave") /\ Note(t, [loc[t] EXCEPT !.course = shells'])
         \/ /\ r.course = NoCourse
            /\ shells' \in {shells, shells + 1} \cap (0..MaxShells)
            /\ Go(t, "failing") /\ UNCHANGED loc
  /\ UNCHANGED <<job, file, pushed, env>>

XSave(t) ==
  /\ pc[t] = "xSave"
  /\ job' = [job EXCEPT !.phase = "EXPANDING", !.course = loc[t].course]
  /\ Go(t, "xRecheck") /\ UNCHANGED <<world, loc, env>>

\* What the row lists as completed is not expanded again, and what will be is
\* no longer failed.
XPlan(t) ==
  /\ pc[t] = "xPlan"
  /\ LET todo == loc[t].req.chapters \ job.completed
     IN  \/ todo = {} /\ Go(t, "xFinish") /\ Note(t, Kept(t))
         \/ /\ todo # {} /\ Go(t, "xWave")
            /\ Note(t, [loc[t] EXCEPT !.outline = job.outline, !.done = job.completed, !.todo = todo,
                          !.bad = [c \in Chapter |-> IF c \in todo THEN "no" ELSE job.failed[c]]])
  /\ UNCHANGED <<job, world, env>>

\* compute_execution_waves, one wave at a time.
Wave(deps, todo, sched) ==
  LET ready == {c \in todo : deps[c] \subseteq sched}
  IN  IF ready # {} THEN ready ELSE {c \in todo : \A d \in todo : c <= d}

XWave(t) ==
  /\ pc[t] = "xWave"
  /\ LET l == loc[t]
         wave == Wave(l.outline, l.todo, l.sched)
     IN  \/ job.cancel /\ Go(t, "cancelling") /\ Note(t, Kept(t))
         \/ /\ ~job.cancel /\ Go(t, "xRun")
            /\ Note(t, [l EXCEPT !.todo = @ \ wave, !.sched = @ \cup wave,
                          !.stage = [c \in Chapter |-> IF c \in wave THEN "todo" ELSE "none"]])
  /\ UNCHANGED <<job, world, env>>

\* What pushing chapter c to course k comes to: an answer, or none, whether or
\* not the LMS has stored it; the content is kept for another push.
Push(k, c, end) ==
  \/ end = "ok" /\ pushed' = pushed \cup {<<k, c>>}
  \/ end = "cached" /\ pushed' \in {pushed, pushed \cup {<<k, c>>}}

\* Writing it with the model comes first, and may fail.
WriteAndPush(k, c, end) ==
  \/ Push(k, c, end)
  \/ end = "plain" /\ UNCHANGED pushed

\* expand_limited: the test for cancellation inside gather counts as a failure.
XChapter(t, c) ==
  /\ pc[t] = "xRun"
  /\ \/ /\ loc[t].stage[c] = "todo"
        /\ Note(t, [loc[t] EXCEPT !.stage[c] = IF job.cancel THEN "plain" ELSE "draft"])
        /\ UNCHANGED pushed
     \/ /\ loc[t].stage[c] = "draft"
        /\ \E end \in {"ok", "plain", "cached"} :
             /\ WriteAndPush(loc[t].course, c, end)
             /\ Note(t, [loc[t] EXCEPT !.stage[c] = end])
  /\ UNCHANGED <<job, file, shells, pc, env>>

XRecordCachedAsDone(t) ==
  /\ WaveOver(t)
  /\ LET l == loc[t]
         done == l.done \cup {c \in Chapter : l.stage[c] \in {"ok", "cached"}}
         bad == [c \in Chapter |-> IF l.stage[c] = "plain" THEN "plain" ELSE l.bad[c]]
     IN  /\ job' = [job EXCEPT !.completed = done, !.failed = bad]
         /\ IF l.todo = {}
            THEN Go(t, "xFinish") /\ Note(t, Kept(t))
            ELSE Go(t, "xWave") /\ Note(t, [l EXCEPT !.done = done, !.bad = bad, !.stage = NoStage])
  /\ UNCHANGED <<world, env>>

XRecordLastWave(t) ==
  /\ WaveOver(t)
  /\ LET l == loc[t]
         done == l.done \cup {c \in Chapter : l.stage[c] = "ok"}
         bad == [c \in Chapter |-> IF l.stage[c] \in Failure THEN l.stage[c] ELSE "no"]
     IN  /\ job' = [job EXCEPT !.completed = done, !.failed = bad]
         /\ IF l.todo = {}
            THEN Go(t, "xFinish") /\ Note(t, Kept(t))
            ELSE Go(t, "xWave") /\ Note(t, [l EXCEPT !.done = done, !.bad = bad, !.stage = NoStage])
  /\ UNCHANGED <<world, env>>

\* The wave is over: its results join the lists, which replace the row's.
XRecord(t) ==
  /\ WaveOver(t)
  /\ LET l == loc[t]
         done == l.done \cup {c \in Chapter : l.stage[c] = "ok"}
         bad == [c \in Chapter |-> IF l.stage[c] \in Failure THEN l.stage[c] ELSE l.bad[c]]
     IN  /\ job' = [job EXCEPT !.completed = done, !.failed = bad]
         /\ IF l.todo = {}
            THEN Go(t, "xFinish") /\ Note(t, Kept(t))
            ELSE Go(t, "xWave") /\ Note(t, [l EXCEPT !.done = done, !.bad = bad, !.stage = NoStage])
  /\ UNCHANGED <<world, env>>

XFinish(t) ==
  /\ pc[t] = "xFinish"
  /\ job' = [job EXCEPT !.phase = "COMPLETED", !.request = loc[t].req]
  /\ Ends(t) /\ UNCHANGED <<world, env>>

-----------------------------------------------------------------------------
(* run_retry_chapter *)

RBegin(t) ==
  /\ pc[t] = "rBegin"
  /\ Go(t, IF job.cancel THEN "cancelling" ELSE "rLook")
  /\ Note(t, [loc[t] EXCEPT !.course = job.course])
  /\ UNCHANGED <<job, world, env>>

\* A chapter no longer failed, or no course yet: an error.
RLook(t) ==
  /\ pc[t] = "rLook"
  /\ LET l == loc[t]
     IN  /\ Go(t, IF job.failed[l.ch] = "no" \/ l.course = NoCourse THEN "rFail" ELSE "rDo")
         /\ Note(t, [l EXCEPT !.stage[l.ch] = IF job.failed[l.ch] = "cached" THEN "cached" ELSE "plain"])
  /\ UNCHANGED <<job, world, env>>

RDo(t) ==
  /\ pc[t] = "rDo"
  /\ LET l == loc[t]
     IN  \/ Go(t, "rFail") /\ UNCHANGED <<pushed, loc>>
         \/ \E end \in {"ok", "plain", "cached"} :
              /\ \/ Push(l.course, l.ch, end)
                 \/ l.stage[l.ch] = "plain" /\ end = "plain" /\ UNCHANGED pushed
              /\ Go(t, "rCheck") /\ Note(t, [l EXCEPT !.stage[l.ch] = end])
  /\ UNCHANGED <<job, file, shells, env>>

\* latest_job = get_job(...)
RRead(t) ==
  /\ \E p \in {<<"rRead", "rWrite">>, <<"rReread", "rClose">>, <<"rFail", "rFailWrite">>} :
       pc[t] = p[1] /\ Go(t, p[2])
  /\ Note(t, [loc[t] EXCEPT !.seen = [NewJob EXCEPT !.phase = job.phase, !.completed = job.completed,
                                       !.failed = job.failed]])
  /\ UNCHANGED <<job, world, env>>

\* update_chapters with the lists read, changed in one place.
RWrite(t) ==
  /\ pc[t] = "rWrite"
  /\ LET l == loc[t]
         ok == l.stage[l.ch] = "ok"
     IN  job' = [job EXCEPT
           !.completed = IF ok THEN l.seen.completed \cup {l.ch} ELSE l.seen.completed,
           !.failed = [l.seen.failed EXCEPT ![l.ch] = IF ok THEN "no" ELSE l.stage[l.ch]]]
  /\ Go(t, "rReread") /\ Note(t, Fresh(t)) /\ UNCHANGED <<world, env>>

RFailWrite(t) ==
  /\ pc[t] = "rFailWrite"
  /\ LET l == loc[t]
     IN  job' = [job EXCEPT !.completed = l.seen.completed,
                            !.failed = [l.seen.failed EXCEPT ![l.ch] = l.stage[l.ch]]]
  /\ Go(t, "rFailClose") /\ UNCHANGED <<world, loc, env>>

\* update_phase with the phase read.
RClose(t) ==
  /\ pc[t] \in {"rClose", "rFailClose"}
  /\ job' = [job EXCEPT !.phase = loc[t].seen.phase]
  /\ Ends(t) /\ UNCHANGED <<world, env>>

-----------------------------------------------------------------------------
(* Specification *)

\* POST /outline has stored the document and the row, and dispatched its task.
Init ==
  /\ job = NewJob
  /\ file = TRUE /\ shells = 0 /\ pushed = {}
  /\ up = Worker /\ calls = 0 /\ falls = 0 /\ past = {}
  /\ \E t \in Task, w \in Worker :
       /\ pc = [u \in Task |-> IF u = t THEN "oBegin" ELSE "idle"]
       /\ loc = [u \in Task |-> IF u = t THEN [Blank EXCEPT !.at = w] ELSE Blank]

Step(t) ==
  \/ Expand(t) \/ CancelReady(t) \/ CancelAsk(t) \/ CancelTasks(t)
  \/ ClearCancelRequest(t) \/ Resume(t)
  \/ Check(t) \/ Cancelled(t) \/ Failed(t)
  \/ OBegin(t) \/ OConvert(t) \/ OOutline(t) \/ OSave(t)
  \/ XBegin(t) \/ XShell(t) \/ XSave(t) \/ XPlan(t) \/ XWave(t) \/ XRecord(t) \/ XFinish(t)
  \/ \E c \in Chapter : XChapter(t, c)
  \/ RBegin(t) \/ RLook(t) \/ RDo(t) \/ RRead(t) \/ RWrite(t) \/ RFailWrite(t) \/ RClose(t)

Ask(t, w) ==
  \/ \E r \in Requests : AskExpand(t, w, r)
  \/ \E c \in Chapter : AskRetry(t, w, c)
  \/ AskCancel(t, w) \/ AskResume(t, w)

\* Kept for the properties: an expansion has run beside another task; the job
\* has been in progress with cancel_requested set or while a chapter is retried,
\* or somebody has asked to cancel it.
Event ==
  {e \in {"overlap", "adrift"} :
     \/ e = "overlap" /\ \E t, u \in Task : t # u /\ Expands(t) /\ pc[u] \in TaskSteps
     \/ e = "adrift" /\ job.phase \in Active /\ (job.cancel \/ \E t \in Task : Retries(t))
     \/ e = "adrift" /\ \E t \in Task : pc[t] \in {"cancelAsk", "cancelTasks"}}

Next ==
  /\ \/ \E t \in Task : Step(t)
     \/ \E t \in Task, w \in Worker : Ask(t, w)
     \/ \E t \in Task, w \in Worker, stale \in BOOLEAN : Start(t, w, stale)
     \/ \E w \in Worker : Crash(w) \/ Stop(w)
  /\ past' = past \cup Event'

Spec == Init /\ [][Next]_vars

-----------------------------------------------------------------------------
(* Properties *)

JobRow == [phase : Phase, cancel : BOOLEAN, outline : Outlines \cup {NoOutline},
           request : Requests \cup {NoRequest}, course : Course \cup {NoCourse},
           completed : SUBSET Chapter, failed : [Chapter -> Failure]]
Local == [seen : JobRow, req : Requests \cup {NoRequest}, outline : Outlines \cup {NoOutline},
          course : Course \cup {NoCourse}, done : SUBSET Chapter, bad : [Chapter -> Failure],
          todo : SUBSET Chapter, sched : SUBSET Chapter, stage : [Chapter -> Stage],
          ch : Chapter, at : Worker \cup {Nowhere}]

\* Types.  A slot has a worker exactly while something runs in it.
TypeOK ==
  /\ job \in JobRow /\ file \in BOOLEAN
  /\ shells \in 0..MaxShells /\ pushed \subseteq (Course \cup {NoCourse}) \X Chapter
  /\ up \subseteq Worker /\ calls \in Nat /\ falls \in Nat /\ past \subseteq {"overlap", "adrift"}
  /\ pc \in [Task -> PC] /\ loc \in [Task -> Local]
  /\ \A t \in Task : pc[t] = "idle" <=> loc[t].at = Nowhere

\* A chapter listed as completed is in the LMS, however the tasks that write
\* the list overwrite each other and whatever the LMS leaves unanswered.
CompletedArePushed == \A c \in job.completed : \E k \in Course : <<k, c>> \in pushed

\* Whatever has been cancelled, lost or repeated, the job can go on: until it
\* has an outline it has its document, and once it is expanded it has an
\* outline and the snapshot of what the teacher approved, which a recovery and
\* a resumption take from the row.
Recoverable ==
  /\ job.outline = NoOutline => file
  /\ job.phase \in {"EXPANDING", "RECOVERING_EXPANDING", "COMPLETED"} =>
       job.outline # NoOutline /\ job.request # NoRequest

\* A job that says it is completed has lost no chapter the teacher approved:
\* each is completed or failed, where the teacher can retry it.  The lists are
\* read and written back whole, so this holds only of jobs no expansion of
\* which has run beside another task: across crashes, recoveries, resumptions,
\* cancellations and any number of retries at a time.
NoChapterLost ==
  "overlap" \notin past /\ job.phase = "COMPLETED" =>
     \A c \in job.request.chapters : c \in job.completed \/ job.failed[c] # "no"

\* A job in progress is worked on: while all workers are up, one of its tasks
\* is running, whatever has crashed, stopped, failed or been resumed.  Each part
\* of past can leave it stranded: a retry writes back a phase it has read, and
\* a worker that starts claims no job with cancel_requested.
Attended ==
  up = Worker /\ past = {} /\ job.phase \in {"CONVERTING", "EXPANDING"} =>
    \E t \in Task : pc[t] \in TaskSteps

\* "Atomically claim recoverable jobs so multiple workers do not duplicate
\* work": two tasks never make the outline or expand the chapters at once.
NoDuplicateWork ==
  \A t, u \in Task :
    t # u /\ pc[t] \in OutlineSteps \cup ExpandSteps => pc[u] \notin OutlineSteps \cup ExpandSteps
=============================================================================
