----------------------- MODULE CourseGeneration_proofs -----------------------
(* What a course generation job guarantees for every number of chapters,     *)
(* requests, tasks and workers, and whatever is lost, cancelled or repeated. *)
(* First the types, then the invariant Inv of the row and of what each slot  *)
(* carries back to it, then, where no task runs beside an expansion, that    *)
(* the lists cover every chapter (InvC).                                     *)
EXTENDS CourseGeneration, TLAPS

-----------------------------------------------------------------------------
(* Types *)

SlotsOK ==
  /\ pc \in [Task -> PC] /\ loc \in [Task -> Local]
  /\ \A t \in Task : pc[t] = "idle" <=> loc[t].at = Nowhere

LEMMA BlankType == NewJob \in JobRow /\ Blank \in Local /\ NoStage \in [Chapter -> Stage]
BY CourseAssumption DEF NewJob, JobRow, Blank, Local, NoStage, Phase, Active, Terminal, Failure, Stage, Course

LEMMA RequestWritten ==
  ASSUME NEW j \in JobRow, NEW q \in Requests \cup {NoRequest}
  PROVE  [j EXCEPT !.request = q] \in JobRow
<1>1. PICK i : i = [j EXCEPT !.request = q]
  OBVIOUS
<1>2. /\ i.phase = j.phase /\ i.cancel = j.cancel /\ i.outline = j.outline /\ i.request = q
      /\ i.course = j.course /\ i.completed = j.completed /\ i.failed = j.failed
  BY <1>1 DEF JobRow
<1>3. QED
  BY <1>1, <1>2 DEF JobRow

\* What is left of a slot's record keeps its type and its worker.
LEMMA FreshType ==
  ASSUME TypeOK, NEW t \in Task
  PROVE  /\ Fresh(t) \in Local /\ Fresh(t).at = loc[t].at
         /\ Kept(t) \in Local /\ Kept(t).at = loc[t].at
         /\ Fresh(t).req = NoRequest /\ Kept(t).req = loc[t].req
         /\ Fresh(t).seen = NewJob /\ Kept(t).seen = NewJob
<1>1. loc[t] \in Local
  BY DEF TypeOK
<1>2. Blank \in Local /\ Blank.req = NoRequest /\ Blank.seen = NewJob
  BY BlankType DEF Blank
<1>3. Fresh(t) = [Blank EXCEPT !.at = loc[t].at]
  BY DEF Fresh
<1>4. loc[t].at \in Worker \cup {Nowhere} /\ loc[t].req \in Requests \cup {NoRequest}
  BY <1>1 DEF Local
<1>5. Fresh(t) \in Local /\ Fresh(t).at = loc[t].at /\ Fresh(t).req = NoRequest /\ Fresh(t).seen = NewJob
  BY <1>2, <1>3, <1>4 DEF Local
<1>6. QED
  BY <1>4, <1>5 DEF Kept, Local

\* A slot goes on to p with l; the others stay.
LEMMA SlotMoves ==
  ASSUME SlotsOK, NEW t \in Task, NEW p \in PC, NEW l \in Local, p = "idle" <=> l.at = Nowhere,
         Go(t, p), Note(t, l)
  PROVE  SlotsOK'
BY DEF SlotsOK, Go, Note

LEMMA SlotGoes ==
  ASSUME SlotsOK, NEW t \in Task, NEW p \in PC \ {"idle"}, pc[t] # "idle", Go(t, p), UNCHANGED loc
  PROVE  SlotsOK'
BY DEF SlotsOK, Go

LEMMA SlotEnds == ASSUME SlotsOK, NEW t \in Task, Ends(t) PROVE SlotsOK'
<1>1. "idle" \in PC /\ Blank.at = Nowhere
  BY DEF PC, Blank
<1>2. QED
  BY <1>1, BlankType, SlotMoves DEF Ends

\* Tasks of one worker are interrupted, the rest of its slots may be answered.
LEMMA InterruptType ==
  ASSUME TypeOK, NEW w, NEW R, Interrupt(w, R)
  PROVE  SlotsOK'
<1>1. \A u \in Task : pc'[u] \in PC
  BY DEF Interrupt, TypeOK, PC, TaskSteps, OutlineSteps, ExpandSteps, Handlers
<1>2. pc' \in [Task -> PC]
  BY <1>1 DEF Interrupt
<1>3. ASSUME NEW u \in Task
      PROVE  loc'[u] \in Local /\ (pc'[u] = "idle" <=> loc'[u].at = Nowhere)
  <2>1. CASE pc'[u] = "idle"
    <3>1. loc'[u] = Blank
      BY <2>1 DEF Interrupt
    <3>2. QED
      BY <2>1, <3>1, BlankType DEF Blank
  <2>2. CASE pc'[u] = "cancelling"
    <3>1. loc'[u] = Kept(u)
      BY <2>2 DEF Interrupt
    <3>2. pc[u] # "idle"
      BY <2>2 DEF Interrupt, TaskSteps, Begins, OutlineSteps, ExpandSteps, RetrySteps, Handlers
    <3>3. QED
      BY <2>2, <3>1, <3>2, FreshType DEF TypeOK
  <2>3. CASE pc'[u] \notin {"idle", "cancelling"}
    <3>1. loc'[u] = loc[u]
      BY <2>3 DEF Interrupt
    <3>2. pc[u] # "idle"
      BY <2>3 DEF Interrupt, TaskSteps, Begins, OutlineSteps, ExpandSteps, RetrySteps, Handlers
    <3>3. QED
      BY <2>3, <3>1, <3>2 DEF TypeOK
  <2>4. QED
    BY <2>1, <2>2, <2>3
<1>4. loc' \in [Task -> Local]
  BY <1>3 DEF Interrupt
<1>5. QED
  BY <1>2, <1>3, <1>4 DEF SlotsOK

WorldOK ==
  /\ job \in JobRow /\ file \in BOOLEAN
  /\ shells \in 0..MaxShells /\ pushed \subseteq (Course \cup {NoCourse}) \X Chapter
  /\ up \subseteq Worker /\ calls \in Nat /\ falls \in Nat

LEMMA Parts == TypeOK <=> WorldOK /\ SlotsOK /\ past \subseteq {"overlap", "adrift"}
BY DEF TypeOK, WorldOK, SlotsOK

\* A slot that is where a request or a task may be is taken.
LEMMA Taken == \A p \in RequestSteps \cup TaskSteps : p \in PC \ {"idle"}
BY DEF PC, RequestSteps, TaskSteps, Begins, OutlineSteps, ExpandSteps, RetrySteps, Handlers

LEMMA AskType ==
  ASSUME TypeOK, NEW t \in Task, NEW w \in Worker, NEW p \in PC \ {"idle"}, NEW l \in Local, Asks(t, w, p, l)
  PROVE  WorldOK' /\ SlotsOK'
<1> DEFINE l1 == [l EXCEPT !.at = w]
<1>1. l1 \in Local /\ l1.at = w /\ w # Nowhere
  BY CourseAssumption DEF Local
<1>2. Go(t, p) /\ Note(t, l1) /\ UNCHANGED <<job, world, up, falls>> /\ calls' = calls + 1
  BY DEF Asks
<1> HIDE DEF l1
<1>3. SlotsOK'
  BY <1>1, <1>2, Parts, SlotMoves
<1>4. QED
  BY <1>2, <1>3, Parts DEF WorldOK, world

LEMMA AsksType ==
  ASSUME TypeOK, NEW t \in Task, NEW w \in Worker, Ask(t, w)
  PROVE  WorldOK' /\ SlotsOK'
<1>1. {"expand", "rBegin", "cancelReady", "cancelAsk", "clear"} \subseteq PC \ {"idle"}
  BY Taken DEF RequestSteps, TaskSteps, Begins
<1>2. ASSUME NEW r \in Requests, AskExpand(t, w, r) PROVE WorldOK' /\ SlotsOK'
  <2>1. [Blank EXCEPT !.seen.request = r] \in Local
    BY BlankType DEF Local, JobRow
  <2>2. QED
    BY <1>1, <1>2, <2>1, AskType DEF AskExpand
<1>3. ASSUME NEW c \in Chapter, AskRetry(t, w, c) PROVE WorldOK' /\ SlotsOK'
  <2>1. [Blank EXCEPT !.ch = c] \in Local
    BY BlankType DEF Local
  <2>2. QED
    BY <1>1, <1>3, <2>1, AskType DEF AskRetry
<1>4. CASE AskCancel(t, w)
  BY <1>1, <1>4, BlankType, AskType DEF AskCancel
<1>5. CASE AskResume(t, w)
  <2>1. [Blank EXCEPT !.seen.outline = job.outline, !.seen.request = job.request] \in Local
    BY BlankType DEF Local, JobRow, TypeOK
  <2>2. QED
    BY <1>1, <1>5, <2>1, AskType DEF AskResume
<1>6. QED
  BY <1>2, <1>3, <1>4, <1>5 DEF Ask

LEMMA RequestType ==
  ASSUME TypeOK, NEW t \in Task,
         \/ Expand(t) \/ CancelReady(t) \/ CancelAsk(t) \/ CancelTasks(t)
         \/ ClearCancelRequest(t) \/ Resume(t)
  PROVE  WorldOK' /\ SlotsOK'
<1>1. {"xBegin", "oBegin", "cancelTasks", "resume"} \subseteq PC \ {"idle"}
  BY Taken DEF RequestSteps, TaskSteps, Begins
<1>2. /\ loc[t] \in Local /\ loc[t].seen \in JobRow
      /\ loc[t].seen.request \in Requests \cup {NoRequest} /\ loc[t].seen.outline \in Outlines \cup {NoOutline}
  BY DEF TypeOK, Local, JobRow
<1>3. Fresh(t) \in Local /\ Fresh(t).at = loc[t].at
  BY FreshType
<1>4. ASSUME NEW r \in Requests \cup {NoRequest}
      PROVE  LET l == [Fresh(t) EXCEPT !.req = r] IN l \in Local /\ l.at = loc[t].at
  BY <1>3 DEF Local
<1>5. pc[t] # "idle" => loc[t].at # Nowhere
  BY DEF TypeOK
<1>6. CASE Expand(t)
  <2>1. job' \in JobRow /\ UNCHANGED <<world, env>>
    BY <1>2, <1>6 DEF Expand, TypeOK, JobRow, Phase, Active
  <2>2. SlotsOK'
    BY <1>1, <1>2, <1>4, <1>5, <1>6, Parts, SlotMoves DEF Expand
  <2>3. QED
    BY <2>1, <2>2, Parts DEF WorldOK, world, env
<1>7. CASE CancelReady(t)
  <2>1. job' \in JobRow /\ UNCHANGED <<world, env>>
    BY <1>7 DEF CancelReady, TypeOK, JobRow, Phase, Terminal
  <2>2. SlotsOK'
    BY <1>7, Parts, SlotEnds DEF CancelReady
  <2>3. QED
    BY <2>1, <2>2, Parts DEF WorldOK, world, env
<1>8. CASE CancelAsk(t)
  <2>1. job' \in JobRow /\ UNCHANGED <<world, env>>
    BY <1>8 DEF CancelAsk, TypeOK, JobRow
  <2>2. SlotsOK'
    BY <1>1, <1>8, Parts, SlotGoes DEF CancelAsk
  <2>3. QED
    BY <2>1, <2>2, Parts DEF WorldOK, world, env
<1>9. CASE CancelTasks(t)
  <2>1. UNCHANGED <<job, world, env>> /\ SlotsOK'
    BY <1>9, InterruptType DEF CancelTasks
  <2>2. QED
    BY <2>1, Parts DEF WorldOK, world, env
<1>10. CASE ClearCancelRequest(t)
  <2>1. job' \in JobRow /\ UNCHANGED <<world, env>>
    BY <1>10 DEF ClearCancelRequest, TypeOK, JobRow
  <2>2. SlotsOK'
    BY <1>1, <1>10, Parts, SlotGoes DEF ClearCancelRequest
  <2>3. QED
    BY <2>1, <2>2, Parts DEF WorldOK, world, env
<1>11. CASE Resume(t)
  <2>1. job' \in JobRow /\ UNCHANGED <<world, env>>
    <3>1. \/ job' = job
          \/ job' = [job EXCEPT !.phase = "CONVERTING"]
          \/ job' = [job EXCEPT !.phase = "OUTLINE_READY"]
          \/ job' = [job EXCEPT !.phase = "EXPANDING", !.request = loc[t].seen.request]
      BY <1>11 DEF Resume
    <3>2. job \in JobRow /\ {"CONVERTING", "OUTLINE_READY", "EXPANDING"} \subseteq Phase
      BY DEF TypeOK, Phase, Active
    <3>3. UNCHANGED <<world, env>>
      BY <1>11 DEF Resume
    <3>4. CASE job' = job
      BY <3>2, <3>3, <3>4
    <3>5. ASSUME NEW p \in {"CONVERTING", "OUTLINE_READY"}, job' = [job EXCEPT !.phase = p]
          PROVE  job' \in JobRow
      BY <3>2, <3>5 DEF JobRow
    <3>6. CASE job' = [job EXCEPT !.phase = "EXPANDING", !.request = loc[t].seen.request]
      <4>1. loc[t].seen.request \in Requests \cup {NoRequest}
        BY <1>2 DEF JobRow
      <4>2. PICK q \in Requests \cup {NoRequest} : job' = [job EXCEPT !.phase = "EXPANDING", !.request = q]
        BY <3>6, <4>1
      <4>3. PICK j : j = [job EXCEPT !.phase = "EXPANDING"]
        OBVIOUS
      <4>4. j \in JobRow
        BY <3>2, <4>3 DEF JobRow
      <4>5. job' = [j EXCEPT !.request = q]
        BY <4>2, <4>3
      <4>6. QED
        BY <3>3, <4>4, <4>5, RequestWritten
    <3>7. QED
      BY <3>1, <3>3, <3>4, <3>5, <3>6
  <2>2. \/ Ends(t)
        \/ Go(t, "oBegin") /\ Note(t, Fresh(t)) /\ pc[t] = "resume"
        \/ Go(t, "xBegin") /\ Note(t, [Fresh(t) EXCEPT !.req = loc[t].seen.request]) /\ pc[t] = "resume"
    BY <1>11 DEF Resume
  <2>3. SlotsOK'
    BY <1>1, <1>2, <1>3, <1>4, <1>5, <2>2, Parts, SlotEnds, SlotMoves
  <2>4. QED
    BY <2>1, <2>3, Parts DEF WorldOK, world, env
<1>12. QED
  BY <1>6, <1>7, <1>8, <1>9, <1>10, <1>11

LEMMA WorkerType ==
  ASSUME TypeOK, NEW w \in Worker,
         Crash(w) \/ Stop(w) \/ \E t \in Task, stale \in BOOLEAN : Start(t, w, stale)
  PROVE  WorldOK' /\ SlotsOK'
<1>1. CASE Crash(w)
  <2>1. UNCHANGED <<job, world, calls>> /\ falls' = falls + 1 /\ up' \subseteq Worker
    BY <1>1 DEF Crash, Falls, TypeOK
  <2>2. SlotsOK'
    <3>1. "idle" \in PC /\ Blank.at = Nowhere
      BY DEF PC, Blank
    <3>2. QED
      BY <1>1, <3>1, BlankType, Parts DEF Crash, SlotsOK
  <2>3. QED
    BY <2>1, <2>2, Parts DEF WorldOK, world
<1>2. CASE Stop(w)
  <2>1. UNCHANGED <<job, world, calls>> /\ falls' = falls + 1 /\ up' \subseteq Worker /\ SlotsOK'
    BY <1>2, InterruptType DEF Stop, Falls, TypeOK
  <2>2. QED
    BY <2>1, Parts DEF WorldOK, world
<1>3. ASSUME NEW t \in Task, NEW stale \in BOOLEAN, Start(t, w, stale)
      PROVE  WorldOK' /\ SlotsOK'
  <2>1. job' \in JobRow
    BY <1>3 DEF Start, TypeOK, JobRow, Phase, Active, Terminal
  <2>2. UNCHANGED <<world, calls, falls>> /\ up' \subseteq Worker
    BY <1>3 DEF Start, TypeOK
  <2>3. {"oBegin", "xBegin"} \subseteq PC \ {"idle"} /\ w # Nowhere
    BY Taken, CourseAssumption DEF TaskSteps, Begins
  <2>4. /\ [Blank EXCEPT !.at = w] \in Local /\ [Blank EXCEPT !.at = w].at = w
        /\ LET l == [Blank EXCEPT !.req = job.request, !.at = w] IN l \in Local /\ l.at = w
    <3>1. job.request \in Requests \cup {NoRequest}
      BY DEF TypeOK, JobRow
    <3>2. Blank \in Local
      BY BlankType
    <3>3. QED
      BY <3>1, <3>2 DEF Local
  <2>5. \/ UNCHANGED <<pc, loc>>
        \/ Go(t, "oBegin") /\ Note(t, [Blank EXCEPT !.at = w])
        \/ Go(t, "xBegin") /\ Note(t, [Blank EXCEPT !.req = job.request, !.at = w])
    BY <1>3 DEF Start
  <2>6. SlotsOK'
    <3>1. CASE UNCHANGED <<pc, loc>>
      BY <3>1, Parts DEF SlotsOK
    <3>2. QED
      BY <2>3, <2>4, <2>5, <3>1, Parts, SlotMoves
  <2>7. QED
    BY <2>1, <2>2, <2>6, Parts DEF WorldOK, world
<1>4. QED
  BY <1>1, <1>2, <1>3

\* A step of a task that changes the row and its own slot.
LEMMA TaskMoves ==
  ASSUME TypeOK, NEW t \in Task, pc[t] # "idle", NEW p \in PC \ {"idle"}, NEW l \in Local, l.at = loc[t].at,
         Go(t, p), Note(t, l)
  PROVE  SlotsOK'
<1>1. p = "idle" <=> l.at = Nowhere
  BY DEF TypeOK
<1>2. QED
  BY <1>1, Parts, SlotMoves

LEMMA OutlineType ==
  ASSUME TypeOK, NEW t \in Task,
         Check(t) \/ Cancelled(t) \/ Failed(t) \/ OBegin(t) \/ OConvert(t) \/ OOutline(t) \/ OSave(t)
  PROVE  WorldOK' /\ SlotsOK'
<1>1. /\ {"cancelling", "failing", "oCheck", "oConvert", "oRecheck", "oOutline", "oSave"} \subseteq PC \ {"idle"}
      /\ {"xShell", "xPlan", "rRead"} \subseteq PC \ {"idle"}
  BY Taken DEF TaskSteps, OutlineSteps, ExpandSteps, RetrySteps, Handlers
<1>2. loc[t].req \in Requests \cup {NoRequest} /\ loc[t].outline \in Outlines \cup {NoOutline}
  BY DEF TypeOK, Local
<1>3. Snapshot(t) \in Requests \cup {NoRequest}
  BY <1>2 DEF Snapshot, TypeOK, JobRow
<1>4. job \in JobRow /\ {"CANCELLED", "FAILED", "CONVERTING", "OUTLINE_READY"} \subseteq Phase
  BY DEF TypeOK, Phase, Terminal, Active
<1>5. CASE Check(t)
  <2>1. UNCHANGED <<job, world, env>>
    BY <1>5 DEF Check
  <2>2. /\ pc[t] # "idle"
        /\ \/ Go(t, "cancelling") /\ Note(t, Kept(t))
           \/ \E p \in PC \ {"idle"} : Go(t, p) /\ UNCHANGED loc
    BY <1>1, <1>5 DEF Check, After
  <2>3. SlotsOK'
    BY <1>1, <2>2, FreshType, TaskMoves, SlotGoes, Parts
  <2>4. QED
    BY <2>1, <2>3, Parts DEF WorldOK, world, env
<1>6. CASE Cancelled(t)
  <2>1. job' \in JobRow /\ UNCHANGED <<world, env>>
    BY <1>3, <1>4, <1>6 DEF Cancelled, JobRow
  <2>2. SlotsOK'
    BY <1>6, Parts, SlotEnds DEF Cancelled
  <2>3. QED
    BY <2>1, <2>2, Parts DEF WorldOK, world, env
<1>7. CASE Failed(t)
  <2>1. job' \in JobRow /\ UNCHANGED <<world, env>>
    BY <1>3, <1>4, <1>7 DEF Failed, JobRow
  <2>2. SlotsOK'
    BY <1>7, Parts, SlotEnds DEF Failed
  <2>3. QED
    BY <2>1, <2>2, Parts DEF WorldOK, world, env
<1>8. CASE OBegin(t)
  <2>1. job' \in JobRow /\ UNCHANGED <<world, env>>
    BY <1>4, <1>8 DEF OBegin, JobRow
  <2>2. SlotsOK'
    BY <1>1, <1>8, Parts, SlotGoes DEF OBegin
  <2>3. QED
    BY <2>1, <2>2, Parts DEF WorldOK, world, env
<1>9. CASE OConvert(t)
  <2>1. UNCHANGED <<job, world, env>> /\ SlotsOK'
    BY <1>1, <1>9, Parts, SlotGoes DEF OConvert
  <2>2. QED
    BY <2>1, Parts DEF WorldOK, world, env
<1>10. CASE OOutline(t)
  <2>1. UNCHANGED <<job, world, env>> /\ pc[t] # "idle"
    BY <1>10 DEF OOutline
  <2>2. ASSUME NEW o \in Outlines, Go(t, "oSave"), Note(t, [Fresh(t) EXCEPT !.outline = o]) PROVE SlotsOK'
    <3>1. LET l == [Fresh(t) EXCEPT !.outline = o] IN l \in Local /\ l.at = loc[t].at
      BY FreshType DEF Local
    <3>2. QED
      BY <1>1, <2>1, <2>2, <3>1, TaskMoves
  <2>3. SlotsOK'
    BY <1>1, <1>10, <2>1, <2>2, Parts, SlotGoes DEF OOutline
  <2>4. QED
    BY <2>1, <2>3, Parts DEF WorldOK, world, env
<1>11. CASE OSave(t)
  <2>1. job' \in JobRow /\ file' = FALSE /\ UNCHANGED <<shells, pushed, env>>
    BY <1>2, <1>4, <1>11 DEF OSave, JobRow
  <2>2. SlotsOK'
    BY <1>11, Parts, SlotEnds DEF OSave
  <2>3. QED
    BY <2>1, <2>2, Parts DEF WorldOK, env
<1>12. QED
  BY <1>5, <1>6, <1>7, <1>8, <1>9, <1>10, <1>11

LEMMA WaveType ==
  ASSUME NEW deps, NEW todo \in SUBSET Chapter, NEW sched
  PROVE  Wave(deps, todo, sched) \in SUBSET todo
BY DEF Wave

\* The fields of a task's record.
LEMMA LocalFields ==
  ASSUME TypeOK, NEW t \in Task
  PROVE  /\ loc[t].seen \in JobRow /\ loc[t].req \in Requests \cup {NoRequest}
         /\ loc[t].outline \in Outlines \cup {NoOutline} /\ loc[t].course \in Course \cup {NoCourse}
         /\ loc[t].done \in SUBSET Chapter /\ loc[t].bad \in [Chapter -> Failure]
         /\ loc[t].todo \in SUBSET Chapter /\ loc[t].sched \in SUBSET Chapter
         /\ loc[t].stage \in [Chapter -> Stage] /\ loc[t].ch \in Chapter /\ loc[t].at \in Worker \cup {Nowhere}
BY DEF TypeOK, Local

LEMMA RowFields ==
  ASSUME TypeOK
  PROVE  /\ job.phase \in Phase /\ job.cancel \in BOOLEAN /\ job.outline \in Outlines \cup {NoOutline}
         /\ job.request \in Requests \cup {NoRequest} /\ job.course \in Course \cup {NoCourse}
         /\ job.completed \in SUBSET Chapter /\ job.failed \in [Chapter -> Failure]
BY DEF TypeOK, JobRow

\* A push adds at most the chapter pushed.
LEMMA PushType ==
  ASSUME TypeOK, NEW k \in Course \cup {NoCourse}, NEW c \in Chapter, NEW end,
         Push(k, c, end) \/ WriteAndPush(k, c, end)
  PROVE  /\ pushed \subseteq pushed' /\ pushed' \subseteq pushed \cup {<<k, c>>}
         /\ pushed' \subseteq (Course \cup {NoCourse}) \X Chapter
         /\ end = "ok" => <<k, c>> \in pushed'
<1>1. pushed \subseteq pushed' /\ pushed' \subseteq pushed \cup {<<k, c>>}
  BY DEF Push, WriteAndPush
<1>2. QED
  BY <1>1 DEF Push, WriteAndPush, TypeOK

\* What XRecord computes.
Done(t) == loc[t].done \cup {c \in Chapter : loc[t].stage[c] = "ok"}
Bad(t) == [c \in Chapter |-> IF loc[t].stage[c] \in Failure THEN loc[t].stage[c] ELSE loc[t].bad[c]]

LEMMA RecordType == ASSUME TypeOK, NEW t \in Task PROVE Done(t) \in SUBSET Chapter /\ Bad(t) \in [Chapter -> Failure]
BY LocalFields DEF Done, Bad

LEMMA RecordDef ==
  ASSUME NEW t \in Task, XRecord(t)
  PROVE  /\ pc[t] = "xRun" /\ \A c \in Chapter : loc[t].stage[c] \notin {"todo", "draft"}
         /\ job' = [job EXCEPT !.completed = Done(t), !.failed = Bad(t)]
         /\ \/ loc[t].todo = {} /\ Go(t, "xFinish") /\ Note(t, Kept(t))
            \/ /\ loc[t].todo # {} /\ Go(t, "xWave")
               /\ Note(t, [loc[t] EXCEPT !.done = Done(t), !.bad = Bad(t), !.stage = NoStage])
         /\ UNCHANGED <<world, env>>
BY DEF XRecord, WaveOver, Done, Bad

LEMMA ExpandType1 ==
  ASSUME TypeOK, NEW t \in Task,
         XBegin(t) \/ XShell(t) \/ XSave(t) \/ XFinish(t) \/ XPlan(t)
  PROVE  WorldOK' /\ SlotsOK'
<1>1. {"xCheck", "xSave", "failing", "xRecheck", "xFinish", "xWave"} \subseteq PC \ {"idle"}
  BY Taken DEF TaskSteps, ExpandSteps, Handlers
<1>2. job \in JobRow /\ {"EXPANDING", "COMPLETED"} \subseteq Phase
  BY DEF TypeOK, Phase, Terminal, Active
<1>3. loc[t] \in Local
  BY DEF TypeOK
<1>4. CASE XBegin(t)
  <2>1. job' \in JobRow /\ UNCHANGED <<world, env>>
    BY <1>2, <1>4, LocalFields DEF XBegin, JobRow
  <2>2. SlotsOK'
    BY <1>1, <1>4, Parts, SlotGoes DEF XBegin
  <2>3. QED
    BY <2>1, <2>2, Parts DEF WorldOK, world, env
<1>5. CASE XShell(t)
  <2>1. UNCHANGED <<job, file, pushed, env>> /\ pc[t] # "idle"
    BY <1>5 DEF XShell
  <2>2. shells' \in 0..MaxShells
    BY <1>5, CourseAssumption DEF XShell, TypeOK
  <2>3. ASSUME NEW k \in Course, Note(t, [loc[t] EXCEPT !.course = k]), Go(t, "xSave") PROVE SlotsOK'
    <3>1. LET l == [loc[t] EXCEPT !.course = k] IN l \in Local /\ l.at = loc[t].at
      BY <1>3 DEF Local
    <3>2. QED
      BY <1>1, <2>1, <2>3, <3>1, TaskMoves
  <2>4. \/ \E k \in Course : Note(t, [loc[t] EXCEPT !.course = k]) /\ Go(t, "xSave")
        \/ Go(t, "failing") /\ UNCHANGED loc
    <3>1. loc[t].req.course \in {NoCourse, 0} /\ 0 \in Course
      BY LocalFields, CourseAssumption DEF NoRequest, Course
    <3>2. QED
      BY <1>5, <2>2, <3>1 DEF XShell, Course
  <2>5. SlotsOK'
    BY <1>1, <2>1, <2>3, <2>4, Parts, SlotGoes
  <2>6. QED
    BY <2>1, <2>2, <2>5, Parts DEF WorldOK, env
<1>6. CASE XSave(t)
  <2>1. job' \in JobRow /\ UNCHANGED <<world, env>>
    BY <1>2, <1>6, LocalFields DEF XSave, JobRow
  <2>2. SlotsOK'
    BY <1>1, <1>6, Parts, SlotGoes DEF XSave
  <2>3. QED
    BY <2>1, <2>2, Parts DEF WorldOK, world, env
<1>7. CASE XFinish(t)
  <2>1. job' \in JobRow /\ UNCHANGED <<world, env>>
    BY <1>2, <1>7, LocalFields DEF XFinish, JobRow
  <2>2. SlotsOK'
    BY <1>7, Parts, SlotEnds DEF XFinish
  <2>3. QED
    BY <2>1, <2>2, Parts DEF WorldOK, world, env
<1>8. CASE XPlan(t)
  <2> DEFINE todo == loc[t].req.chapters \ job.completed
             bad == [c \in Chapter |-> IF c \in todo THEN "no" ELSE job.failed[c]]
             l == [loc[t] EXCEPT !.outline = job.outline, !.done = job.completed, !.todo = todo, !.bad = bad]
  <2>1. UNCHANGED <<job, world, env>> /\ pc[t] # "idle"
    BY <1>8 DEF XPlan
  <2>2. todo \in SUBSET Chapter
    BY LocalFields, CourseAssumption DEF NoRequest
  <2>3. bad \in [Chapter -> Failure]
    BY RowFields DEF Failure
  <2>4. l \in Local /\ l.at = loc[t].at
    <3> HIDE DEF todo, bad
    <3>1. QED
      BY <1>3, <2>2, <2>3, RowFields DEF Local
  <2>5. \/ Go(t, "xFinish") /\ Note(t, Kept(t))
        \/ Go(t, "xWave") /\ Note(t, l)
    BY <1>8 DEF XPlan
  <2> HIDE DEF l
  <2>6. SlotsOK'
    BY <1>1, <2>1, <2>4, <2>5, FreshType, TaskMoves
  <2>7. QED
    BY <2>1, <2>6, Parts DEF WorldOK, world, env
<1>9. QED
  BY <1>4, <1>5, <1>6, <1>7, <1>8

LEMMA ExpandType2 ==
  ASSUME TypeOK, NEW t \in Task,
         XWave(t) \/ XRecord(t) \/ \E c \in Chapter : XChapter(t, c)
  PROVE  WorldOK' /\ SlotsOK'
<1>1. {"cancelling", "xRun", "xFinish", "xWave"} \subseteq PC \ {"idle"}
  BY Taken DEF TaskSteps, ExpandSteps, Handlers
<1>2. loc[t] \in Local
  BY DEF TypeOK
<1>3. CASE XWave(t)
  <2> DEFINE wave == Wave(loc[t].outline, loc[t].todo, loc[t].sched)
             stage == [c \in Chapter |-> IF c \in wave THEN "todo" ELSE "none"]
             l == [loc[t] EXCEPT !.todo = @ \ wave, !.sched = @ \cup wave, !.stage = stage]
  <2>1. UNCHANGED <<job, world, env>> /\ pc[t] # "idle"
    BY <1>3 DEF XWave
  <2>2. wave \in SUBSET Chapter /\ stage \in [Chapter -> Stage]
    BY LocalFields, WaveType DEF Stage
  <2>3. l \in Local /\ l.at = loc[t].at
    <3> HIDE DEF wave, stage
    <3>1. QED
      BY <1>2, <2>2, LocalFields DEF Local
  <2>4. \/ Go(t, "cancelling") /\ Note(t, Kept(t))
        \/ Go(t, "xRun") /\ Note(t, l)
    BY <1>3 DEF XWave
  <2> HIDE DEF l
  <2>5. SlotsOK'
    BY <1>1, <2>1, <2>3, <2>4, FreshType, TaskMoves
  <2>6. QED
    BY <2>1, <2>5, Parts DEF WorldOK, world, env
<1>4. CASE XRecord(t)
  <2>1. job' \in JobRow
    <3>1. job \in JobRow /\ Done(t) \in SUBSET Chapter /\ Bad(t) \in [Chapter -> Failure]
      BY RecordType DEF TypeOK
    <3>2. job' = [job EXCEPT !.completed = Done(t), !.failed = Bad(t)]
      BY <1>4, RecordDef
    <3>3. QED
      BY <3>1, <3>2 DEF JobRow
  <2>2. LET l == [loc[t] EXCEPT !.done = Done(t), !.bad = Bad(t), !.stage = NoStage]
        IN  l \in Local /\ l.at = loc[t].at
    BY <1>2, RecordType, BlankType DEF Local
  <2>3. SlotsOK'
    BY <1>1, <1>4, <2>2, RecordDef, FreshType, TaskMoves
  <2>4. QED
    BY <1>4, <2>1, <2>3, RecordDef, Parts DEF WorldOK, world, env
<1>5. ASSUME NEW c \in Chapter, XChapter(t, c) PROVE WorldOK' /\ SlotsOK'
  <2>1. UNCHANGED <<job, file, shells, pc, env>> /\ pc[t] # "idle"
    BY <1>5 DEF XChapter
  <2>2. PICK end \in Stage : Note(t, [loc[t] EXCEPT !.stage[c] = end])
    BY <1>5 DEF XChapter, Stage
  <2>3. LET l == [loc[t] EXCEPT !.stage[c] = end] IN l \in Local /\ l.at = loc[t].at
    BY <1>2, LocalFields DEF Local
  <2>4. SlotsOK'
    BY <2>1, <2>2, <2>3, Parts DEF SlotsOK, Note, TypeOK
  <2>5. pushed' \subseteq (Course \cup {NoCourse}) \X Chapter
    <3>1. CASE UNCHANGED pushed
      BY <3>1 DEF TypeOK
    <3>2. CASE \E e \in {"ok", "plain", "cached"} : WriteAndPush(loc[t].course, c, e)
      BY <3>2, LocalFields, PushType
    <3>3. QED
      BY <1>5, <3>1, <3>2 DEF XChapter
  <2>6. QED
    BY <2>1, <2>4, <2>5, Parts DEF WorldOK, env
<1>6. QED
  BY <1>3, <1>4, <1>5

\* A retry knows how its chapter ended when it writes it down.
RetryKnows(t) ==
  LET end == loc[t].stage[loc[t].ch]
  IN  /\ pc[t] \in {"rCheck", "rRead", "rWrite"} => end \in {"ok", "plain", "cached"}
      /\ pc[t] \in {"rDo", "rFail", "rFailWrite"} => end \in {"plain", "cached"}

LEMMA RetryType ==
  ASSUME TypeOK, NEW t \in Task, RetryKnows(t),
         RBegin(t) \/ RLook(t) \/ RDo(t) \/ RRead(t) \/ RWrite(t) \/ RFailWrite(t) \/ RClose(t)
  PROVE  WorldOK' /\ SlotsOK'
<1>1. {"cancelling", "rLook", "rFail", "rDo", "rCheck", "rWrite", "rClose", "rFailWrite", "rReread", "rFailClose"}
        \subseteq PC \ {"idle"}
  BY Taken DEF TaskSteps, RetrySteps, Handlers
<1>2. loc[t] \in Local
  BY DEF TypeOK
<1>3. CASE RBegin(t)
  <2>1. LET l == [loc[t] EXCEPT !.course = job.course] IN l \in Local /\ l.at = loc[t].at
    BY <1>2, RowFields DEF Local
  <2>2. SlotsOK'
    BY <1>1, <1>3, <2>1, TaskMoves DEF RBegin
  <2>3. QED
    BY <1>3, <2>2, Parts DEF RBegin, WorldOK, world, env
<1>4. CASE RLook(t)
  <2>1. PICK e \in {"plain", "cached"} : Note(t, [loc[t] EXCEPT !.stage[loc[t].ch] = e])
    BY <1>4 DEF RLook
  <2>2. LET l == [loc[t] EXCEPT !.stage[loc[t].ch] = e] IN l \in Local /\ l.at = loc[t].at
    BY <1>2, LocalFields DEF Local, Stage
  <2>3. SlotsOK'
    BY <1>1, <1>4, <2>1, <2>2, TaskMoves DEF RLook
  <2>4. QED
    BY <1>4, <2>3, Parts DEF RLook, WorldOK, world, env
<1>5. CASE RDo(t)
  <2>1. UNCHANGED <<job, file, shells, env>> /\ pc[t] # "idle"
    BY <1>5 DEF RDo
  <2>2. CASE Go(t, "rFail") /\ UNCHANGED <<pushed, loc>>
    BY <1>1, <2>1, <2>2, Parts, SlotGoes DEF WorldOK, env
  <2>3. ASSUME NEW e \in {"ok", "plain", "cached"}, Go(t, "rCheck"), Note(t, [loc[t] EXCEPT !.stage[loc[t].ch] = e]),
               Push(loc[t].course, loc[t].ch, e) \/ UNCHANGED pushed
        PROVE  WorldOK' /\ SlotsOK'
    <3>1. LET l == [loc[t] EXCEPT !.stage[loc[t].ch] = e] IN l \in Local /\ l.at = loc[t].at
      BY <1>2, LocalFields DEF Local, Stage
    <3>2. SlotsOK'
      BY <1>1, <2>1, <2>3, <3>1, TaskMoves
    <3>3. pushed' \subseteq (Course \cup {NoCourse}) \X Chapter
      BY <2>3, LocalFields, PushType DEF TypeOK
    <3>4. QED
      BY <2>1, <3>2, <3>3, Parts DEF WorldOK, env
  <2>4. QED
    BY <1>5, <2>2, <2>3 DEF RDo
<1>6. CASE RRead(t)
  <2>1. PICK p \in {"rWrite", "rClose", "rFailWrite"} : Go(t, p)
    BY <1>6 DEF RRead
  <2> DEFINE seen == [NewJob EXCEPT !.phase = job.phase, !.completed = job.completed, !.failed = job.failed]
  <2>2. seen \in JobRow
    BY BlankType, RowFields DEF JobRow
  <2>3. LET l == [loc[t] EXCEPT !.seen = seen] IN l \in Local /\ l.at = loc[t].at
    <3> HIDE DEF seen
    <3>1. QED
      BY <1>2, <2>2 DEF Local
  <2>4. pc[t] # "idle" /\ Note(t, [loc[t] EXCEPT !.seen = seen]) /\ UNCHANGED <<job, world, env>>
    BY <1>6 DEF RRead
  <2> HIDE DEF seen
  <2>5. SlotsOK'
    BY <1>1, <2>1, <2>3, <2>4, TaskMoves
  <2>6. QED
    BY <2>4, <2>5, Parts DEF WorldOK, world, env
<1>7. CASE RClose(t)
  <2>1. loc[t].seen.phase \in Phase
    BY LocalFields DEF JobRow
  <2>2. job' \in JobRow /\ UNCHANGED <<world, env>>
    BY <1>7, <2>1 DEF RClose, TypeOK, JobRow
  <2>3. SlotsOK'
    BY <1>7, Parts, SlotEnds DEF RClose
  <2>4. QED
    BY <2>2, <2>3, Parts DEF WorldOK, world, env
<1>8. ASSUME NEW C \in SUBSET Chapter, NEW e \in Failure,
             job' = [job EXCEPT !.completed = C, !.failed = [loc[t].seen.failed EXCEPT ![loc[t].ch] = e]]
      PROVE  job' \in JobRow
  <2> DEFINE F == [loc[t].seen.failed EXCEPT ![loc[t].ch] = e]
  <2>1. F \in [Chapter -> Failure]
    BY LocalFields DEF JobRow
  <2> HIDE DEF F
  <2>2. job' = [job EXCEPT !.completed = C, !.failed = F] /\ job \in JobRow
    BY <1>8 DEF F, TypeOK
  <2>3. QED
    BY <2>1, <2>2 DEF JobRow
<1>9. loc[t].seen.completed \in SUBSET Chapter /\ loc[t].ch \in Chapter
  BY LocalFields DEF JobRow
<1>10. CASE RWrite(t)
  <2>1. UNCHANGED <<world, env>> /\ Go(t, "rReread") /\ Note(t, Fresh(t)) /\ pc[t] = "rWrite"
    BY <1>10 DEF RWrite
  <2>2. PICK C \in SUBSET Chapter, e \in Failure :
          job' = [job EXCEPT !.completed = C, !.failed = [loc[t].seen.failed EXCEPT ![loc[t].ch] = e]]
    BY <1>9, <1>10 DEF RWrite, RetryKnows, Failure
  <2>3. SlotsOK'
    BY <1>1, <2>1, FreshType, TaskMoves
  <2>4. QED
    BY <1>8, <2>1, <2>2, <2>3, Parts DEF WorldOK, world, env
<1>11. CASE RFailWrite(t)
  <2>1. UNCHANGED <<world, loc, env>> /\ Go(t, "rFailClose") /\ pc[t] = "rFailWrite"
    BY <1>11 DEF RFailWrite
  <2>2. PICK C \in SUBSET Chapter, e \in Failure :
          job' = [job EXCEPT !.completed = C, !.failed = [loc[t].seen.failed EXCEPT ![loc[t].ch] = e]]
    BY <1>9, <1>11 DEF RFailWrite, RetryKnows, Failure
  <2>3. SlotsOK'
    BY <1>1, <2>1, Parts, SlotGoes
  <2>4. QED
    BY <1>8, <2>1, <2>2, <2>3, Parts DEF WorldOK, world, env
<1>12. QED
  BY <1>3, <1>4, <1>5, <1>6, <1>7, <1>10, <1>11

-----------------------------------------------------------------------------
(* The invariant *)

Expanded == {"EXPANDING", "RECOVERING_EXPANDING", "COMPLETED"}

\* A phase the row may be given: what it stands for is there.
PhaseOK(p) ==
  /\ p = "OUTLINE_READY" => job.outline # NoOutline
  /\ p \in Expanded => job.outline # NoOutline /\ job.request # NoRequest

\* The chapters the LMS has.
Stored == {c \in Chapter : \E k \in Course : <<k, c>> \in pushed}

RowOK ==
  /\ job.outline = NoOutline => file
  /\ PhaseOK(job.phase)
  /\ job.completed \subseteq Stored

\* What a slot carries is as good as what the row holds: whatever it writes
\* back, the row loses neither its outline nor its snapshot, and lists no
\* chapter the LMS has not.
CarriesRow(t) ==
  /\ loc[t].req # NoRequest => job.outline # NoOutline /\ job.request # NoRequest
  /\ loc[t].seen.outline # NoOutline => job.outline # NoOutline
  /\ PhaseOK(loc[t].seen.phase)
  /\ loc[t].seen.completed \subseteq Stored
  /\ loc[t].done \subseteq Stored
  /\ \A c \in Chapter : loc[t].stage[c] = "ok" => c \in Stored

KnowsWhat(t) ==
  /\ pc[t] = "expand" => job.outline # NoOutline /\ loc[t].seen.request # NoRequest
  /\ pc[t] \in {"xBegin"} \cup ExpandSteps => loc[t].req # NoRequest
  /\ pc[t] = "oSave" => loc[t].outline # NoOutline
  /\ pc[t] \in {"xSave", "xRecheck", "xPlan", "xWave", "xRun", "rDo"} => loc[t].course \in Course

SlotOK(t) == CarriesRow(t) /\ KnowsWhat(t) /\ RetryKnows(t)

Inv == TypeOK /\ RowOK /\ \A t \in Task : SlotOK(t)

\* Nothing takes the outline, the snapshot or a chapter of the LMS away.
Grows ==
  /\ job.outline # NoOutline => job'.outline # NoOutline
  /\ job.request # NoRequest => job'.request # NoRequest
  /\ pushed \subseteq pushed'

LEMMA GrowsPhase == ASSUME Grows, NEW p, PhaseOK(p) PROVE PhaseOK(p)'
BY DEF Grows, PhaseOK

LEMMA GrowsStored == ASSUME Grows PROVE Stored \subseteq Stored'
BY DEF Grows, Stored

LEMMA GrowsSlot ==
  ASSUME Grows, NEW u \in Task, SlotOK(u), pc'[u] = pc[u], loc'[u] = loc[u]
  PROVE  SlotOK(u)'
<1>1. CarriesRow(u)'
  BY GrowsStored DEF SlotOK, CarriesRow, Grows, PhaseOK
<1>2. KnowsWhat(u)'
  BY DEF SlotOK, KnowsWhat, Grows
<1>3. RetryKnows(u)'
  BY DEF SlotOK, RetryKnows
<1>4. QED
  BY <1>1, <1>2, <1>3 DEF SlotOK

\* An empty slot, and one whose task is in a handler or has only begun, carry
\* nothing but what was approved.
LEMMA BlankSlot ==
  ASSUME NEW u \in Task, pc'[u] \in PC, loc'[u] \in Local,
         loc'[u].seen = NewJob, loc'[u].done = {}, loc'[u].stage = NoStage,
         loc'[u].req # NoRequest => job'.outline # NoOutline /\ job'.request # NoRequest,
         pc'[u] \in {"idle", "cancelTasks", "cancelReady", "cancelAsk", "cancelling", "failing",
                     "oBegin", "oCheck", "xBegin", "xFinish", "rReread"},
         pc'[u] \in {"xBegin", "xFinish"} => loc'[u].req # NoRequest
  PROVE  SlotOK(u)'
<1>2. CarriesRow(u)'
  BY DEF CarriesRow, PhaseOK, NewJob, NoStage, Expanded
<1>3. KnowsWhat(u)'
  BY DEF KnowsWhat, ExpandSteps
<1>4. RetryKnows(u)'
  BY DEF RetryKnows
<1>5. QED
  BY <1>2, <1>3, <1>4 DEF SlotOK

LEMMA OthersStay ==
  ASSUME Inv, NEW t \in Task, Grows, \A u \in Task \ {t} : pc'[u] = pc[u] /\ loc'[u] = loc[u],
         SlotOK(t)'
  PROVE  \A u \in Task : SlotOK(u)'
BY GrowsSlot DEF Inv

\* No teacher approves nothing.
LEMMA RealRequest == NoRequest \notin Requests
<1>1. SUFFICES ASSUME NoRequest \in Requests PROVE FALSE
  OBVIOUS
<1>2. NoRequest \in [chapters : (SUBSET Chapter) \ {{}}, course : {NoCourse, 0}]
  BY <1>1, CourseAssumption
<1>3. NoRequest.chapters # {}
  BY <1>2
<1>4. QED
  BY <1>3 DEF NoRequest

\* Every slot's type after a step.
LEMMA SlotTypes ==
  ASSUME Inv, WorldOK', SlotsOK', NEW u \in Task
  PROVE  pc'[u] \in PC /\ loc'[u] \in Local /\ job' \in JobRow
BY DEF WorldOK, SlotsOK

LEMMA InterruptKeeps ==
  ASSUME Inv, SlotsOK', WorldOK', UNCHANGED <<job, pushed>>, NEW w, NEW R, Interrupt(w, R)
  PROVE  \A u \in Task : SlotOK(u)'
<1>1. Grows
  BY DEF Grows
<1>2. SUFFICES ASSUME NEW u \in Task PROVE SlotOK(u)'
  OBVIOUS
<1>3. pc'[u] \in PC /\ loc'[u] \in Local
  BY SlotTypes
<1>4. CASE pc'[u] = "idle"
  <2>1. loc'[u] = Blank
    BY <1>4 DEF Interrupt
  <2>2. loc'[u].seen = NewJob /\ loc'[u].done = {} /\ loc'[u].stage = NoStage /\ loc'[u].req = NoRequest
    BY <2>1 DEF Blank
  <2>3. QED
    BY <1>3, <1>4, <2>2, BlankSlot
<1>5. CASE pc'[u] = "cancelling"
  <2>1. loc'[u] = Kept(u)
    BY <1>5 DEF Interrupt
  <2>2. /\ loc'[u].seen = NewJob /\ loc'[u].done = {} /\ loc'[u].stage = NoStage
        /\ loc'[u].req = loc[u].req
    BY <2>1 DEF Kept, Fresh, Blank
  <2>3. CarriesRow(u)
    BY DEF Inv, SlotOK
  <2>4. QED
    BY <1>3, <1>5, <2>2, <2>3, BlankSlot DEF CarriesRow
<1>6. CASE pc'[u] \notin {"idle", "cancelling"}
  <2>1. loc'[u] = loc[u]
    BY <1>6 DEF Interrupt
  <2>2. pc'[u] = pc[u]
    BY <1>6 DEF Interrupt, Interrupted
  <2>3. QED
    BY <1>1, <2>1, <2>2, GrowsSlot DEF Inv
<1>7. QED
  BY <1>4, <1>5, <1>6

LEMMA AsksKeep ==
  ASSUME Inv, NEW t \in Task, NEW w \in Worker, Ask(t, w), WorldOK', SlotsOK'
  PROVE  RowOK' /\ \A u \in Task : SlotOK(u)'
<1>1. UNCHANGED <<job, world>>
  BY DEF Ask, AskExpand, AskRetry, AskCancel, AskResume, Asks
<1>2. RowOK' /\ Grows
  BY <1>1 DEF Inv, RowOK, PhaseOK, Stored, Grows, world
<1>3. pc \in [Task -> PC] /\ loc \in [Task -> Local] /\ RowOK
  BY DEF Inv, TypeOK
<1>4. \A u \in Task \ {t} : pc'[u] = pc[u] /\ loc'[u] = loc[u]
  <2>1. PICK p, l : Go(t, p) /\ Note(t, l)
    BY DEF Ask, AskExpand, AskRetry, AskCancel, AskResume, Asks
  <2>2. QED
    BY <1>3, <2>1 DEF Go, Note
<1>5. SlotOK(t)'
  <2>1. ASSUME NEW r \in Requests, AskExpand(t, w, r) PROVE SlotOK(t)'
    <3>1. /\ pc'[t] = "expand" /\ loc'[t] = [Blank EXCEPT !.seen.request = r, !.at = w]
          /\ job.phase = "OUTLINE_READY"
      BY <1>3, <2>1 DEF AskExpand, Asks, Go, Note, Blank, NewJob
    <3>2. r # NoRequest
      BY RealRequest
    <3>3. /\ loc'[t].seen = [NewJob EXCEPT !.request = r] /\ loc'[t].done = {} /\ loc'[t].stage = NoStage
          /\ loc'[t].req = NoRequest
      BY <3>1 DEF Blank
    <3>4. CarriesRow(t)'
      BY <3>3 DEF CarriesRow, PhaseOK, NewJob, NoStage, Expanded
    <3>5. KnowsWhat(t)'
      BY <1>1, <1>3, <3>1, <3>2, <3>3 DEF KnowsWhat, ExpandSteps, RowOK, PhaseOK, NewJob
    <3>6. QED
      BY <3>1, <3>4, <3>5 DEF SlotOK, RetryKnows
  <2>2. ASSUME NEW c \in Chapter, AskRetry(t, w, c) PROVE SlotOK(t)'
    <3>1. pc'[t] = "rBegin" /\ loc'[t] = [Blank EXCEPT !.ch = c, !.at = w]
      BY <1>3, <2>2 DEF AskRetry, Asks, Go, Note
    <3>2. loc'[t].seen = NewJob /\ loc'[t].done = {} /\ loc'[t].stage = NoStage /\ loc'[t].req = NoRequest
      BY <3>1 DEF Blank
    <3>3. CarriesRow(t)'
      BY <3>2 DEF CarriesRow, PhaseOK, NewJob, NoStage, Expanded
    <3>4. QED
      BY <3>1, <3>3 DEF SlotOK, KnowsWhat, RetryKnows, ExpandSteps
  <2>3. CASE AskCancel(t, w)
    <3>1. pc'[t] \in {"cancelReady", "cancelAsk"} /\ loc'[t] = [Blank EXCEPT !.at = w]
      BY <1>3, <2>3 DEF AskCancel, Asks, Go, Note
    <3>2. loc'[t].seen = NewJob /\ loc'[t].done = {} /\ loc'[t].stage = NoStage /\ loc'[t].req = NoRequest
      BY <3>1 DEF Blank
    <3>3. QED
      BY <3>1, <3>2, SlotTypes, BlankSlot
  <2>4. CASE AskResume(t, w)
    <3>1. /\ pc'[t] = "clear"
          /\ loc'[t] = [Blank EXCEPT !.seen.outline = job.outline, !.seen.request = job.request, !.at = w]
      BY <1>3, <2>4 DEF AskResume, Asks, Go, Note, Blank, NewJob
    <3>2. /\ loc'[t].seen = [NewJob EXCEPT !.outline = job.outline, !.request = job.request]
          /\ loc'[t].done = {} /\ loc'[t].stage = NoStage /\ loc'[t].req = NoRequest
      BY <3>1 DEF Blank
    <3>3. CarriesRow(t)'
      BY <1>1, <3>2 DEF CarriesRow, PhaseOK, NewJob, NoStage, Expanded
    <3>4. QED
      BY <3>1, <3>3 DEF SlotOK, KnowsWhat, RetryKnows, ExpandSteps
  <2>5. QED
    BY <2>1, <2>2, <2>3, <2>4 DEF Ask
<1>6. QED
  BY <1>2, <1>4, <1>5, OthersStay

\* A slot that has ended, or has gone on with an empty record.
LEMMA EndedSlot ==
  ASSUME Inv, WorldOK', SlotsOK', NEW t \in Task, Ends(t)
  PROVE  SlotOK(t)' /\ \A u \in Task \ {t} : pc'[u] = pc[u] /\ loc'[u] = loc[u]
<1>1. pc \in [Task -> PC] /\ loc \in [Task -> Local]
  BY DEF Inv, TypeOK
<1>2. pc'[t] = "idle" /\ loc'[t] = Blank
  BY <1>1 DEF Ends, Go, Note
<1>3. loc'[t].seen = NewJob /\ loc'[t].done = {} /\ loc'[t].stage = NoStage /\ loc'[t].req = NoRequest
  BY <1>2 DEF Blank
<1>4. SlotOK(t)'
  BY <1>2, <1>3, SlotTypes, BlankSlot
<1>5. QED
  BY <1>1, <1>4 DEF Ends, Go, Note

Begun(l) == l.seen = NewJob /\ l.done = {} /\ l.stage = NoStage

LEMMA BegunSlot ==
  ASSUME Inv, WorldOK', SlotsOK', NEW t \in Task, NEW l, NEW p, Go(t, p), Note(t, l), Begun(l),
         p \in {"cancelling", "oBegin", "xBegin", "xFinish", "rReread"},
         p \in {"xBegin", "xFinish"} => l.req # NoRequest,
         l.req # NoRequest => job'.outline # NoOutline /\ job'.request # NoRequest
  PROVE  SlotOK(t)' /\ \A u \in Task \ {t} : pc'[u] = pc[u] /\ loc'[u] = loc[u]
<1>1. pc \in [Task -> PC] /\ loc \in [Task -> Local]
  BY DEF Inv, TypeOK
<1>2. pc'[t] = p /\ loc'[t] = l
  BY <1>1 DEF Go, Note
<1>3. loc'[t].seen = NewJob /\ loc'[t].done = {} /\ loc'[t].stage = NoStage /\ loc'[t].req = l.req
  BY <1>2 DEF Begun
<1>4. SlotOK(t)'
  BY <1>2, <1>3, SlotTypes, BlankSlot
<1>5. QED
  BY <1>1, <1>4 DEF Go, Note

LEMMA KeptIs ==
  ASSUME NEW t \in Task
  PROVE  /\ Begun(Kept(t)) /\ Kept(t).req = loc[t].req
         /\ Begun(Fresh(t)) /\ Fresh(t).req = NoRequest
         /\ \A r : Begun([Fresh(t) EXCEPT !.req = r]) /\ [Fresh(t) EXCEPT !.req = r].req = r
         /\ \A a : Begun([Blank EXCEPT !.at = a]) /\ [Blank EXCEPT !.at = a].req = NoRequest
         /\ \A a, r : /\ Begun([Blank EXCEPT !.req = r, !.at = a])
                      /\ [Blank EXCEPT !.req = r, !.at = a].req = r
BY DEF Kept, Fresh, Blank, Begun

LEMMA RequestsKeep ==
  ASSUME Inv, NEW t \in Task, WorldOK', SlotsOK',
         \/ Expand(t) \/ CancelReady(t) \/ CancelAsk(t) \/ CancelTasks(t)
         \/ ClearCancelRequest(t) \/ Resume(t)
  PROVE  RowOK' /\ \A u \in Task : SlotOK(u)'
<1>1. TypeOK /\ RowOK /\ SlotOK(t)
  BY DEF Inv
<1>2. pc \in [Task -> PC] /\ loc \in [Task -> Local] /\ job \in JobRow
  BY <1>1 DEF TypeOK
<1>3. CASE Expand(t)
  <2> DEFINE r == loc[t].seen.request
  <2>1. r # NoRequest /\ job.outline # NoOutline
    BY <1>1, <1>3 DEF Expand, SlotOK, KnowsWhat
  <2>2. job' = [job EXCEPT !.phase = "EXPANDING", !.request = r, !.cancel = FALSE] /\ UNCHANGED world
    BY <1>3 DEF Expand
  <2>3. /\ job'.phase = "EXPANDING" /\ job'.request = r /\ job'.outline = job.outline
        /\ job'.completed = job.completed
    BY <1>2, <2>2 DEF JobRow
  <2>4. Go(t, "xBegin") /\ Note(t, [Fresh(t) EXCEPT !.req = r])
    BY <1>3 DEF Expand
  <2>5. RowOK' /\ Grows
    BY <1>1, <2>1, <2>2, <2>3 DEF RowOK, PhaseOK, Stored, Grows, world
  <2>6. PICK l : l = [Fresh(t) EXCEPT !.req = r]
    OBVIOUS
  <2>7. Begun(l) /\ l.req = r
    BY <2>6, KeptIs
  <2>8. SlotOK(t)' /\ \A u \in Task \ {t} : pc'[u] = pc[u] /\ loc'[u] = loc[u]
    BY <2>1, <2>3, <2>4, <2>6, <2>7, BegunSlot
  <2>9. QED
    BY <2>5, <2>8, OthersStay
<1>4. CASE CancelReady(t)
  <2>1. job' = [job EXCEPT !.phase = "CANCELLED", !.cancel = TRUE] /\ UNCHANGED world /\ Ends(t)
    BY <1>4 DEF CancelReady
  <2>2. /\ job'.phase = "CANCELLED" /\ job'.request = job.request /\ job'.outline = job.outline
        /\ job'.completed = job.completed
    BY <1>2, <2>1 DEF JobRow
  <2>3. RowOK' /\ Grows
    BY <1>1, <2>1, <2>2 DEF RowOK, PhaseOK, Stored, Grows, world, Expanded
  <2>4. QED
    BY <2>1, <2>3, EndedSlot, OthersStay
<1>5. CASE CancelAsk(t)
  <2>1. job' = [job EXCEPT !.cancel = TRUE] /\ UNCHANGED <<world, loc>> /\ pc[t] = "cancelAsk" /\ Go(t, "cancelTasks")
    BY <1>5 DEF CancelAsk
  <2>2. /\ job'.phase = job.phase /\ job'.request = job.request /\ job'.outline = job.outline
        /\ job'.completed = job.completed
    BY <1>2, <2>1 DEF JobRow
  <2>3. RowOK' /\ Grows
    BY <1>1, <2>1, <2>2 DEF RowOK, PhaseOK, Stored, Grows, world, Expanded
  <2>4. CarriesRow(t)'
    BY <1>1, <2>1, <2>2 DEF SlotOK, CarriesRow, PhaseOK, Stored, world
  <2>5. SlotOK(t)'
    BY <1>2, <2>1, <2>4 DEF SlotOK, KnowsWhat, RetryKnows, ExpandSteps, Go
  <2>6. QED
    BY <1>2, <2>1, <2>3, <2>5, OthersStay DEF Go
<1>6. CASE CancelTasks(t)
  <2>1. UNCHANGED <<job, world>> /\ Interrupt(loc[t].at, {t})
    BY <1>6 DEF CancelTasks
  <2>2. UNCHANGED <<job, pushed>> /\ RowOK'
    BY <1>1, <2>1 DEF RowOK, PhaseOK, Stored, world
  <2>3. QED
    BY <2>1, <2>2, InterruptKeeps
<1>7. CASE ClearCancelRequest(t)
  <2>1. job' = [job EXCEPT !.cancel = FALSE] /\ UNCHANGED <<world, loc>> /\ pc[t] = "clear" /\ Go(t, "resume")
    BY <1>7 DEF ClearCancelRequest
  <2>2. /\ job'.phase = job.phase /\ job'.request = job.request /\ job'.outline = job.outline
        /\ job'.completed = job.completed
    BY <1>2, <2>1 DEF JobRow
  <2>3. RowOK' /\ Grows
    BY <1>1, <2>1, <2>2 DEF RowOK, PhaseOK, Stored, Grows, world, Expanded
  <2>4. CarriesRow(t)'
    BY <1>1, <2>1, <2>2 DEF SlotOK, CarriesRow, PhaseOK, Stored, world
  <2>5. SlotOK(t)'
    BY <1>2, <2>1, <2>4 DEF SlotOK, KnowsWhat, RetryKnows, ExpandSteps, Go
  <2>6. QED
    BY <1>2, <2>1, <2>3, <2>5, OthersStay DEF Go
<1>8. CASE Resume(t)
  <2> DEFINE r == loc[t].seen.request
  <2>1. UNCHANGED world /\ (loc[t].seen.outline # NoOutline => job.outline # NoOutline)
    BY <1>1, <1>8 DEF Resume, SlotOK, CarriesRow
  <2>2. CASE Ends(t) /\ UNCHANGED job
    <3>1. RowOK' /\ Grows
      BY <1>1, <2>1, <2>2 DEF RowOK, PhaseOK, Stored, Grows, world
    <3>2. QED
      BY <2>2, <3>1, EndedSlot, OthersStay
  <2>3. CASE job' = [job EXCEPT !.phase = "CONVERTING"] /\ Go(t, "oBegin") /\ Note(t, Fresh(t))
    <3>1. /\ job'.phase = "CONVERTING" /\ job'.request = job.request /\ job'.outline = job.outline
          /\ job'.completed = job.completed
      BY <1>2, <2>3 DEF JobRow
    <3>2. RowOK' /\ Grows
      BY <1>1, <2>1, <3>1 DEF RowOK, PhaseOK, Stored, Grows, world, Expanded
    <3>3. QED
      BY <2>3, <3>2, KeptIs, BegunSlot, OthersStay
  <2>4. CASE loc[t].seen.outline # NoOutline /\ job' = [job EXCEPT !.phase = "OUTLINE_READY"] /\ Ends(t)
    <3>1. /\ job'.phase = "OUTLINE_READY" /\ job'.request = job.request /\ job'.outline = job.outline
          /\ job'.completed = job.completed
      BY <1>2, <2>4 DEF JobRow
    <3>2. RowOK' /\ Grows
      BY <1>1, <2>1, <2>4, <3>1 DEF RowOK, PhaseOK, Stored, Grows, world, Expanded
    <3>3. QED
      BY <2>4, <3>2, EndedSlot, OthersStay
  <2>5. CASE /\ loc[t].seen.outline # NoOutline /\ r # NoRequest
             /\ job' = [job EXCEPT !.phase = "EXPANDING", !.request = r]
             /\ Go(t, "xBegin") /\ Note(t, [Fresh(t) EXCEPT !.req = r])
    <3>1. /\ job'.phase = "EXPANDING" /\ job'.request = r /\ job'.outline = job.outline
          /\ job'.completed = job.completed
      BY <1>2, <2>5 DEF JobRow
    <3>2. RowOK' /\ Grows
      BY <1>1, <2>1, <2>5, <3>1 DEF RowOK, PhaseOK, Stored, Grows, world
    <3>3. PICK l : l = [Fresh(t) EXCEPT !.req = r]
      OBVIOUS
    <3>4. Begun(l) /\ l.req = r
      BY <3>3, KeptIs
    <3>5. SlotOK(t)' /\ \A u \in Task \ {t} : pc'[u] = pc[u] /\ loc'[u] = loc[u]
      BY <2>1, <2>5, <3>1, <3>3, <3>4, BegunSlot
    <3>6. QED
      BY <3>2, <3>5, OthersStay
  <2>6. QED
    BY <1>8, <2>2, <2>3, <2>4, <2>5 DEF Resume
<1>9. QED
  BY <1>3, <1>4, <1>5, <1>6, <1>7, <1>8

LEMMA SameRow == ASSUME Inv, UNCHANGED <<job, file, pushed>> PROVE RowOK' /\ Grows
BY DEF Inv, RowOK, PhaseOK, Stored, Grows

\* The row is given a phase, and perhaps a snapshot, and what it has stays.
LEMMA RowWritten ==
  ASSUME Inv, UNCHANGED <<file, pushed>>, job'.outline = job.outline, job'.completed = job.completed,
         job.request # NoRequest => job'.request # NoRequest,
         job'.phase = "OUTLINE_READY" => job.outline # NoOutline,
         job'.phase \in Expanded => job.outline # NoOutline /\ job'.request # NoRequest
  PROVE  RowOK' /\ Grows
BY DEF Inv, RowOK, PhaseOK, Stored, Grows

\* A slot whose program counter alone moves, to a step that asks nothing more.
LEMMA GoesSlot ==
  ASSUME Inv, NEW t \in Task, Grows, NEW p, Go(t, p), UNCHANGED loc, KnowsWhat(t)', RetryKnows(t)'
  PROVE  SlotOK(t)' /\ \A u \in Task \ {t} : pc'[u] = pc[u] /\ loc'[u] = loc[u]
<1>1. CarriesRow(t)'
  BY GrowsStored DEF Inv, SlotOK, CarriesRow, Grows, PhaseOK
<1>2. pc \in [Task -> PC]
  BY DEF Inv, TypeOK
<1>3. QED
  BY <1>1, <1>2 DEF SlotOK, Go

LEMMA WorkersKeep ==
  ASSUME Inv, NEW w \in Worker, WorldOK', SlotsOK',
         Crash(w) \/ Stop(w) \/ \E t \in Task, stale \in BOOLEAN : Start(t, w, stale)
  PROVE  RowOK' /\ \A u \in Task : SlotOK(u)'
<1>1. TypeOK /\ RowOK
  BY DEF Inv
<1>2. pc \in [Task -> PC] /\ loc \in [Task -> Local] /\ job \in JobRow
  BY <1>1 DEF TypeOK
<1>3. CASE Crash(w)
  <2>1. RowOK' /\ Grows
    BY <1>3, SameRow DEF Crash, world
  <2>2. ASSUME NEW u \in Task PROVE SlotOK(u)'
    <3>1. CASE loc[u].at = w
      <4>1. pc'[u] = "idle" /\ loc'[u] = Blank
        BY <1>3, <3>1 DEF Crash
      <4>2. loc'[u].seen = NewJob /\ loc'[u].done = {} /\ loc'[u].stage = NoStage /\ loc'[u].req = NoRequest
        BY <4>1 DEF Blank
      <4>3. QED
        BY <4>1, <4>2, SlotTypes, BlankSlot
    <3>2. CASE loc[u].at # w
      BY <1>3, <2>1, <3>2, GrowsSlot DEF Crash, Inv
    <3>3. QED
      BY <3>1, <3>2
  <2>3. QED
    BY <2>1, <2>2
<1>4. CASE Stop(w)
  <2>1. RowOK' /\ UNCHANGED <<job, pushed>>
    BY <1>4, SameRow DEF Stop, world
  <2>2. QED
    BY <1>4, <2>1, InterruptKeeps DEF Stop
<1>5. ASSUME NEW t \in Task, NEW stale \in BOOLEAN, Start(t, w, stale)
      PROVE  RowOK' /\ \A u \in Task : SlotOK(u)'
  <2>1. UNCHANGED <<file, pushed>>
    BY <1>5 DEF Start, world
  <2>2. CASE UNCHANGED <<job, pc, loc>>
    BY <2>1, <2>2, SameRow, GrowsSlot DEF Inv
  <2>3. CASE job' = [job EXCEPT !.phase = "FAILED"] /\ UNCHANGED <<pc, loc>>
    <3>1. /\ job'.phase = "FAILED" /\ job'.request = job.request /\ job'.outline = job.outline
          /\ job'.completed = job.completed
      BY <1>2, <2>3 DEF JobRow
    <3>2. RowOK' /\ Grows
      BY <2>1, <3>1, RowWritten DEF Expanded
    <3>3. QED
      BY <2>3, <3>2, GrowsSlot DEF Inv
  <2>4. CASE /\ job' = [job EXCEPT !.phase = "RECOVERING_OUTLINE"]
             /\ Go(t, "oBegin") /\ Note(t, [Blank EXCEPT !.at = w])
    <3>1. /\ job'.phase = "RECOVERING_OUTLINE" /\ job'.request = job.request /\ job'.outline = job.outline
          /\ job'.completed = job.completed
      BY <1>2, <2>4 DEF JobRow
    <3>2. RowOK' /\ Grows
      BY <2>1, <3>1, RowWritten DEF Expanded
    <3>3. QED
      BY <2>4, <3>2, KeptIs, BegunSlot, OthersStay
  <2>5. CASE /\ job.phase \in {"EXPANDING", "RECOVERING_EXPANDING"}
             /\ job' = [job EXCEPT !.phase = "RECOVERING_EXPANDING"]
             /\ Go(t, "xBegin") /\ Note(t, [Blank EXCEPT !.req = job.request, !.at = w])
    <3>1. /\ job'.phase = "RECOVERING_EXPANDING" /\ job'.request = job.request /\ job'.outline = job.outline
          /\ job'.completed = job.completed
      BY <1>2, <2>5 DEF JobRow
    <3>2. job.outline # NoOutline /\ job.request # NoRequest
      BY <1>1, <2>5 DEF RowOK, PhaseOK, Expanded
    <3>3. RowOK' /\ Grows
      BY <2>1, <3>1, <3>2, RowWritten
    <3> DEFINE l == [Blank EXCEPT !.req = job.request, !.at = w]
    <3>4. Begun(l) /\ l.req # NoRequest
      BY <3>2 DEF Begun, Blank
    <3>5. Go(t, "xBegin") /\ Note(t, l)
      BY <2>5
    <3> HIDE DEF l
    <3>6. QED
      BY <3>1, <3>2, <3>3, <3>4, <3>5, BegunSlot, OthersStay
  <2>6. QED
    BY <1>5, <2>2, <2>3, <2>4, <2>5 DEF Start
<1>6. QED
  BY <1>3, <1>4, <1>5

LEMMA OutlineKeeps ==
  ASSUME Inv, NEW t \in Task, WorldOK', SlotsOK',
         Check(t) \/ Cancelled(t) \/ Failed(t) \/ OBegin(t) \/ OConvert(t) \/ OOutline(t) \/ OSave(t)
  PROVE  RowOK' /\ \A u \in Task : SlotOK(u)'
<1>1. TypeOK /\ RowOK /\ SlotOK(t)
  BY DEF Inv
<1>2. pc \in [Task -> PC] /\ loc \in [Task -> Local] /\ job \in JobRow
  BY <1>1 DEF TypeOK
<1>3. Snapshot(t) # NoRequest => job.outline # NoOutline \/ Snapshot(t) = job.request
  BY <1>1 DEF Snapshot, SlotOK, CarriesRow
<1>4. job.request # NoRequest => Snapshot(t) # NoRequest
  BY DEF Snapshot, Expands
<1>5. CASE Check(t)
  <2>1. RowOK' /\ Grows /\ UNCHANGED job
    BY <1>5, SameRow DEF Check, world
  <2>2. CASE Go(t, "cancelling") /\ Note(t, Kept(t))
    BY <1>1, <2>1, <2>2, KeptIs, BegunSlot, OthersStay DEF SlotOK, CarriesRow
  <2>3. CASE Go(t, After[pc[t]]) /\ UNCHANGED loc
    <3>1. KnowsWhat(t)' /\ RetryKnows(t)'
      BY <1>1, <1>2, <1>5, <2>1, <2>3 DEF Check, After, Go, SlotOK, KnowsWhat, RetryKnows, ExpandSteps
    <3>2. QED
      BY <2>1, <2>3, <3>1, GoesSlot, OthersStay
  <2>4. QED
    BY <1>5, <2>2, <2>3 DEF Check
<1>6. ASSUME NEW ph \in {"CANCELLED", "FAILED"}, NEW ca, Ends(t), UNCHANGED <<file, pushed>>,
             job' = [job EXCEPT !.phase = ph, !.cancel = ca, !.request = Snapshot(t)]
      PROVE  RowOK' /\ \A u \in Task : SlotOK(u)'
  <2>1. /\ job'.phase = ph /\ job'.request = Snapshot(t) /\ job'.outline = job.outline
        /\ job'.completed = job.completed
    BY <1>2, <1>6 DEF JobRow
  <2>2. RowOK' /\ Grows
    BY <1>4, <1>6, <2>1, RowWritten DEF Expanded
  <2>3. QED
    BY <1>6, <2>2, EndedSlot, OthersStay
<1>7. CASE Cancelled(t)
  BY <1>6, <1>7 DEF Cancelled, world
<1>8. CASE Failed(t)
  <2>1. job' = [job EXCEPT !.phase = "FAILED", !.cancel = job.cancel, !.request = Snapshot(t)]
    BY <1>2, <1>8 DEF Failed, JobRow
  <2>2. QED
    BY <1>6, <1>8, <2>1 DEF Failed, world
<1>9. CASE OBegin(t)
  <2>1. /\ job' = [job EXCEPT !.phase = "CONVERTING", !.cancel = FALSE]
        /\ UNCHANGED <<world, loc>> /\ pc[t] = "oBegin" /\ Go(t, "oCheck")
    BY <1>9 DEF OBegin
  <2>2. /\ job'.phase = "CONVERTING" /\ job'.request = job.request /\ job'.outline = job.outline
        /\ job'.completed = job.completed
    BY <1>2, <2>1 DEF JobRow
  <2>3. RowOK' /\ Grows
    BY <2>1, <2>2, RowWritten DEF Expanded, world
  <2>4. KnowsWhat(t)' /\ RetryKnows(t)'
    BY <1>2, <2>1 DEF Go, KnowsWhat, RetryKnows, ExpandSteps
  <2>5. QED
    BY <2>1, <2>3, <2>4, GoesSlot, OthersStay
<1>10. CASE OConvert(t)
  <2>1. RowOK' /\ Grows /\ UNCHANGED loc
    BY <1>10, SameRow DEF OConvert, world
  <2>2. PICK p \in {"oRecheck", "failing"} : Go(t, p)
    BY <1>10 DEF OConvert
  <2>3. KnowsWhat(t)' /\ RetryKnows(t)'
    BY <1>2, <2>2 DEF Go, KnowsWhat, RetryKnows, ExpandSteps
  <2>4. QED
    BY <2>1, <2>2, <2>3, GoesSlot, OthersStay
<1>11. CASE OOutline(t)
  <2>1. RowOK' /\ Grows
    BY <1>11, SameRow DEF OOutline, world
  <2>2. ASSUME NEW o \in Outlines, Go(t, "oSave"), Note(t, [Fresh(t) EXCEPT !.outline = o])
        PROVE  \A u \in Task : SlotOK(u)'
    <3>1. pc'[t] = "oSave" /\ loc'[t] = [Fresh(t) EXCEPT !.outline = o]
      BY <1>2, <2>2 DEF Go, Note
    <3>2. /\ loc'[t].seen = NewJob /\ loc'[t].done = {} /\ loc'[t].stage = NoStage
          /\ loc'[t].req = NoRequest /\ loc'[t].outline = o
      BY <3>1 DEF Fresh, Blank
    <3>3. CarriesRow(t)'
      BY <3>2 DEF CarriesRow, PhaseOK, NewJob, NoStage, Expanded
    <3>4. o # NoOutline
      BY CourseAssumption
    <3>5. SlotOK(t)'
      BY <3>1, <3>2, <3>3, <3>4 DEF SlotOK, KnowsWhat, RetryKnows, ExpandSteps
    <3>6. QED
      BY <1>2, <2>1, <2>2, <3>5, OthersStay DEF Go, Note
  <2>3. CASE Go(t, "failing") /\ UNCHANGED loc
    <3>1. KnowsWhat(t)' /\ RetryKnows(t)'
      BY <1>2, <2>3 DEF Go, KnowsWhat, RetryKnows, ExpandSteps
    <3>2. QED
      BY <2>1, <2>3, <3>1, GoesSlot, OthersStay
  <2>4. QED
    BY <1>11, <2>1, <2>2, <2>3 DEF OOutline
<1>12. CASE OSave(t)
  <2>1. /\ job' = [job EXCEPT !.phase = "OUTLINE_READY", !.outline = loc[t].outline, !.cancel = FALSE]
        /\ UNCHANGED pushed /\ Ends(t) /\ loc[t].outline # NoOutline
    BY <1>1, <1>12 DEF OSave, SlotOK, KnowsWhat
  <2>2. /\ job'.phase = "OUTLINE_READY" /\ job'.request = job.request /\ job'.outline = loc[t].outline
        /\ job'.completed = job.completed
    BY <1>2, <2>1 DEF JobRow
  <2>3. RowOK' /\ Grows
    BY <1>1, <2>1, <2>2 DEF RowOK, PhaseOK, Stored, Grows, Expanded
  <2>4. QED
    BY <2>1, <2>3, EndedSlot, OthersStay
<1>13. QED
  BY <1>5, <1>7, <1>8, <1>9, <1>10, <1>11, <1>12

\* A task goes on with some fields of its record changed, none of which
\* carries more than the row.
LEMMA MovedSlot ==
  ASSUME Inv, Grows, NEW t \in Task, NEW p, NEW l, Go(t, p), Note(t, l),
         l.req = loc[t].req, l.seen = loc[t].seen,
         l.done \subseteq Stored', \A c \in Chapter : l.stage[c] = "ok" => c \in Stored',
         KnowsWhat(t)', RetryKnows(t)'
  PROVE  SlotOK(t)' /\ \A u \in Task \ {t} : pc'[u] = pc[u] /\ loc'[u] = loc[u]
<1>1. pc \in [Task -> PC] /\ loc \in [Task -> Local]
  BY DEF Inv, TypeOK
<1>2. pc'[t] = p /\ loc'[t] = l
  BY <1>1 DEF Go, Note
<1>3. CarriesRow(t)'
  BY <1>2, GrowsStored DEF Inv, SlotOK, CarriesRow, Grows, PhaseOK
<1>4. QED
  BY <1>1, <1>3 DEF SlotOK, Go, Note

LEMMA ExpandKeeps1 ==
  ASSUME Inv, NEW t \in Task, WorldOK', SlotsOK',
         XBegin(t) \/ XShell(t) \/ XSave(t) \/ XFinish(t) \/ XPlan(t)
  PROVE  RowOK' /\ \A u \in Task : SlotOK(u)'
<1>1. TypeOK /\ RowOK /\ SlotOK(t)
  BY DEF Inv
<1>2. pc \in [Task -> PC] /\ loc \in [Task -> Local] /\ job \in JobRow
  BY <1>1 DEF TypeOK
<1>3. loc[t].req # NoRequest /\ job.outline # NoOutline /\ job.request # NoRequest
  BY <1>1 DEF XBegin, XShell, XSave, XFinish, XPlan, SlotOK, KnowsWhat, CarriesRow, ExpandSteps
<1>4. CASE XBegin(t)
  <2>1. /\ job' = [job EXCEPT !.phase = "EXPANDING", !.request = loc[t].req, !.cancel = FALSE]
        /\ UNCHANGED <<world, loc>> /\ Go(t, "xCheck")
    BY <1>4 DEF XBegin
  <2>2. /\ job'.phase = "EXPANDING" /\ job'.request = loc[t].req /\ job'.outline = job.outline
        /\ job'.completed = job.completed
    BY <1>2, <2>1 DEF JobRow
  <2>3. RowOK' /\ Grows
    BY <1>3, <2>1, <2>2, RowWritten DEF world
  <2>4. KnowsWhat(t)' /\ RetryKnows(t)'
    BY <1>2, <1>3, <2>1 DEF Go, KnowsWhat, RetryKnows, ExpandSteps
  <2>5. QED
    BY <2>1, <2>3, <2>4, GoesSlot, OthersStay
<1>5. CASE XShell(t)
  <2>1. RowOK' /\ Grows
    BY <1>5, SameRow DEF XShell
  <2>2. ASSUME NEW k \in Course, Note(t, [loc[t] EXCEPT !.course = k]), Go(t, "xSave")
        PROVE  \A u \in Task : SlotOK(u)'
    <3> DEFINE l == [loc[t] EXCEPT !.course = k]
    <3>1. loc[t] \in Local
      BY <1>2
    <3>2. /\ l.req = loc[t].req /\ l.seen = loc[t].seen /\ l.done = loc[t].done /\ l.stage = loc[t].stage
          /\ l.course = k
      BY <3>1 DEF Local
    <3>3. Note(t, l)
      BY <2>2
    <3> HIDE DEF l
    <3>4. pc'[t] = "xSave" /\ loc'[t] = l
      BY <1>2, <2>2, <3>3 DEF Go, Note
    <3>5. KnowsWhat(t)' /\ RetryKnows(t)'
      BY <1>3, <3>2, <3>4 DEF KnowsWhat, RetryKnows, ExpandSteps
    <3>6. l.done \subseteq Stored' /\ \A c \in Chapter : l.stage[c] = "ok" => c \in Stored'
      BY <1>1, <2>1, <3>2, GrowsStored DEF SlotOK, CarriesRow
    <3>7. QED
      BY <2>1, <2>2, <3>2, <3>3, <3>5, <3>6, MovedSlot, OthersStay
  <2>3. CASE Go(t, "failing") /\ UNCHANGED loc
    <3>1. KnowsWhat(t)' /\ RetryKnows(t)'
      BY <1>2, <2>3 DEF Go, KnowsWhat, RetryKnows, ExpandSteps
    <3>2. QED
      BY <2>1, <2>3, <3>1, GoesSlot, OthersStay
  <2>4. \/ \E k \in Course : Note(t, [loc[t] EXCEPT !.course = k]) /\ Go(t, "xSave")
        \/ Go(t, "failing") /\ UNCHANGED loc
    <3>1. loc[t].req.course \in {NoCourse, 0} /\ 0 \in Course
      BY <1>1, LocalFields, CourseAssumption DEF NoRequest, Course
    <3>2. shells' \in 0..MaxShells
      BY DEF WorldOK
    <3>3. QED
      BY <1>5, <3>1, <3>2 DEF XShell, Course
  <2>5. QED
    BY <2>1, <2>2, <2>3, <2>4
<1>6. CASE XSave(t)
  <2>1. /\ job' = [job EXCEPT !.phase = "EXPANDING", !.course = loc[t].course]
        /\ UNCHANGED <<world, loc>> /\ Go(t, "xRecheck") /\ pc[t] = "xSave"
    BY <1>6 DEF XSave
  <2>2. /\ job'.phase = "EXPANDING" /\ job'.request = job.request /\ job'.outline = job.outline
        /\ job'.completed = job.completed
    BY <1>2, <2>1 DEF JobRow
  <2>3. RowOK' /\ Grows
    BY <1>3, <2>1, <2>2, RowWritten DEF world
  <2>4. KnowsWhat(t)' /\ RetryKnows(t)'
    BY <1>1, <1>2, <1>3, <2>1 DEF Go, SlotOK, KnowsWhat, RetryKnows, ExpandSteps
  <2>5. QED
    BY <2>1, <2>3, <2>4, GoesSlot, OthersStay
<1>7. CASE XFinish(t)
  <2>1. job' = [job EXCEPT !.phase = "COMPLETED", !.request = loc[t].req] /\ UNCHANGED world /\ Ends(t)
    BY <1>7 DEF XFinish
  <2>2. /\ job'.phase = "COMPLETED" /\ job'.request = loc[t].req /\ job'.outline = job.outline
        /\ job'.completed = job.completed
    BY <1>2, <2>1 DEF JobRow
  <2>3. RowOK' /\ Grows
    BY <1>3, <2>1, <2>2, RowWritten DEF world
  <2>4. QED
    BY <2>1, <2>3, EndedSlot, OthersStay
<1>8. CASE XPlan(t)
  <2>1. RowOK' /\ Grows /\ UNCHANGED job
    BY <1>8, SameRow DEF XPlan, world
  <2>2. CASE Go(t, "xFinish") /\ Note(t, Kept(t))
    BY <1>3, <2>1, <2>2, KeptIs, BegunSlot, OthersStay
  <2>3. ASSUME NEW T, NEW B, pc[t] = "xPlan", Go(t, "xWave"),
               Note(t, [loc[t] EXCEPT !.outline = job.outline, !.done = job.completed, !.todo = T, !.bad = B])
        PROVE  \A u \in Task : SlotOK(u)'
    <3> DEFINE l == [loc[t] EXCEPT !.outline = job.outline, !.done = job.completed, !.todo = T, !.bad = B]
    <3>1. loc[t] \in Local
      BY <1>2
    <3>2. /\ l.req = loc[t].req /\ l.seen = loc[t].seen /\ l.done = job.completed /\ l.stage = loc[t].stage
          /\ l.course = loc[t].course
      BY <3>1 DEF Local
    <3>3. Note(t, l)
      BY <2>3
    <3> HIDE DEF l
    <3>4. pc'[t] = "xWave" /\ loc'[t] = l
      BY <1>2, <2>3, <3>3 DEF Go, Note
    <3>5. KnowsWhat(t)' /\ RetryKnows(t)'
      BY <1>1, <1>3, <2>3, <3>2, <3>4 DEF SlotOK, KnowsWhat, RetryKnows, ExpandSteps
    <3>6. l.done \subseteq Stored' /\ \A c \in Chapter : l.stage[c] = "ok" => c \in Stored'
      BY <1>1, <2>1, <3>2, GrowsStored DEF SlotOK, CarriesRow, RowOK
    <3>7. QED
      BY <2>1, <2>3, <3>2, <3>3, <3>5, <3>6, MovedSlot, OthersStay
  <2>4. QED
    BY <1>8, <2>1, <2>2, <2>3 DEF XPlan
<1>9. QED
  BY <1>4, <1>5, <1>6, <1>7, <1>8

LEMMA ExpandKeeps2 ==
  ASSUME Inv, NEW t \in Task, WorldOK', SlotsOK',
         XWave(t) \/ XRecord(t) \/ \E c \in Chapter : XChapter(t, c)
  PROVE  RowOK' /\ \A u \in Task : SlotOK(u)'
<1>1. TypeOK /\ RowOK /\ SlotOK(t)
  BY DEF Inv
<1>2. pc \in [Task -> PC] /\ loc \in [Task -> Local] /\ job \in JobRow
  BY <1>1 DEF TypeOK
<1>3. /\ pc[t] \in {"xWave", "xRun"}
      /\ loc[t].req # NoRequest /\ job.outline # NoOutline /\ job.request # NoRequest
      /\ loc[t].course \in Course /\ loc[t] \in Local
  BY <1>1, <1>2 DEF XWave, XRecord, WaveOver, XChapter, SlotOK, KnowsWhat, CarriesRow, ExpandSteps
<1>4. CASE XWave(t)
  <2>1. RowOK' /\ Grows /\ UNCHANGED job
    BY <1>4, SameRow DEF XWave, world
  <2>2. CASE Go(t, "cancelling") /\ Note(t, Kept(t))
    BY <1>3, <2>1, <2>2, KeptIs, BegunSlot, OthersStay
  <2> DEFINE wave == Wave(loc[t].outline, loc[t].todo, loc[t].sched)
             stage == [c \in Chapter |-> IF c \in wave THEN "todo" ELSE "none"]
             l == [loc[t] EXCEPT !.todo = @ \ wave, !.sched = @ \cup wave, !.stage = stage]
  <2>3. ASSUME Go(t, "xRun"), Note(t, l)
        PROVE  \A u \in Task : SlotOK(u)'
    <3>1. \A c \in Chapter : stage[c] # "ok"
      OBVIOUS
    <3>2. /\ l.req = loc[t].req /\ l.seen = loc[t].seen /\ l.done = loc[t].done /\ l.stage = stage
          /\ l.course = loc[t].course
      BY <1>3 DEF Local
    <3>3. Note(t, l)
      BY <2>3
    <3> HIDE DEF l, stage
    <3>4. pc'[t] = "xRun" /\ loc'[t] = l
      BY <1>2, <2>3, <3>3 DEF Go, Note
    <3>5. KnowsWhat(t)' /\ RetryKnows(t)'
      BY <1>3, <3>2, <3>4 DEF KnowsWhat, RetryKnows, ExpandSteps
    <3>6. l.done \subseteq Stored' /\ \A c \in Chapter : l.stage[c] = "ok" => c \in Stored'
      BY <1>1, <2>1, <3>1, <3>2, GrowsStored DEF SlotOK, CarriesRow
    <3>7. QED
      BY <2>1, <2>3, <3>2, <3>3, <3>5, <3>6, MovedSlot, OthersStay
  <2>4. \/ Go(t, "cancelling") /\ Note(t, Kept(t))
        \/ Go(t, "xRun") /\ Note(t, l)
    BY <1>4 DEF XWave
  <2> HIDE DEF l
  <2>5. QED
    BY <2>1, <2>2, <2>3, <2>4
<1>5. CASE XRecord(t)
  <2>1. /\ job' = [job EXCEPT !.completed = Done(t), !.failed = Bad(t)] /\ UNCHANGED world
        /\ Done(t) \subseteq Stored
    <3>1. Done(t) \subseteq Stored
      BY <1>1 DEF SlotOK, CarriesRow, Done
    <3>2. QED
      BY <1>5, <3>1, RecordDef
  <2>2. /\ job'.phase = job.phase /\ job'.request = job.request /\ job'.outline = job.outline
        /\ job'.completed = Done(t)
    BY <1>2, <2>1 DEF JobRow
  <2>3. RowOK' /\ Grows
    BY <1>1, <2>1, <2>2 DEF RowOK, PhaseOK, Stored, Grows, world
  <2>4. CASE Go(t, "xFinish") /\ Note(t, Kept(t))
    BY <1>3, <2>2, <2>3, <2>4, KeptIs, BegunSlot, OthersStay
  <2>5. ASSUME Go(t, "xWave"), Note(t, [loc[t] EXCEPT !.done = Done(t), !.bad = Bad(t), !.stage = NoStage])
        PROVE  \A u \in Task : SlotOK(u)'
    <3> DEFINE l == [loc[t] EXCEPT !.done = Done(t), !.bad = Bad(t), !.stage = NoStage]
    <3>2. /\ l.req = loc[t].req /\ l.seen = loc[t].seen /\ l.done = Done(t) /\ l.stage = NoStage
          /\ l.course = loc[t].course
      BY <1>3 DEF Local
    <3>3. Note(t, l)
      BY <2>5
    <3> HIDE DEF l
    <3>4. pc'[t] = "xWave" /\ loc'[t] = l
      BY <1>2, <2>5, <3>3 DEF Go, Note
    <3>5. KnowsWhat(t)' /\ RetryKnows(t)'
      BY <1>3, <2>2, <3>2, <3>4 DEF KnowsWhat, RetryKnows, ExpandSteps
    <3>6. l.done \subseteq Stored' /\ \A c \in Chapter : l.stage[c] = "ok" => c \in Stored'
      BY <2>1, <2>3, <3>2, GrowsStored DEF NoStage
    <3>7. QED
      BY <2>3, <2>5, <3>2, <3>3, <3>5, <3>6, MovedSlot, OthersStay
  <2>6. QED
    BY <1>5, <2>3, <2>4, <2>5, RecordDef
<1>6. ASSUME NEW c \in Chapter, XChapter(t, c) PROVE RowOK' /\ \A u \in Task : SlotOK(u)'
  <2>1. /\ UNCHANGED <<job, file, pc>> /\ pc[t] = "xRun" /\ pushed \subseteq pushed'
        /\ \E e \in Stage :
             /\ Note(t, [loc[t] EXCEPT !.stage[c] = e])
             /\ e = "ok" => <<loc[t].course, c>> \in pushed'
    <3>1. CASE \E e \in {"plain", "draft"} : Note(t, [loc[t] EXCEPT !.stage[c] = e]) /\ UNCHANGED pushed
      BY <1>6, <3>1 DEF XChapter, Stage
    <3>2. ASSUME NEW e \in {"ok", "plain", "cached"}, WriteAndPush(loc[t].course, c, e),
                 Note(t, [loc[t] EXCEPT !.stage[c] = e])
          PROVE  /\ pushed \subseteq pushed' /\ e \in Stage
                 /\ e = "ok" => <<loc[t].course, c>> \in pushed'
      BY <1>1, <1>3, <3>2, PushType DEF Stage
    <3>3. QED
      BY <1>6, <3>1, <3>2 DEF XChapter
  <2>2. RowOK' /\ Grows
    BY <1>1, <2>1 DEF RowOK, PhaseOK, Stored, Grows
  <2>3. PICK e \in Stage :
          /\ Note(t, [loc[t] EXCEPT !.stage[c] = e])
          /\ e = "ok" => <<loc[t].course, c>> \in pushed'
    BY <2>1
  <2> DEFINE l == [loc[t] EXCEPT !.stage[c] = e]
  <2>4. /\ l.req = loc[t].req /\ l.seen = loc[t].seen /\ l.done = loc[t].done
        /\ l.course = loc[t].course /\ l.stage = [loc[t].stage EXCEPT ![c] = e]
    BY <1>3 DEF Local
  <2>5. Note(t, l)
    BY <2>3
  <2>10. Go(t, "xRun")
    BY <1>2, <2>1 DEF Go
  <2> HIDE DEF l
  <2>6. pc'[t] = "xRun" /\ loc'[t] = l
    BY <1>2, <2>1, <2>5 DEF Note
  <2>7. KnowsWhat(t)' /\ RetryKnows(t)'
    BY <1>3, <2>1, <2>4, <2>6 DEF KnowsWhat, RetryKnows, ExpandSteps
  <2>8. l.done \subseteq Stored' /\ \A d \in Chapter : l.stage[d] = "ok" => d \in Stored'
    <3>1. l.done \subseteq Stored' /\ \A d \in Chapter : loc[t].stage[d] = "ok" => d \in Stored'
      BY <1>1, <2>2, <2>4, GrowsStored DEF SlotOK, CarriesRow
    <3>2. e = "ok" => c \in Stored'
      <4>1. e = "ok" => <<loc[t].course, c>> \in pushed'
        BY <2>3
      <4>2. QED
        BY <1>3, <4>1 DEF Stored
    <3>3. loc[t].stage \in [Chapter -> Stage]
      BY <1>3 DEF Local
    <3>4. QED
      BY <2>4, <3>1, <3>2, <3>3
  <2>9. QED
    BY <2>2, <2>4, <2>5, <2>7, <2>8, <2>10, MovedSlot, OthersStay
<1>7. QED
  BY <1>4, <1>5, <1>6

\* A retry notes how its chapter stands.
LEMMA StageSlot ==
  ASSUME Inv, Grows, NEW t \in Task, NEW p \in {"rFail", "rDo", "rCheck"}, NEW e \in {"ok", "plain", "cached"},
         Go(t, p), Note(t, [loc[t] EXCEPT !.stage[loc[t].ch] = e]),
         e = "ok" => p = "rCheck" /\ loc[t].ch \in Stored',
         p = "rDo" => loc[t].course \in Course
  PROVE  \A u \in Task : SlotOK(u)'
<1> DEFINE l == [loc[t] EXCEPT !.stage[loc[t].ch] = e]
<1>1. pc \in [Task -> PC] /\ loc \in [Task -> Local] /\ loc[t] \in Local /\ SlotOK(t)
  BY DEF Inv, TypeOK
<1>2. /\ l.req = loc[t].req /\ l.seen = loc[t].seen /\ l.done = loc[t].done /\ l.course = loc[t].course
      /\ l.stage = [loc[t].stage EXCEPT ![loc[t].ch] = e] /\ l.ch = loc[t].ch
  BY <1>1 DEF Local
<1>3. Note(t, l)
  OBVIOUS
<1> HIDE DEF l
<1>4. pc'[t] = p /\ loc'[t] = l
  BY <1>1, <1>3 DEF Go, Note
<1>5. loc[t].stage \in [Chapter -> Stage] /\ loc[t].ch \in Chapter
  BY <1>1 DEF Local
<1>6. KnowsWhat(t)' /\ RetryKnows(t)'
  BY <1>2, <1>4, <1>5 DEF KnowsWhat, RetryKnows, ExpandSteps
<1>7. l.done \subseteq Stored' /\ \A c \in Chapter : l.stage[c] = "ok" => c \in Stored'
  BY <1>1, <1>2, <1>5, GrowsStored DEF SlotOK, CarriesRow
<1>8. QED
  BY <1>2, <1>3, <1>6, <1>7, MovedSlot, OthersStay

LEMMA RetryKeeps1 ==
  ASSUME Inv, NEW t \in Task, WorldOK', SlotsOK', RBegin(t) \/ RLook(t) \/ RDo(t)
  PROVE  RowOK' /\ \A u \in Task : SlotOK(u)'
<1>1. TypeOK /\ RowOK /\ SlotOK(t)
  BY DEF Inv
<1>2. pc \in [Task -> PC] /\ loc \in [Task -> Local] /\ loc[t] \in Local
  BY <1>1 DEF TypeOK
<1>3. CASE RBegin(t)
  <2>1. RowOK' /\ Grows
    BY <1>3, SameRow DEF RBegin, world
  <2> DEFINE l == [loc[t] EXCEPT !.course = job.course]
  <2>2. l.req = loc[t].req /\ l.seen = loc[t].seen /\ l.done = loc[t].done /\ l.stage = loc[t].stage
    BY <1>2 DEF Local
  <2>3. PICK p \in {"cancelling", "rLook"} : Go(t, p)
    BY <1>3 DEF RBegin
  <2>4. Note(t, l)
    BY <1>3 DEF RBegin
  <2> HIDE DEF l
  <2>5. KnowsWhat(t)' /\ RetryKnows(t)'
    BY <1>2, <2>3 DEF Go, KnowsWhat, RetryKnows, ExpandSteps
  <2>6. l.done \subseteq Stored' /\ \A c \in Chapter : l.stage[c] = "ok" => c \in Stored'
    BY <1>1, <2>1, <2>2, GrowsStored DEF SlotOK, CarriesRow
  <2>7. QED
    BY <2>1, <2>2, <2>3, <2>4, <2>5, <2>6, MovedSlot, OthersStay
<1>4. CASE RLook(t)
  <2>1. RowOK' /\ Grows
    BY <1>4, SameRow DEF RLook, world
  <2>2. PICK e \in {"plain", "cached"} : Note(t, [loc[t] EXCEPT !.stage[loc[t].ch] = e])
    BY <1>4 DEF RLook
  <2>3. PICK p \in {"rFail", "rDo"} : Go(t, p) /\ (p = "rDo" => loc[t].course # NoCourse)
    BY <1>4 DEF RLook
  <2>4. loc[t].course # NoCourse => loc[t].course \in Course
    BY <1>2 DEF Local
  <2>5. QED
    BY <2>1, <2>2, <2>3, <2>4, StageSlot
<1>5. CASE RDo(t)
  <2>1. UNCHANGED <<job, file>> /\ pc[t] = "rDo"
    BY <1>5 DEF RDo
  <2>2. CASE Go(t, "rFail") /\ UNCHANGED <<pushed, loc>>
    <3>1. RowOK' /\ Grows
      BY <2>1, <2>2, SameRow
    <3>2. KnowsWhat(t)' /\ RetryKnows(t)'
      BY <1>1, <1>2, <2>1, <2>2 DEF SlotOK, Go, KnowsWhat, RetryKnows, ExpandSteps
    <3>3. QED
      BY <2>2, <3>1, <3>2, GoesSlot, OthersStay
  <2>3. ASSUME NEW e \in {"ok", "plain", "cached"}, Go(t, "rCheck"), Note(t, [loc[t] EXCEPT !.stage[loc[t].ch] = e]),
               Push(loc[t].course, loc[t].ch, e) \/ (e = "plain" /\ UNCHANGED pushed)
        PROVE  RowOK' /\ \A u \in Task : SlotOK(u)'
    <3>1. loc[t].course \in Course /\ loc[t].ch \in Chapter
      BY <1>1, <1>2, <2>1 DEF SlotOK, KnowsWhat, Local
    <3>2. pushed \subseteq pushed' /\ (e = "ok" => <<loc[t].course, loc[t].ch>> \in pushed')
      BY <1>1, <2>3, <3>1, PushType
    <3>3. RowOK' /\ Grows
      BY <1>1, <2>1, <3>2 DEF RowOK, PhaseOK, Stored, Grows
    <3>4. e = "ok" => loc[t].ch \in Stored'
      BY <3>1, <3>2 DEF Stored
    <3>5. QED
      BY <2>3, <3>3, <3>4, StageSlot
  <2>4. QED
    BY <1>5, <2>2, <2>3 DEF RDo
<1>6. QED
  BY <1>3, <1>4, <1>5

LEMMA RetryKeeps2 ==
  ASSUME Inv, NEW t \in Task, WorldOK', SlotsOK', RRead(t) \/ RWrite(t) \/ RFailWrite(t) \/ RClose(t)
  PROVE  RowOK' /\ \A u \in Task : SlotOK(u)'
<1>1. TypeOK /\ RowOK /\ SlotOK(t)
  BY DEF Inv
<1>2. pc \in [Task -> PC] /\ loc \in [Task -> Local] /\ loc[t] \in Local /\ job \in JobRow
  BY <1>1 DEF TypeOK
<1>3. CASE RRead(t)
  <2>1. RowOK' /\ Grows /\ UNCHANGED <<job, pushed>>
    BY <1>3, SameRow DEF RRead, world
  <2> DEFINE seen == [NewJob EXCEPT !.phase = job.phase, !.completed = job.completed, !.failed = job.failed]
             l == [loc[t] EXCEPT !.seen = seen]
  <2>2. seen.phase = job.phase /\ seen.completed = job.completed /\ seen.outline = NoOutline
    BY DEF NewJob
  <2> HIDE DEF seen
  <2>3. /\ l.req = loc[t].req /\ l.seen = seen /\ l.done = loc[t].done /\ l.stage = loc[t].stage
        /\ l.course = loc[t].course /\ l.ch = loc[t].ch
    BY <1>2 DEF Local
  <2>4. Note(t, l)
    BY <1>3 DEF RRead, seen
  <2> HIDE DEF l
  <2>5. loc'[t] = l /\ \A u \in Task \ {t} : loc'[u] = loc[u]
    BY <1>2, <2>4 DEF Note
  <2>6. CarriesRow(t)'
    BY <1>1, <2>1, <2>2, <2>3, <2>5 DEF SlotOK, CarriesRow, RowOK, PhaseOK, Stored
  <2>7. PICK p \in {"rWrite", "rClose", "rFailWrite"} :
          /\ Go(t, p)
          /\ p = "rWrite" => pc[t] = "rRead"
          /\ p = "rFailWrite" => pc[t] = "rFail"
    BY <1>3 DEF RRead
  <2>8. pc'[t] = p /\ \A u \in Task \ {t} : pc'[u] = pc[u]
    BY <1>2, <2>7 DEF Go
  <2>9. KnowsWhat(t)' /\ RetryKnows(t)'
    BY <1>1, <2>3, <2>5, <2>7, <2>8 DEF SlotOK, KnowsWhat, RetryKnows, ExpandSteps
  <2>10. QED
    BY <2>1, <2>5, <2>6, <2>8, <2>9, OthersStay DEF SlotOK
<1>4. loc[t].seen.completed \subseteq Stored /\ PhaseOK(loc[t].seen.phase)
  BY <1>1 DEF SlotOK, CarriesRow
<1>5. ASSUME NEW C \in SUBSET Stored, NEW F, job' = [job EXCEPT !.completed = C, !.failed = F], UNCHANGED world
      PROVE  RowOK' /\ Grows
  <2>1. /\ job'.phase = job.phase /\ job'.request = job.request /\ job'.outline = job.outline
        /\ job'.completed = C
    BY <1>2, <1>5 DEF JobRow
  <2>2. QED
    BY <1>1, <1>5, <2>1 DEF RowOK, PhaseOK, Stored, Grows, world
<1>6. CASE RWrite(t)
  <2> DEFINE ok == loc[t].stage[loc[t].ch] = "ok"
             C == IF ok THEN loc[t].seen.completed \cup {loc[t].ch} ELSE loc[t].seen.completed
             F == [loc[t].seen.failed EXCEPT ![loc[t].ch] = IF ok THEN "no" ELSE loc[t].stage[loc[t].ch]]
  <2>1. /\ job' = [job EXCEPT !.completed = C, !.failed = F] /\ UNCHANGED world
        /\ Go(t, "rReread") /\ Note(t, Fresh(t))
    BY <1>6 DEF RWrite
  <2>2. loc[t].ch \in Chapter
    BY <1>2 DEF Local
  <2>3. C \in SUBSET Stored
    BY <1>1, <1>4, <2>2 DEF SlotOK, CarriesRow
  <2> HIDE DEF C, F, ok
  <2>4. RowOK' /\ Grows
    BY <1>5, <2>1, <2>3
  <2>5. QED
    BY <2>1, <2>4, KeptIs, BegunSlot, OthersStay
<1>7. CASE RFailWrite(t)
  <2> DEFINE F == [loc[t].seen.failed EXCEPT ![loc[t].ch] = loc[t].stage[loc[t].ch]]
  <2>1. /\ job' = [job EXCEPT !.completed = loc[t].seen.completed, !.failed = F] /\ UNCHANGED <<world, loc>>
        /\ Go(t, "rFailClose")
    BY <1>7 DEF RFailWrite
  <2> HIDE DEF F
  <2>2. RowOK' /\ Grows
    BY <1>4, <1>5, <2>1
  <2>3. KnowsWhat(t)' /\ RetryKnows(t)'
    BY <1>2, <2>1 DEF Go, KnowsWhat, RetryKnows, ExpandSteps
  <2>4. QED
    BY <2>1, <2>2, <2>3, GoesSlot, OthersStay
<1>8. CASE RClose(t)
  <2>1. job' = [job EXCEPT !.phase = loc[t].seen.phase] /\ UNCHANGED world /\ Ends(t)
    BY <1>8 DEF RClose
  <2>2. /\ job'.phase = loc[t].seen.phase /\ job'.request = job.request /\ job'.outline = job.outline
        /\ job'.completed = job.completed
    BY <1>2, <2>1 DEF JobRow
  <2>3. RowOK' /\ Grows
    BY <1>4, <2>1, <2>2, RowWritten DEF world, PhaseOK
  <2>4. QED
    BY <2>1, <2>3, EndedSlot, OthersStay
<1>9. QED
  BY <1>3, <1>6, <1>7, <1>8

-----------------------------------------------------------------------------
(* The invariant holds in every state *)

LEMMA InitInv == Init => Inv
<1>1. SUFFICES ASSUME Init PROVE Inv
  OBVIOUS
<1>2. PICK t \in Task, w \in Worker :
        /\ pc = [u \in Task |-> IF u = t THEN "oBegin" ELSE "idle"]
        /\ loc = [u \in Task |-> IF u = t THEN [Blank EXCEPT !.at = w] ELSE Blank]
  BY <1>1 DEF Init
<1>3. "oBegin" \in PC /\ "idle" \in PC /\ w # Nowhere /\ Blank.at = Nowhere
  BY Taken, CourseAssumption DEF PC, TaskSteps, Begins, Blank
<1>4. [Blank EXCEPT !.at = w] \in Local /\ [Blank EXCEPT !.at = w].at = w
  BY BlankType DEF Local
<1>5. SlotsOK
  BY <1>2, <1>3, <1>4, BlankType DEF SlotsOK
<1>6. TypeOK
  BY <1>1, <1>5, BlankType, CourseAssumption DEF TypeOK, SlotsOK, Init
<1>7. RowOK
  BY <1>1 DEF Init, RowOK, PhaseOK, NewJob, Expanded
<1>8. ASSUME NEW u \in Task PROVE SlotOK(u)
  <2>1. pc[u] \in {"idle", "oBegin"}
    BY <1>2
  <2>2. loc[u].seen = NewJob /\ loc[u].done = {} /\ loc[u].stage = NoStage /\ loc[u].req = NoRequest
    BY <1>2 DEF Blank
  <2>3. CarriesRow(u)
    BY <2>2 DEF CarriesRow, PhaseOK, NewJob, NoStage, Expanded
  <2>4. QED
    BY <2>1, <2>3 DEF SlotOK, KnowsWhat, RetryKnows, ExpandSteps
<1>9. QED
  BY <1>6, <1>7, <1>8 DEF Inv

LEMMA NextInv == Inv /\ [Next]_vars => Inv'
<1>1. SUFFICES ASSUME Inv, [Next]_vars PROVE Inv'
  OBVIOUS
<1>2. CASE UNCHANGED vars
  BY <1>1, <1>2 DEF Inv, TypeOK, RowOK, SlotOK, PhaseOK, CarriesRow, KnowsWhat, RetryKnows, Stored, vars, world
<1>3. CASE Next
  <2>1. TypeOK
    BY <1>1 DEF Inv
  <2>2. past' \subseteq {"overlap", "adrift"}
    BY <1>3, <2>1 DEF Next, TypeOK, Event
  <2>3. ASSUME NEW t \in Task, Step(t) PROVE WorldOK' /\ SlotsOK' /\ RowOK' /\ \A u \in Task : SlotOK(u)'
    <3>1. RetryKnows(t)
      BY <1>1 DEF Inv, SlotOK
    <3>2. WorldOK' /\ SlotsOK'
      BY <2>1, <2>3, <3>1, RequestType, OutlineType, ExpandType1, ExpandType2, RetryType DEF Step
    <3>3. QED
      BY <1>1, <2>3, <3>2, RequestsKeep, OutlineKeeps, ExpandKeeps1, ExpandKeeps2, RetryKeeps1, RetryKeeps2 DEF Step
  <2>4. ASSUME NEW t \in Task, NEW w \in Worker, Ask(t, w)
        PROVE  WorldOK' /\ SlotsOK' /\ RowOK' /\ \A u \in Task : SlotOK(u)'
    BY <1>1, <2>1, <2>4, AsksType, AsksKeep
  <2>5. ASSUME NEW w \in Worker,
               Crash(w) \/ Stop(w) \/ \E t \in Task, stale \in BOOLEAN : Start(t, w, stale)
        PROVE  WorldOK' /\ SlotsOK' /\ RowOK' /\ \A u \in Task : SlotOK(u)'
    <3>1. WorldOK' /\ SlotsOK'
      BY <2>1, <2>5, WorkerType
    <3>2. QED
      BY <1>1, <2>5, <3>1, WorkersKeep
  <2>6. WorldOK' /\ SlotsOK' /\ RowOK' /\ \A u \in Task : SlotOK(u)'
    BY <1>3, <2>3, <2>4, <2>5 DEF Next
  <2>7. TypeOK'
    BY <2>2, <2>6 DEF TypeOK, WorldOK, SlotsOK
  <2>8. QED
    BY <2>6, <2>7 DEF Inv
<1>4. QED
  BY <1>1, <1>2, <1>3

LEMMA AlwaysInv == Spec => []Inv
BY InitInv, NextInv, PTL DEF Spec

\* The row, the slots and what the LMS holds keep their types, and a slot has
\* a worker exactly while a request or a task runs in it.
THEOREM TypeCorrect == Spec => []TypeOK
<1>1. Inv => TypeOK
  BY DEF Inv
<1>2. QED
  BY <1>1, AlwaysInv, PTL

\* A job can always go on: it has its document until it has an outline, and
\* every phase of the expansion, which a recovery or a resumption starts over
\* from the row alone, has the outline and the teacher's snapshot.
THEOREM JobsGoOn == Spec => []Recoverable
<1>1. Inv => Recoverable
  BY DEF Inv, RowOK, PhaseOK, Recoverable, Expanded
<1>2. QED
  BY <1>1, AlwaysInv, PTL

\* A chapter the row lists as completed is in a course of the LMS, with any
\* number of expansions and retries that write their lists over each other.
THEOREM CompletedIsPushed == Spec => []CompletedArePushed
<1>1. Inv => CompletedArePushed
  BY DEF Inv, RowOK, Stored, CompletedArePushed
<1>2. QED
  BY <1>1, AlwaysInv, PTL

-----------------------------------------------------------------------------
(* No chapter is lost *)

\* The chapters a row tells the teacher about.
Covered(row) == row.completed \cup {c \in Chapter : row.failed[c] # "no"}

AllCovered == job.request.chapters \subseteq Covered(job)

\* No task runs beside an expansion.
Alone == \A t, u \in Task : t # u /\ Expands(t) => pc[u] \notin TaskSteps

Retrying == {"rBegin", "rLook", "rDo", "rCheck", "rRead", "rWrite", "rFail", "rFailWrite"}
Closing == {"rClose", "rFailWrite", "rFailClose"}

\* An expansion accounts for every chapter approved, in its lists or in its
\* waves; a retry writes back lists that cover what the row covers, however
\* old they are, and a phase that is still true.
KeepsChapters(t) ==
  /\ pc[t] \in Retrying => loc[t].ch \in Covered(job)
  /\ pc[t] \in {"rWrite", "rFailWrite"} => Covered(loc[t].seen) = Covered(job)
  /\ pc[t] \in Closing /\ loc[t].seen.phase = "COMPLETED" => AllCovered
  /\ pc[t] \in {"xBegin"} \cup ExpandSteps => job.phase # "COMPLETED"
  /\ pc[t] \in {"xWave", "xRun"} =>
       \A c \in loc[t].req.chapters :
         \/ c \in loc[t].done \cup loc[t].todo
         \/ loc[t].bad[c] # "no"
         \/ pc[t] = "xRun" /\ loc[t].stage[c] # "none"
  /\ pc[t] = "xFinish" => loc[t].req.chapters \subseteq Covered(job)

Chapters == (job.phase = "COMPLETED" => AllCovered) /\ \A t \in Task : KeepsChapters(t)

\* A slot about which KeepsChapters says nothing.
LEMMA Untold ==
  ASSUME NEW t, pc'[t] \notin Retrying \cup Closing \cup {"xBegin"} \cup ExpandSteps
  PROVE  KeepsChapters(t)'
BY DEF KeepsChapters, Retrying, Closing, ExpandSteps

\* A slot that stays, in a step that covers as much.
LEMMA Told ==
  ASSUME NEW u, KeepsChapters(u), pc'[u] = pc[u], loc'[u] = loc[u], job'.request = job.request,
         Covered(job') = Covered(job), job'.phase = job.phase \/ job'.phase # "COMPLETED"
  PROVE  KeepsChapters(u)'
BY DEF KeepsChapters, AllCovered

LEMMA CalmStep ==
  ASSUME Chapters, NEW t \in Task, KeepsChapters(t)',
         \A u \in Task \ {t} : pc'[u] = pc[u] /\ loc'[u] = loc[u],
         job'.request = job.request, Covered(job') = Covered(job),
         job'.phase = job.phase \/ job'.phase # "COMPLETED"
  PROVE  Chapters'
BY Told DEF Chapters, AllCovered

\* A step of an expansion, or one that begins it.
LEMMA LonelyStep ==
  ASSUME NEW t \in Task, KeepsChapters(t)', job'.phase = "COMPLETED" => AllCovered',
         \A u \in Task \ {t} : pc'[u] = pc[u],
         Alone, Alone', Expands(t) \/ Expands(t)'
  PROVE  Chapters'
<1>1. ASSUME NEW u \in Task \ {t} PROVE KeepsChapters(u)'
  <2>1. pc'[u] \notin TaskSteps
    BY DEF Alone
  <2>2. Retrying \cup Closing \cup {"xBegin"} \cup ExpandSteps \subseteq TaskSteps
    BY DEF Retrying, Closing, TaskSteps, Begins, ExpandSteps, RetrySteps, Handlers
  <2>3. QED
    BY <2>1, <2>2, Untold
<1>2. QED
  BY <1>1 DEF Chapters

\* A step of one slot leaves the others.
LEMMA OwnSlot ==
  ASSUME TypeOK, NEW t \in Task, Step(t), ~CancelTasks(t)
  PROVE  \A u \in Task \ {t} : pc'[u] = pc[u] /\ loc'[u] = loc[u]
<1>1. pc \in [Task -> PC] /\ loc \in [Task -> Local]
  BY DEF TypeOK
<1>2. ASSUME \/ (\E p : Go(t, p)) \/ UNCHANGED pc,
             \/ (\E l : Note(t, l)) \/ UNCHANGED loc
      PROVE  \A u \in Task \ {t} : pc'[u] = pc[u] /\ loc'[u] = loc[u]
  BY <1>1, <1>2 DEF Go, Note
<1>3. /\ (\E p : Go(t, p)) \/ UNCHANGED pc
      /\ (\E l : Note(t, l)) \/ UNCHANGED loc
  <2>1. CASE Expand(t) \/ CancelReady(t) \/ CancelAsk(t) \/ ClearCancelRequest(t) \/ Resume(t)
    BY <2>1 DEF Expand, CancelReady, CancelAsk, ClearCancelRequest, Resume, Ends
  <2>2. CASE \/ Check(t) \/ Cancelled(t) \/ Failed(t)
             \/ OBegin(t) \/ OConvert(t) \/ OOutline(t) \/ OSave(t)
    BY <2>2 DEF Check, Cancelled, Failed, OBegin, OConvert, OOutline, OSave, Ends
  <2>3. CASE XBegin(t) \/ XShell(t) \/ XSave(t) \/ XPlan(t) \/ XFinish(t)
    BY <2>3 DEF XBegin, XShell, XSave, XPlan, XFinish, Ends
  <2>4. CASE XWave(t)
    BY <2>4 DEF XWave
  <2>5. CASE XRecord(t)
    BY <2>5, RecordDef
  <2>6. CASE \E c \in Chapter : XChapter(t, c)
    BY <2>6 DEF XChapter
  <2>7. CASE RBegin(t) \/ RLook(t) \/ RDo(t) \/ RRead(t) \/ RWrite(t) \/ RFailWrite(t) \/ RClose(t)
    BY <2>7 DEF RBegin, RLook, RDo, RRead, RWrite, RFailWrite, RClose, Ends
  <2>8. QED
    BY <2>1, <2>2, <2>3, <2>4, <2>5, <2>6, <2>7 DEF Step
<1>4. QED
  BY <1>2, <1>3

LEMMA InterruptChapters ==
  ASSUME Chapters, UNCHANGED job, NEW w, NEW R, Interrupt(w, R)
  PROVE  Chapters'
<1>1. SUFFICES ASSUME NEW u \in Task PROVE KeepsChapters(u)'
  BY DEF Chapters, AllCovered
<1>2. CASE pc'[u] \in {"idle", "cancelling"}
  BY <1>2, Untold DEF Retrying, Closing, ExpandSteps
<1>3. CASE pc'[u] \notin {"idle", "cancelling"}
  <2>1. loc'[u] = loc[u]
    BY <1>3 DEF Interrupt
  <2>2. pc'[u] = pc[u]
    BY <1>3 DEF Interrupt, Interrupted
  <2>3. QED
    BY <2>1, <2>2, Told DEF Chapters
<1>4. QED
  BY <1>2, <1>3

\* A step of a request or of the outline: the row keeps its lists and is not
\* completed by it.
LEMMA QuietChapters ==
  ASSUME Inv, Chapters, NEW t \in Task, Step(t),
         \/ CancelReady(t) \/ CancelAsk(t) \/ ClearCancelRequest(t)
         \/ OBegin(t) \/ OConvert(t) \/ OOutline(t) \/ OSave(t)
  PROVE  Chapters'
<1>1. pc \in [Task -> PC] /\ loc \in [Task -> Local] /\ job \in JobRow /\ TypeOK
  BY DEF Inv, TypeOK
<1>2. /\ job'.request = job.request /\ job'.completed = job.completed /\ job'.failed = job.failed
      /\ job'.phase = job.phase \/ job'.phase # "COMPLETED"
  BY <1>1 DEF CancelReady, CancelAsk, ClearCancelRequest, OBegin, OConvert, OOutline, OSave, JobRow
<1>3. Covered(job') = Covered(job)
  BY <1>2 DEF Covered
<1>4. pc'[t] \in {"idle", "cancelTasks", "resume", "oCheck", "oRecheck", "failing", "oSave"}
  BY <1>1 DEF CancelReady, CancelAsk, ClearCancelRequest, OBegin, OConvert, OOutline, OSave, Ends, Go
<1>5. KeepsChapters(t)'
  BY <1>4, Untold DEF Retrying, Closing, ExpandSteps
<1>6. ~CancelTasks(t)
  BY DEF CancelReady, CancelAsk, ClearCancelRequest, OBegin, OConvert, OOutline, OSave, CancelTasks
<1>7. QED
  BY <1>1, <1>2, <1>3, <1>5, <1>6, OwnSlot, CalmStep

\* A request that begins an expansion.
LEMMA BeginChapters ==
  ASSUME Inv, Alone, Alone', Chapters, NEW t \in Task, Step(t), Expand(t) \/ Resume(t)
  PROVE  Chapters'
<1>1. pc \in [Task -> PC] /\ loc \in [Task -> Local] /\ job \in JobRow /\ TypeOK
  BY DEF Inv, TypeOK
<1>2. \A u \in Task \ {t} : pc'[u] = pc[u] /\ loc'[u] = loc[u]
  BY <1>1, OwnSlot DEF Expand, Resume, CancelTasks
<1>3. ASSUME NEW r, r # NoRequest, job'.phase = "EXPANDING",
             Go(t, "xBegin"), Note(t, [Fresh(t) EXCEPT !.req = r])
      PROVE  Chapters'
  <2> DEFINE l == [Fresh(t) EXCEPT !.req = r]
  <2>1. l.req = r
    BY KeptIs
  <2>2. Note(t, l)
    BY <1>3
  <2> HIDE DEF l
  <2>3. pc'[t] = "xBegin" /\ loc'[t] = l
    BY <1>1, <1>3, <2>2 DEF Go, Note
  <2>4. Expands(t)'
    BY <1>3, <2>1, <2>3 DEF Expands, TaskSteps, Begins
  <2>5. KeepsChapters(t)'
    BY <1>3, <2>3 DEF KeepsChapters, Retrying, Closing
  <2>6. QED
    BY <1>2, <1>3, <2>4, <2>5, LonelyStep
<1>4. CASE Expand(t)
  <2>1. loc[t].seen.request # NoRequest
    BY <1>4 DEF Inv, SlotOK, KnowsWhat, Expand
  <2>2. job' = [job EXCEPT !.phase = "EXPANDING", !.request = loc[t].seen.request, !.cancel = FALSE]
    BY <1>4 DEF Expand
  <2>3. job'.phase = "EXPANDING"
    BY <1>1, <2>2 DEF JobRow
  <2>4. QED
    BY <1>3, <1>4, <2>1, <2>3 DEF Expand
<1>5. CASE Resume(t)
  <2>1. CASE Ends(t) /\ (UNCHANGED job \/ job' = [job EXCEPT !.phase = "OUTLINE_READY"])
    <3>1. /\ job'.request = job.request /\ job'.completed = job.completed /\ job'.failed = job.failed
          /\ job'.phase = job.phase \/ job'.phase # "COMPLETED"
      BY <1>1, <2>1 DEF JobRow
    <3>2. pc'[t] = "idle"
      BY <1>1, <2>1 DEF Ends, Go
    <3>3. Covered(job') = Covered(job)
      BY <3>1 DEF Covered
    <3>4. KeepsChapters(t)'
      BY <3>2, Untold DEF Retrying, Closing, ExpandSteps
    <3>5. QED
      BY <1>2, <3>1, <3>3, <3>4, CalmStep
  <2>2. CASE Go(t, "oBegin") /\ job' = [job EXCEPT !.phase = "CONVERTING"]
    <3>1. /\ job'.request = job.request /\ job'.completed = job.completed /\ job'.failed = job.failed
          /\ job'.phase # "COMPLETED"
      BY <1>1, <2>2 DEF JobRow
    <3>2. pc'[t] = "oBegin"
      BY <1>1, <2>2 DEF Go
    <3>3. Covered(job') = Covered(job)
      BY <3>1 DEF Covered
    <3>4. KeepsChapters(t)'
      BY <3>2, Untold DEF Retrying, Closing, ExpandSteps
    <3>5. QED
      BY <1>2, <3>1, <3>3, <3>4, CalmStep
  <2>3. CASE /\ loc[t].seen.request # NoRequest
             /\ job' = [job EXCEPT !.phase = "EXPANDING", !.request = loc[t].seen.request]
             /\ Go(t, "xBegin") /\ Note(t, [Fresh(t) EXCEPT !.req = loc[t].seen.request])
    <3>1. job'.phase = "EXPANDING"
      BY <1>1, <2>3 DEF JobRow
    <3>2. QED
      BY <1>3, <2>3, <3>1
  <2>4. QED
    BY <1>5, <2>1, <2>2, <2>3 DEF Resume
<1>6. QED
  BY <1>4, <1>5

\* The end of a task that is cancelled or fails, and a task that notices the
\* request for cancellation.
LEMMA EndChapters ==
  ASSUME Inv, Alone, Alone', Chapters, NEW t \in Task, Step(t), Check(t) \/ Cancelled(t) \/ Failed(t)
  PROVE  Chapters'
<1>1. pc \in [Task -> PC] /\ loc \in [Task -> Local] /\ job \in JobRow /\ TypeOK
  BY DEF Inv, TypeOK
<1>2. \A u \in Task \ {t} : pc'[u] = pc[u] /\ loc'[u] = loc[u]
  BY <1>1, OwnSlot DEF Check, After, Cancelled, Failed, CancelTasks
<1>3. CASE Check(t)
  <2>1. UNCHANGED job /\ Chapters
    BY <1>3 DEF Check
  <2>2. \/ pc'[t] = "cancelling"
        \/ pc[t] \in DOMAIN After /\ pc'[t] = After[pc[t]] /\ UNCHANGED loc
    BY <1>1, <1>3 DEF Check, Go
  <2>3. CASE pc'[t] = "cancelling"
    BY <2>3, Untold, <2>1, <1>2, CalmStep DEF Retrying, Closing, ExpandSteps
  <2>4. CASE pc[t] \in DOMAIN After /\ pc'[t] = After[pc[t]] /\ UNCHANGED loc
    <3>1. KeepsChapters(t)
      BY DEF Chapters
    <3>2. KeepsChapters(t)'
      BY <2>1, <2>4, <3>1 DEF KeepsChapters, After, Retrying, Closing, ExpandSteps
    <3>3. QED
      BY <2>1, <3>2, <1>2, CalmStep
  <2>5. QED
    BY <2>2, <2>3, <2>4
<1>4. CASE Cancelled(t) \/ Failed(t)
  <2>1. PICK ph \in {"CANCELLED", "FAILED"}, ca \in BOOLEAN :
          job' = [job EXCEPT !.phase = ph, !.cancel = ca, !.request = Snapshot(t)]
    <3>1. CASE Cancelled(t)
      BY <3>1 DEF Cancelled
    <3>2. CASE Failed(t)
      BY <1>1, <3>2 DEF Failed, JobRow
    <3>3. QED
      BY <1>4, <3>1, <3>2
  <2>2. /\ job'.phase # "COMPLETED" /\ job'.request = Snapshot(t)
        /\ job'.completed = job.completed /\ job'.failed = job.failed
    BY <1>1, <2>1 DEF JobRow
  <2>3. pc'[t] = "idle"
    BY <1>1, <1>4 DEF Cancelled, Failed, Ends, Go
  <2>4. KeepsChapters(t)'
    BY <2>3, Untold DEF Retrying, Closing, ExpandSteps
  <2>5. CASE Expands(t)
    BY <1>2, <2>2, <2>4, <2>5, LonelyStep
  <2>6. CASE ~Expands(t)
    <3>1. job'.request = job.request
      BY <2>2, <2>6 DEF Snapshot
    <3>2. Covered(job') = Covered(job)
      BY <2>2 DEF Covered
    <3>3. QED
      BY <1>2, <2>2, <2>4, <3>1, <3>2, CalmStep
  <2>7. QED
    BY <2>5, <2>6
<1>5. QED
  BY <1>3, <1>4

LEMMA ExpandChapters1 ==
  ASSUME Inv, Alone, Alone', Chapters, NEW t \in Task, Step(t),
         XBegin(t) \/ XShell(t) \/ XSave(t) \/ XFinish(t) \/ XPlan(t)
  PROVE  Chapters'
<1>1. pc \in [Task -> PC] /\ loc \in [Task -> Local] /\ job \in JobRow /\ TypeOK
  BY DEF Inv, TypeOK
<1>2. \A u \in Task \ {t} : pc'[u] = pc[u] /\ loc'[u] = loc[u]
  BY <1>1, OwnSlot DEF XBegin, XShell, XSave, XFinish, XPlan, CancelTasks
<1>3. pc[t] \in {"xBegin"} \cup ExpandSteps
  BY DEF XBegin, XShell, XSave, XFinish, XPlan, ExpandSteps
<1>4. Expands(t)
  <2>1. loc[t].req # NoRequest
    BY <1>3 DEF Inv, SlotOK, KnowsWhat
  <2>2. QED
    BY <1>3, <2>1 DEF Expands, TaskSteps, Begins
<1>5. job.phase # "COMPLETED"
  BY <1>3 DEF Chapters, KeepsChapters
<1>6. SUFFICES KeepsChapters(t)' /\ (job'.phase = "COMPLETED" => AllCovered')
  BY <1>2, <1>4, LonelyStep
<1>7. CASE XBegin(t) \/ XSave(t)
  <2>1. job'.phase = "EXPANDING"
    BY <1>1, <1>7 DEF XBegin, XSave, JobRow
  <2>2. pc'[t] \in {"xCheck", "xRecheck"}
    BY <1>1, <1>7 DEF XBegin, XSave, Go
  <2>3. QED
    BY <2>1, <2>2 DEF KeepsChapters, Retrying, Closing
<1>8. CASE XShell(t)
  <2>1. pc'[t] \in {"xSave", "failing"} /\ UNCHANGED job
    BY <1>1, <1>8 DEF XShell, Go
  <2>2. QED
    BY <1>5, <2>1 DEF KeepsChapters, Retrying, Closing, ExpandSteps
<1>9. CASE XFinish(t)
  <2>1. job'.request = loc[t].req /\ job'.completed = job.completed /\ job'.failed = job.failed
    BY <1>1, <1>9 DEF XFinish, JobRow
  <2>2. loc[t].req.chapters \subseteq Covered(job)
    BY <1>9 DEF XFinish, Chapters, KeepsChapters
  <2>3. pc'[t] = "idle"
    BY <1>1, <1>9 DEF XFinish, Ends, Go
  <2>4. AllCovered'
    BY <2>1, <2>2 DEF AllCovered, Covered
  <2>5. QED
    BY <2>3, <2>4, Untold DEF Retrying, Closing, ExpandSteps
<1>10. CASE XPlan(t)
  <2> DEFINE todo == loc[t].req.chapters \ job.completed
             bad == [c \in Chapter |-> IF c \in todo THEN "no" ELSE job.failed[c]]
             l == [loc[t] EXCEPT !.outline = job.outline, !.done = job.completed, !.todo = todo, !.bad = bad]
  <2>1. UNCHANGED job
    BY <1>10 DEF XPlan
  <2>2. \/ todo = {} /\ Go(t, "xFinish") /\ Note(t, Kept(t))
        \/ Go(t, "xWave") /\ Note(t, l)
    BY <1>10 DEF XPlan
  <2>3. l.req = loc[t].req /\ l.done = job.completed /\ l.todo = todo
    BY <1>1 DEF Local
  <2>4. CASE todo = {} /\ Go(t, "xFinish") /\ Note(t, Kept(t))
    <3>1. pc'[t] = "xFinish" /\ loc'[t].req = loc[t].req
      BY <1>1, <2>4, KeptIs DEF Go, Note
    <3>2. loc[t].req.chapters \subseteq Covered(job)
      BY <2>4 DEF Covered
    <3>3. QED
      BY <1>5, <2>1, <3>1, <3>2 DEF KeepsChapters, Retrying, Closing, Covered
  <2>5. CASE Go(t, "xWave") /\ Note(t, l)
    <3> HIDE DEF l
    <3>1. pc'[t] = "xWave" /\ loc'[t] = l
      BY <1>1, <2>5 DEF Go, Note
    <3>2. \A c \in l.req.chapters : c \in l.done \cup l.todo
      BY <2>3
    <3>3. QED
      BY <1>5, <2>1, <3>1, <3>2 DEF KeepsChapters, Retrying, Closing
  <2>6. QED
    BY <2>2, <2>4, <2>5
<1>11. QED
  BY <1>7, <1>8, <1>9, <1>10

LEMMA ExpandChapters2 ==
  ASSUME Inv, Alone, Alone', Chapters, NEW t \in Task, Step(t),
         XWave(t) \/ XRecord(t) \/ \E c \in Chapter : XChapter(t, c)
  PROVE  Chapters'
<1>1. /\ pc \in [Task -> PC] /\ loc \in [Task -> Local] /\ job \in JobRow /\ TypeOK
      /\ loc[t] \in Local /\ loc[t].stage \in [Chapter -> Stage]
  BY DEF Inv, TypeOK, Local
<1>2. pc[t] \in {"xWave", "xRun"}
  BY DEF XWave, XRecord, WaveOver, XChapter
<1>3. \A u \in Task \ {t} : pc'[u] = pc[u] /\ loc'[u] = loc[u]
  BY <1>1, <1>2, OwnSlot DEF CancelTasks
<1>4. Expands(t)
  <2>1. loc[t].req # NoRequest
    BY <1>2 DEF Inv, SlotOK, KnowsWhat, ExpandSteps
  <2>2. QED
    BY <1>2, <2>1 DEF Expands, TaskSteps, ExpandSteps
<1>5. job.phase # "COMPLETED" /\ KeepsChapters(t)
  BY <1>2 DEF Chapters, KeepsChapters, ExpandSteps
<1>6. SUFFICES KeepsChapters(t)' /\ (job'.phase = "COMPLETED" => AllCovered')
  BY <1>3, <1>4, LonelyStep
<1>7. loc[t].req.chapters \subseteq Chapter
  BY <1>1, LocalFields, CourseAssumption DEF NoRequest
<1>8. CASE XWave(t)
  <2> DEFINE wave == Wave(loc[t].outline, loc[t].todo, loc[t].sched)
             stage == [c \in Chapter |-> IF c \in wave THEN "todo" ELSE "none"]
             l == [loc[t] EXCEPT !.todo = @ \ wave, !.sched = @ \cup wave, !.stage = stage]
  <2>1. UNCHANGED job /\ pc[t] = "xWave"
    BY <1>8 DEF XWave
  <2>2. \/ Go(t, "cancelling") /\ Note(t, Kept(t))
        \/ Go(t, "xRun") /\ Note(t, l)
    BY <1>8 DEF XWave
  <2>3. CASE Go(t, "cancelling") /\ Note(t, Kept(t))
    <3>1. pc'[t] = "cancelling"
      BY <1>1, <2>3 DEF Go
    <3>2. QED
      BY <1>5, <2>1, <3>1, Untold DEF Retrying, Closing, ExpandSteps
  <2>4. CASE Go(t, "xRun") /\ Note(t, l)
    <3>1. \A c \in Chapter : stage[c] = IF c \in wave THEN "todo" ELSE "none"
      OBVIOUS
    <3> HIDE DEF stage, wave
    <3>2. /\ l.req = loc[t].req /\ l.done = loc[t].done /\ l.todo = loc[t].todo \ wave
          /\ l.bad = loc[t].bad /\ l.stage = stage
      BY <1>1 DEF Local
    <3> HIDE DEF l
    <3>3. pc'[t] = "xRun" /\ loc'[t] = l
      BY <1>1, <2>4 DEF Go, Note
    <3>4. \A c \in l.req.chapters : c \in l.done \cup l.todo \/ l.bad[c] # "no" \/ l.stage[c] # "none"
      BY <1>5, <1>7, <2>1, <3>1, <3>2 DEF KeepsChapters
    <3>5. QED
      BY <1>5, <2>1, <3>3, <3>4 DEF KeepsChapters, Retrying, Closing
  <2>5. QED
    BY <2>2, <2>3, <2>4
<1>9. CASE XRecord(t)
  <2>1. /\ pc[t] = "xRun" /\ \A c \in Chapter : loc[t].stage[c] \notin {"todo", "draft"}
        /\ job' = [job EXCEPT !.completed = Done(t), !.failed = Bad(t)]
        /\ \/ loc[t].todo = {} /\ Go(t, "xFinish") /\ Note(t, Kept(t))
           \/ Go(t, "xWave") /\ Note(t, [loc[t] EXCEPT !.done = Done(t), !.bad = Bad(t), !.stage = NoStage])
    BY <1>9, RecordDef
  <2>2. job'.phase = job.phase /\ job'.completed = Done(t) /\ job'.failed = Bad(t)
    BY <1>1, <2>1 DEF JobRow
  <2>3. ASSUME NEW c \in loc[t].req.chapters PROVE c \in Done(t) \cup loc[t].todo \/ Bad(t)[c] # "no"
    <3>1. c \in Chapter /\ loc[t].stage[c] \in Stage \ {"todo", "draft"}
      BY <1>1, <1>7, <2>1
    <3>2. Bad(t)[c] = IF loc[t].stage[c] \in Failure THEN loc[t].stage[c] ELSE loc[t].bad[c]
      BY <3>1 DEF Bad
    <3>3. c \in loc[t].done \cup loc[t].todo \/ loc[t].bad[c] # "no" \/ loc[t].stage[c] # "none"
      BY <1>5, <2>1 DEF KeepsChapters
    <3>4. QED
      BY <3>1, <3>2, <3>3 DEF Done, Stage, Failure
  <2>4. CASE loc[t].todo = {} /\ Go(t, "xFinish") /\ Note(t, Kept(t))
    <3>1. pc'[t] = "xFinish" /\ loc'[t].req = loc[t].req
      BY <1>1, <2>4, KeptIs DEF Go, Note
    <3>2. loc[t].req.chapters \subseteq Covered(job')
      BY <1>7, <2>2, <2>3, <2>4 DEF Covered
    <3>3. QED
      BY <1>5, <2>2, <3>1, <3>2 DEF KeepsChapters, Retrying, Closing, Covered
  <2>5. CASE Go(t, "xWave") /\ Note(t, [loc[t] EXCEPT !.done = Done(t), !.bad = Bad(t), !.stage = NoStage])
    <3> DEFINE l == [loc[t] EXCEPT !.done = Done(t), !.bad = Bad(t), !.stage = NoStage]
    <3>1. l.req = loc[t].req /\ l.done = Done(t) /\ l.todo = loc[t].todo /\ l.bad = Bad(t)
      BY <1>1 DEF Local
    <3>2. Note(t, l)
      BY <2>5
    <3> HIDE DEF l
    <3>3. pc'[t] = "xWave" /\ loc'[t] = l
      BY <1>1, <2>5, <3>2 DEF Go, Note
    <3>4. \A c \in l.req.chapters : c \in l.done \cup l.todo \/ l.bad[c] # "no"
      BY <2>3, <3>1
    <3>5. QED
      BY <1>5, <2>2, <3>3, <3>4 DEF KeepsChapters, Retrying, Closing
  <2>6. QED
    BY <2>1, <2>4, <2>5
<1>10. ASSUME NEW c \in Chapter, XChapter(t, c)
       PROVE  KeepsChapters(t)' /\ (job'.phase = "COMPLETED" => AllCovered')
  <2>1. UNCHANGED <<job, pc>> /\ pc[t] = "xRun"
    BY <1>10 DEF XChapter
  <2>2. PICK e \in Stage \ {"none"} : Note(t, [loc[t] EXCEPT !.stage[c] = e])
    BY <1>10 DEF XChapter, Stage
  <2> DEFINE l == [loc[t] EXCEPT !.stage[c] = e]
  <2>3. /\ l.req = loc[t].req /\ l.done = loc[t].done /\ l.todo = loc[t].todo /\ l.bad = loc[t].bad
        /\ l.stage = [loc[t].stage EXCEPT ![c] = e]
    BY <1>1 DEF Local
  <2>4. Note(t, l)
    BY <2>2
  <2> HIDE DEF l
  <2>5. loc'[t] = l
    BY <1>1, <2>4 DEF Note
  <2>6. \A d \in l.req.chapters : d \in l.done \cup l.todo \/ l.bad[d] # "no" \/ l.stage[d] # "none"
    BY <1>1, <1>5, <1>7, <2>1, <2>3 DEF KeepsChapters
  <2>7. QED
    BY <1>5, <2>1, <2>5, <2>6 DEF KeepsChapters, Retrying, Closing
<1>11. QED
  BY <1>8, <1>9, <1>10

LEMMA RetryChapters1 ==
  ASSUME Inv, Chapters, NEW t \in Task, Step(t), RBegin(t) \/ RLook(t) \/ RDo(t) \/ RRead(t)
  PROVE  Chapters'
<1>1. /\ pc \in [Task -> PC] /\ loc \in [Task -> Local] /\ job \in JobRow /\ TypeOK
      /\ loc[t] \in Local /\ KeepsChapters(t)
  BY DEF Inv, TypeOK, Chapters
<1>2. \A u \in Task \ {t} : pc'[u] = pc[u] /\ loc'[u] = loc[u]
  <2>1. pc[t] # "cancelTasks"
    BY DEF RBegin, RLook, RDo, RRead
  <2>2. QED
    BY <1>1, <2>1, OwnSlot DEF CancelTasks
<1>3. UNCHANGED job
  BY DEF RBegin, RLook, RDo, RRead
<1>4. SUFFICES KeepsChapters(t)'
  BY <1>2, <1>3, CalmStep
<1>5. CASE RBegin(t) \/ RLook(t) \/ RDo(t)
  <2>1. pc[t] \in {"rBegin", "rLook", "rDo"} /\ pc'[t] \in {"cancelling", "rLook", "rFail", "rDo", "rCheck"}
    BY <1>1, <1>5 DEF RBegin, RLook, RDo, Go
  <2>2. loc'[t].ch = loc[t].ch
    <3>1. \/ Note(t, [loc[t] EXCEPT !.course = job.course])
          \/ \E e : Note(t, [loc[t] EXCEPT !.stage[loc[t].ch] = e])
          \/ UNCHANGED loc
      BY <1>5 DEF RBegin, RLook, RDo
    <3>2. QED
      BY <1>1, <3>1 DEF Note, Local
  <2>3. QED
    BY <1>1, <1>3, <2>1, <2>2 DEF KeepsChapters, Retrying, Closing, ExpandSteps
<1>6. CASE RRead(t)
  <2> DEFINE seen == [NewJob EXCEPT !.phase = job.phase, !.completed = job.completed, !.failed = job.failed]
             l == [loc[t] EXCEPT !.seen = seen]
  <2>1. seen.phase = job.phase /\ seen.completed = job.completed /\ seen.failed = job.failed
    BY DEF NewJob
  <2> HIDE DEF seen
  <2>2. l.seen = seen /\ l.ch = loc[t].ch
    BY <1>1 DEF Local
  <2>3. Note(t, l)
    BY <1>6 DEF RRead, seen
  <2> HIDE DEF l
  <2>4. loc'[t] = l
    BY <1>1, <2>3 DEF Note
  <2>5. PICK p \in {"rWrite", "rClose", "rFailWrite"} :
          /\ Go(t, p)
          /\ p # "rClose" => pc[t] \in {"rRead", "rFail"}
    BY <1>6 DEF RRead
  <2>6. pc'[t] = p
    BY <1>1, <2>5 DEF Go
  <2>7. Covered(seen) = Covered(job)
    BY <2>1 DEF Covered
  <2>8. job.phase = "COMPLETED" => AllCovered
    BY DEF Chapters
  <2>9. QED
    BY <1>1, <1>3, <2>1, <2>2, <2>4, <2>5, <2>6, <2>7, <2>8 DEF KeepsChapters, AllCovered, Retrying, Closing, ExpandSteps
<1>7. QED
  BY <1>5, <1>6

LEMMA RetryChapters2 ==
  ASSUME Inv, Alone, Chapters, NEW t \in Task, Step(t), RWrite(t) \/ RFailWrite(t) \/ RClose(t)
  PROVE  Chapters'
<1>1. /\ pc \in [Task -> PC] /\ loc \in [Task -> Local] /\ job \in JobRow /\ TypeOK
      /\ loc[t] \in Local /\ KeepsChapters(t) /\ RetryKnows(t)
  BY DEF Inv, TypeOK, Chapters, SlotOK
<1>2. \A u \in Task \ {t} : pc'[u] = pc[u] /\ loc'[u] = loc[u]
  BY <1>1, OwnSlot DEF RWrite, RFailWrite, RClose, CancelTasks
<1>3. loc[t].ch \in Chapter /\ loc[t].seen.failed \in [Chapter -> Failure]
  BY <1>1 DEF Local, JobRow
<1>4. CASE RWrite(t)
  <2> DEFINE ok == loc[t].stage[loc[t].ch] = "ok"
             C == IF ok THEN loc[t].seen.completed \cup {loc[t].ch} ELSE loc[t].seen.completed
             F == [loc[t].seen.failed EXCEPT ![loc[t].ch] = IF ok THEN "no" ELSE loc[t].stage[loc[t].ch]]
  <2>1. /\ job' = [job EXCEPT !.completed = C, !.failed = F] /\ pc[t] = "rWrite" /\ Go(t, "rReread")
    BY <1>4 DEF RWrite
  <2>2. \/ C = loc[t].seen.completed \cup {loc[t].ch} /\ F = [loc[t].seen.failed EXCEPT ![loc[t].ch] = "no"]
        \/ /\ loc[t].stage[loc[t].ch] # "no" /\ C = loc[t].seen.completed
           /\ F = [loc[t].seen.failed EXCEPT ![loc[t].ch] = loc[t].stage[loc[t].ch]]
    BY <1>1, <2>1 DEF RetryKnows
  <2> HIDE DEF C, F, ok
  <2>3. job'.request = job.request /\ job'.phase = job.phase /\ job'.completed = C /\ job'.failed = F
    BY <1>1, <2>1 DEF JobRow
  <2>4. Covered(job') = Covered(loc[t].seen) \cup {loc[t].ch}
    BY <1>3, <2>2, <2>3 DEF Covered
  <2>5. Covered(loc[t].seen) = Covered(job) /\ loc[t].ch \in Covered(job)
    BY <1>1, <2>1 DEF KeepsChapters, Retrying
  <2>6. Covered(job') = Covered(job)
    BY <2>4, <2>5
  <2>7. pc'[t] = "rReread"
    BY <1>1, <2>1 DEF Go
  <2>8. KeepsChapters(t)'
    BY <1>1, <2>1, <2>7 DEF KeepsChapters, Retrying, Closing, ExpandSteps, Chapters
  <2>9. QED
    BY <1>2, <2>3, <2>6, <2>8, CalmStep
<1>5. CASE RFailWrite(t)
  <2> DEFINE F == [loc[t].seen.failed EXCEPT ![loc[t].ch] = loc[t].stage[loc[t].ch]]
  <2>1. /\ job' = [job EXCEPT !.completed = loc[t].seen.completed, !.failed = F]
        /\ pc[t] = "rFailWrite" /\ Go(t, "rFailClose") /\ UNCHANGED loc
    BY <1>5 DEF RFailWrite
  <2>2. loc[t].stage[loc[t].ch] # "no"
    BY <1>1, <2>1 DEF RetryKnows
  <2>3. /\ job'.request = job.request /\ job'.phase = job.phase
        /\ job'.completed = loc[t].seen.completed /\ job'.failed = F
    BY <1>1, <2>1 DEF JobRow
  <2>4. Covered(job') = Covered(loc[t].seen) \cup {loc[t].ch}
    BY <1>3, <2>2, <2>3 DEF Covered
  <2>5. Covered(loc[t].seen) = Covered(job) /\ loc[t].ch \in Covered(job)
    BY <1>1, <2>1 DEF KeepsChapters, Retrying
  <2>6. Covered(job') = Covered(job)
    BY <2>4, <2>5
  <2>7. pc'[t] = "rFailClose" /\ loc'[t] = loc[t]
    BY <1>1, <2>1 DEF Go
  <2>8. KeepsChapters(t)'
    BY <1>1, <2>1, <2>3, <2>6, <2>7 DEF KeepsChapters, AllCovered, Retrying, Closing, ExpandSteps
  <2>9. QED
    BY <1>2, <2>3, <2>6, <2>8, CalmStep
<1>6. CASE RClose(t)
  <2>1. job' = [job EXCEPT !.phase = loc[t].seen.phase] /\ pc[t] \in {"rClose", "rFailClose"} /\ Ends(t)
    BY <1>6 DEF RClose
  <2>2. /\ job'.request = job.request /\ job'.completed = job.completed /\ job'.failed = job.failed
        /\ job'.phase = loc[t].seen.phase
    BY <1>1, <2>1 DEF JobRow
  <2>3. Covered(job') = Covered(job)
    BY <2>2 DEF Covered
  <2>4. job'.phase = "COMPLETED" => AllCovered'
    BY <1>1, <2>1, <2>2, <2>3 DEF KeepsChapters, AllCovered, Closing
  <2>5. pc'[t] = "idle"
    BY <1>1, <2>1 DEF Ends, Go
  <2>6. KeepsChapters(t)'
    BY <2>5, Untold DEF Retrying, Closing, ExpandSteps
  <2>7. ASSUME NEW u \in Task \ {t} PROVE KeepsChapters(u)'
    <3>1. pc[u] \notin {"xBegin"} \cup ExpandSteps
      <4>1. SUFFICES ASSUME pc[u] \in {"xBegin"} \cup ExpandSteps PROVE FALSE
        OBVIOUS
      <4>2. loc[u].req # NoRequest
        BY <4>1 DEF Inv, SlotOK, KnowsWhat
      <4>3. Expands(u)
        BY <4>1, <4>2 DEF Expands, TaskSteps, Begins
      <4>4. pc[t] \in TaskSteps
        BY <2>1 DEF TaskSteps, RetrySteps, Handlers
      <4>5. QED
        BY <4>3, <4>4 DEF Alone
    <3>2. KeepsChapters(u) /\ pc'[u] = pc[u] /\ loc'[u] = loc[u]
      BY <1>2 DEF Chapters
    <3>3. QED
      BY <2>2, <2>3, <3>1, <3>2 DEF KeepsChapters, AllCovered, ExpandSteps
  <2>8. QED
    BY <2>4, <2>6, <2>7 DEF Chapters
<1>7. QED
  BY <1>4, <1>5, <1>6

LEMMA AskChapters ==
  ASSUME Inv, Chapters, NEW t \in Task, NEW w \in Worker, Ask(t, w)
  PROVE  Chapters'
<1>1. pc \in [Task -> PC] /\ loc \in [Task -> Local]
  BY DEF Inv, TypeOK
<1>2. UNCHANGED job /\ \E p, l : Go(t, p) /\ Note(t, l)
  BY DEF Ask, AskExpand, AskRetry, AskCancel, AskResume, Asks
<1>3. \A u \in Task \ {t} : pc'[u] = pc[u] /\ loc'[u] = loc[u]
  BY <1>1, <1>2 DEF Go, Note
<1>4. KeepsChapters(t)'
  <2>1. ASSUME NEW c \in Chapter, AskRetry(t, w, c) PROVE KeepsChapters(t)'
    <3>1. job.failed[c] # "no" /\ Go(t, "rBegin") /\ Note(t, [Blank EXCEPT !.ch = c, !.at = w])
      BY <2>1 DEF AskRetry, Asks
    <3>2. pc'[t] = "rBegin" /\ loc'[t].ch = c
      BY <1>1, <3>1 DEF Go, Note, Blank
    <3>3. c \in Covered(job)
      BY <3>1 DEF Covered
    <3>4. QED
      BY <1>2, <3>2, <3>3 DEF KeepsChapters, Retrying, Closing, ExpandSteps
  <2>2. CASE AskCancel(t, w) \/ AskResume(t, w) \/ \E r \in Requests : AskExpand(t, w, r)
    <3>1. pc'[t] \in {"expand", "cancelReady", "cancelAsk", "clear"}
      BY <1>1, <2>2 DEF AskCancel, AskResume, AskExpand, Asks, Go
    <3>2. QED
      BY <3>1, Untold DEF Retrying, Closing, ExpandSteps
  <2>3. QED
    BY <2>1, <2>2 DEF Ask
<1>5. QED
  BY <1>2, <1>3, <1>4, CalmStep

LEMMA WorkerChapters ==
  ASSUME Inv, Chapters, NEW w \in Worker,
         Crash(w) \/ Stop(w) \/ \E t \in Task, stale \in BOOLEAN : Start(t, w, stale)
  PROVE  Chapters'
<1>1. pc \in [Task -> PC] /\ loc \in [Task -> Local] /\ job \in JobRow
  BY DEF Inv, TypeOK
<1>2. CASE Crash(w)
  <2>1. UNCHANGED job
    BY <1>2 DEF Crash
  <2>2. ASSUME NEW u \in Task PROVE KeepsChapters(u)'
    <3>1. CASE loc[u].at = w
      <4>1. pc'[u] = "idle"
        BY <1>2, <3>1 DEF Crash
      <4>2. QED
        BY <4>1, Untold DEF Retrying, Closing, ExpandSteps
    <3>2. CASE loc[u].at # w
      BY <1>2, <2>1, <3>2, Told DEF Crash, Chapters
    <3>3. QED
      BY <3>1, <3>2
  <2>3. QED
    BY <2>1, <2>2 DEF Chapters, AllCovered
<1>3. CASE Stop(w)
  BY <1>3, InterruptChapters DEF Stop
<1>4. ASSUME NEW t \in Task, NEW stale \in BOOLEAN, Start(t, w, stale) PROVE Chapters'
  <2>1. /\ job'.request = job.request /\ job'.completed = job.completed /\ job'.failed = job.failed
        /\ job'.phase = job.phase \/ job'.phase # "COMPLETED"
    BY <1>1, <1>4 DEF Start, JobRow
  <2>2. Covered(job') = Covered(job)
    BY <2>1 DEF Covered
  <2>3. \A u \in Task \ {t} : pc'[u] = pc[u] /\ loc'[u] = loc[u]
    BY <1>1, <1>4 DEF Start, Go, Note
  <2>4. KeepsChapters(t)'
    <3>1. CASE UNCHANGED <<pc, loc>>
      BY <2>1, <2>2, <3>1, Told DEF Chapters
    <3>2. CASE Go(t, "oBegin")
      BY <1>1, <3>2, Untold DEF Go, Retrying, Closing, ExpandSteps
    <3>3. CASE Go(t, "xBegin") /\ job' = [job EXCEPT !.phase = "RECOVERING_EXPANDING"]
      <4>1. pc'[t] = "xBegin" /\ job'.phase # "COMPLETED"
        BY <1>1, <3>3 DEF Go, JobRow
      <4>2. QED
        BY <4>1 DEF KeepsChapters, Retrying, Closing
    <3>4. QED
      BY <1>4, <3>1, <3>2, <3>3 DEF Start
  <2>5. QED
    BY <2>1, <2>2, <2>3, <2>4, CalmStep
<1>5. QED
  BY <1>2, <1>3, <1>4

InvC == Inv /\ ("overlap" \notin past => Alone /\ Chapters)

LEMMA NextInvC == InvC /\ [Next]_vars => InvC'
<1>1. SUFFICES ASSUME InvC, [Next]_vars, "overlap" \notin past' PROVE Alone' /\ Chapters'
  BY NextInv DEF InvC
<1>2. Inv
  BY <1>1 DEF InvC
<1>3. CASE UNCHANGED vars
  BY <1>1, <1>3 DEF InvC, Alone, Chapters, KeepsChapters, AllCovered, Expands, vars
<1>4. CASE Next
  <2>1. "overlap" \notin past /\ Alone /\ Chapters /\ Alone'
    BY <1>1, <1>4 DEF Next, Event, Alone, InvC
  <2>2. ASSUME NEW t \in Task, Step(t) PROVE Chapters'
    <3>1. CASE CancelTasks(t)
      BY <2>1, <3>1, InterruptChapters DEF CancelTasks
    <3>2. CASE ~CancelTasks(t)
      BY <1>2, <2>1, <2>2, <3>2, QuietChapters, BeginChapters, EndChapters, ExpandChapters1, ExpandChapters2,
         RetryChapters1, RetryChapters2 DEF Step
    <3>3. QED
      BY <3>1, <3>2
  <2>3. QED
    BY <1>2, <1>4, <2>1, <2>2, AskChapters, WorkerChapters DEF Next
<1>5. QED
  BY <1>1, <1>3, <1>4

\* A job that says it is completed accounts for every chapter the teacher
\* approved, as long as no task has run beside one of its expansions: whatever
\* has crashed, stopped, been cancelled, recovered, resumed or retried, and
\* however many retries write their old lists over each other's.
THEOREM NothingIsLost == Spec => []NoChapterLost
<1>1. Init => InvC
  <2>1. SUFFICES ASSUME Init PROVE Alone /\ Chapters
    BY InitInv DEF InvC
  <2>2. \A t \in Task : pc[t] \in {"idle", "oBegin"} /\ loc[t].req = NoRequest
    BY <2>1 DEF Init, Blank
  <2>3. job.phase # "COMPLETED"
    BY <2>1 DEF Init, NewJob
  <2>4. QED
    BY <2>2, <2>3 DEF Alone, Expands, Chapters, KeepsChapters, Retrying, Closing, ExpandSteps
<1>2. InvC => NoChapterLost
  BY DEF InvC, Chapters, AllCovered, Covered, NoChapterLost
<1>3. QED
  BY <1>1, <1>2, NextInvC, PTL DEF Spec
-----------------------------------------------------------------------------
(* A job in progress is worked on *)

\* While nothing of past has happened, a retry that is about to end has not read
\* the phase of a job in progress, and such a job has a task or a worker to come.
ReadAtRest(u) == pc[u] \in {"rClose", "rFailWrite", "rFailClose"} => loc[u].seen.phase \notin Active
WorkedOn ==
  job.phase \in {"CONVERTING", "EXPANDING"} => up # Worker \/ \E u \in Task : pc[u] \in TaskSteps

Settled == Event = {} /\ WorkedOn /\ \A u \in Task : ReadAtRest(u)
InvW == Inv /\ (past = {} => Settled)

\* What Event = {} says of a state.
LEMMA Uneventful ==
  ASSUME Event = {}
  PROVE  /\ job.phase \in Active => ~job.cancel /\ \A u \in Task : ~Retries(u)
         /\ \A u \in Task : pc[u] \notin {"cancelAsk", "cancelTasks"}
<1>1. "adrift" \notin Event
  OBVIOUS
<1>2. QED
  BY <1>1 DEF Event

\* A step leaves the job worked on if its slot then runs a task, if it ends the
\* progress, or if it is no step of a task and leaves the phase alone.
LEMMA StillWorked ==
  ASSUME WorkedOn, NEW t \in Task, up' = up,
         \A u \in Task \ {t} : pc'[u] = pc[u],
         \/ pc'[t] \in TaskSteps
         \/ job'.phase \notin {"CONVERTING", "EXPANDING"}
         \/ job'.phase = job.phase /\ pc[t] \notin TaskSteps
  PROVE  WorkedOn'
BY DEF WorkedOn

LEMMA StepWorked ==
  ASSUME Inv, Settled, NEW t \in Task, Step(t)
  PROVE  WorkedOn' /\ \A u \in Task : ReadAtRest(u)'
<1> USE DEF Settled
<1>1. pc \in [Task -> PC] /\ loc \in [Task -> Local] /\ job \in JobRow /\ TypeOK
  BY DEF Inv, TypeOK
<1>2. pc[t] \notin {"cancelAsk", "cancelTasks"} /\ (job.phase \in Active => ~Retries(t))
  BY Uneventful
<1>3. \A u \in Task \ {t} : pc'[u] = pc[u] /\ loc'[u] = loc[u]
  BY <1>1, <1>2, OwnSlot DEF CancelTasks
<1>4. SUFFICES /\ up' = up /\ ReadAtRest(t)'
               /\ \/ pc'[t] \in TaskSteps
                  \/ job'.phase \notin {"CONVERTING", "EXPANDING"}
                  \/ (job'.phase = job.phase /\ pc[t] \notin TaskSteps)
  <2>1. WorkedOn'
    BY <1>3, <1>4, StillWorked
  <2>2. \A u \in Task : ReadAtRest(u)'
    BY <1>3, <1>4 DEF ReadAtRest
  <2>3. QED
    BY <2>1, <2>2
<1>5. CASE Check(t)
  <2>1. pc'[t] \in {"cancelling", "oConvert", "oOutline", "xShell", "xPlan", "rRead"}
    BY <1>1, <1>5 DEF Check, After, Go
  <2>2. pc'[t] \in TaskSteps /\ ReadAtRest(t)'
    BY <2>1 DEF ReadAtRest, TaskSteps, OutlineSteps, ExpandSteps, RetrySteps, Handlers
  <2>3. QED
    BY <1>5, <2>2 DEF Check, env
<1>6. CASE Expand(t) \/ OBegin(t) \/ OConvert(t) \/ OOutline(t)
  <2>1. pc'[t] \in {"xBegin", "oCheck", "oRecheck", "failing", "oSave"}
    BY <1>1, <1>6 DEF Expand, OBegin, OConvert, OOutline, Go
  <2>2. pc'[t] \in TaskSteps /\ ReadAtRest(t)'
    BY <2>1 DEF ReadAtRest, TaskSteps, Begins, OutlineSteps, Handlers
  <2>3. QED
    BY <1>6, <2>2 DEF Expand, OBegin, OConvert, OOutline, env
<1>7. CASE CancelReady(t) \/ CancelAsk(t) \/ ClearCancelRequest(t) \/ CancelTasks(t)
  BY <1>1, <1>2, <1>7 DEF CancelReady, CancelAsk, ClearCancelRequest, CancelTasks, Ends, Go, JobRow, ReadAtRest, env,
     TaskSteps, Begins, OutlineSteps, ExpandSteps, RetrySteps, Handlers
<1>8. CASE Resume(t)
  <2>1. pc[t] \notin TaskSteps
    BY <1>8 DEF Resume, TaskSteps, Begins, OutlineSteps, ExpandSteps, RetrySteps, Handlers
  <2>2. CASE Ends(t) /\ (UNCHANGED job \/ job' = [job EXCEPT !.phase = "OUTLINE_READY"])
    BY <1>1, <1>8, <2>1, <2>2 DEF Resume, Ends, Go, JobRow, ReadAtRest, env
  <2>3. CASE Go(t, "oBegin") \/ Go(t, "xBegin")
    BY <1>1, <1>8, <2>3 DEF Resume, Go, ReadAtRest, env, TaskSteps, Begins
  <2>4. QED
    BY <1>8, <2>2, <2>3 DEF Resume
<1>9. CASE Cancelled(t) \/ Failed(t) \/ OSave(t) \/ XFinish(t)
  BY <1>1, <1>9 DEF Cancelled, Failed, OSave, XFinish, Ends, Go, JobRow, ReadAtRest, env
<1>10. CASE XBegin(t) \/ XShell(t) \/ XSave(t) \/ XPlan(t) \/ XWave(t)
  BY <1>1, <1>10 DEF XBegin, XShell, XSave, XPlan, XWave, Go, ReadAtRest, env,
     TaskSteps, Begins, ExpandSteps, Handlers
<1>11. CASE XRecord(t)
  BY <1>1, <1>11 DEF XRecord, Go, ReadAtRest, env, TaskSteps, ExpandSteps
<1>12. ASSUME NEW c \in Chapter, XChapter(t, c)
       PROVE  up' = up /\ ReadAtRest(t)' /\ pc'[t] \in TaskSteps
  BY <1>1, <1>12 DEF XChapter, ReadAtRest, env, TaskSteps, ExpandSteps
<1>13. CASE RBegin(t) \/ RLook(t) \/ RDo(t) \/ RWrite(t)
  BY <1>1, <1>13 DEF RBegin, RLook, RDo, RWrite, Go, ReadAtRest, env, TaskSteps, RetrySteps, Handlers
<1>14. CASE RRead(t)
  <2>1. job.phase \notin Active
    BY <1>2, <1>14 DEF RRead, Retries, RetrySteps
  <2>2. loc'[t].seen = [NewJob EXCEPT !.phase = job.phase, !.completed = job.completed, !.failed = job.failed]
    BY <1>1, <1>14 DEF RRead, Note, Local
  <2>3. loc'[t].seen.phase = job.phase
    BY <2>2, BlankType DEF JobRow
  <2>4. QED
    BY <1>1, <1>14, <2>1, <2>3 DEF RRead, Go, ReadAtRest, env, TaskSteps, RetrySteps, Handlers
<1>15. CASE RFailWrite(t)
  BY <1>1, <1>15 DEF RFailWrite, Go, ReadAtRest, env, TaskSteps, Handlers
<1>16. CASE RClose(t)
  <2>1. loc[t].seen.phase \notin Active
    BY <1>16 DEF RClose, ReadAtRest
  <2>2. job'.phase = loc[t].seen.phase
    BY <1>1, <1>16 DEF RClose, JobRow
  <2>3. QED
    BY <1>1, <1>16, <2>1, <2>2 DEF RClose, Ends, Go, ReadAtRest, env, Active
<1>17. QED
  BY <1>5, <1>6, <1>7, <1>8, <1>9, <1>10, <1>11, <1>12, <1>13, <1>14, <1>15, <1>16 DEF Step

LEMMA AskWorked ==
  ASSUME Inv, Settled, NEW t \in Task, NEW w \in Worker, Ask(t, w)
  PROVE  WorkedOn' /\ \A u \in Task : ReadAtRest(u)'
<1>1. pc \in [Task -> PC] /\ loc \in [Task -> Local]
  BY DEF Inv, TypeOK
<1>2. PICK p \in {"expand", "rBegin", "cancelReady", "cancelAsk", "clear"} : \E l : Asks(t, w, p, l)
  BY DEF Ask, AskExpand, AskRetry, AskCancel, AskResume
<1>3. /\ pc[t] = "idle" /\ job' = job /\ up' = up /\ pc'[t] = p
      /\ \A u \in Task \ {t} : pc'[u] = pc[u] /\ loc'[u] = loc[u]
  BY <1>1, <1>2 DEF Asks, Go, Note
<1>4. pc[t] \notin TaskSteps
  BY <1>3, Taken DEF PC
<1>5. WorkedOn'
  BY <1>3, <1>4, StillWorked DEF Settled
<1>6. \A u \in Task : ReadAtRest(u)'
  BY <1>2, <1>3 DEF Settled, ReadAtRest
<1>7. QED
  BY <1>5, <1>6

\* A worker that starts claims what was left behind, as nobody has cancelled it.
LEMMA WorkerWorked ==
  ASSUME Inv, Settled, NEW w \in Worker,
         Crash(w) \/ Stop(w) \/ \E t \in Task, stale \in BOOLEAN : Start(t, w, stale)
  PROVE  WorkedOn' /\ \A u \in Task : ReadAtRest(u)'
<1>1. pc \in [Task -> PC] /\ loc \in [Task -> Local] /\ job \in JobRow /\ up \subseteq Worker
  BY DEF Inv, TypeOK
<1>2. CASE Crash(w)
  <2>1. up' # Worker
    BY <1>2 DEF Crash, Falls
  <2>2. ASSUME NEW u \in Task PROVE pc'[u] = "idle" \/ (pc'[u] = pc[u] /\ loc'[u] = loc[u])
    BY <1>2 DEF Crash
  <2>3. QED
    BY <2>1, <2>2 DEF Settled, WorkedOn, ReadAtRest
<1>3. CASE Stop(w)
  <2>1. up' # Worker
    BY <1>3 DEF Stop, Falls
  <2>2. ASSUME NEW u \in Task
        PROVE  pc'[u] \in {"idle", "cancelling"} \/ (pc'[u] = pc[u] /\ loc'[u] = loc[u])
    BY <1>3 DEF Stop, Interrupt, Interrupted
  <2>3. QED
    BY <2>1, <2>2 DEF Settled, WorkedOn, ReadAtRest
<1>4. ASSUME NEW t \in Task, NEW stale \in BOOLEAN, Start(t, w, stale)
      PROVE  WorkedOn' /\ \A u \in Task : ReadAtRest(u)'
  <2>1. job.phase \in {"CONVERTING", "EXPANDING"} => Claimable(stale)
    BY Uneventful DEF Settled, Active, Claimable
  <2>2. CASE UNCHANGED <<pc, loc>> /\ job'.phase \notin {"CONVERTING", "EXPANDING"}
    BY <2>2 DEF Settled, WorkedOn, ReadAtRest
  <2>3. ASSUME NEW p \in {"oBegin", "xBegin"}, NEW l, Go(t, p), Note(t, l)
        PROVE  WorkedOn' /\ \A u \in Task : ReadAtRest(u)'
    <3>1. pc'[t] = p /\ \A u \in Task \ {t} : pc'[u] = pc[u] /\ loc'[u] = loc[u]
      BY <1>1, <2>3 DEF Go, Note
    <3>2. p \in TaskSteps
      BY DEF TaskSteps, Begins
    <3>3. QED
      BY <3>1, <3>2 DEF Settled, WorkedOn, ReadAtRest
  <2>4. CASE ~Claimable(stale) /\ UNCHANGED <<job, pc, loc>>
    BY <2>1, <2>2, <2>4
  <2>5. CASE job' = [job EXCEPT !.phase = "FAILED"] /\ UNCHANGED <<pc, loc>>
    BY <1>1, <2>2, <2>5 DEF JobRow
  <2>6. QED
    BY <1>4, <2>3, <2>4, <2>5 DEF Start
<1>5. QED
  BY <1>2, <1>3, <1>4

LEMMA NextInvW == InvW /\ [Next]_vars => InvW'
<1>1. SUFFICES ASSUME InvW, [Next]_vars, past' = {} PROVE Settled'
  BY NextInv DEF InvW
<1>2. CASE UNCHANGED vars
  BY <1>1, <1>2 DEF InvW, Settled, Event, WorkedOn, ReadAtRest, Expands, Retries, vars
<1>3. CASE Next
  <2>1. past = {} /\ Event' = {}
    BY <1>1, <1>3 DEF Next
  <2>2. Inv /\ Settled
    BY <1>1, <2>1 DEF InvW
  <2>3. WorkedOn' /\ \A u \in Task : ReadAtRest(u)'
    BY <1>3, <2>2, StepWorked, AskWorked, WorkerWorked DEF Next
  <2>4. QED
    BY <2>1, <2>3 DEF Settled
<1>4. QED
  BY <1>1, <1>2, <1>3

\* No job in progress is stranded: while all workers are up one of its tasks is
\* running, for any number of crashes, graceful stops, failures, recoveries and
\* resumptions, unless it was cancelled, expanded beside another task, or in
\* progress with cancel_requested set or while a chapter was retried.
THEOREM NothingIsStranded == Spec => []Attended
<1>1. Init => InvW
  <2>1. SUFFICES ASSUME Init PROVE Settled
    BY InitInv DEF InvW
  <2>2. PICK t \in Task : pc = [u \in Task |-> IF u = t THEN "oBegin" ELSE "idle"]
    BY <2>1 DEF Init
  <2>3. \A u \in Task : loc[u].req = NoRequest
    BY <2>1 DEF Init, Blank
  <2>4. \A u \in Task : pc[u] \in {"idle", "oBegin"}
    BY <2>2
  <2>5. \A u \in Task : ~Retries(u) /\ ~Expands(u) /\ pc[u] \notin {"cancelAsk", "cancelTasks"}
    BY <2>3, <2>4 DEF Retries, Expands, RetrySteps
  <2>6. ~job.cancel
    BY <2>1 DEF Init, NewJob
  <2>7. Event = {}
    BY <2>5, <2>6 DEF Event
  <2>8. pc[t] \in TaskSteps
    BY <2>2 DEF TaskSteps, Begins
  <2>9. QED
    BY <2>4, <2>7, <2>8 DEF Settled, WorkedOn, ReadAtRest
<1>2. InvW => Attended
  BY DEF InvW, Settled, WorkedOn, Attended
<1>3. QED
  BY <1>1, <1>2, NextInvW, PTL DEF Spec
=============================================================================
