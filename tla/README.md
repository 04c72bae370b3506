# Formal models of QuanLyTruongHoc (project B1) and of Wiii's runtime

The repository holds two programs:

- **project B1** (`src/project B1/`): QuanLyTruongHoc, the administration of a university. ASP.NET Core controllers
  over PostgreSQL through Entity Framework Core, and a React front end.
- **Wiii** (`src/wiii-main/wiii-main/`): an AI platform. A FastAPI backend (`maritime-ai-service`) on asyncio and
  PostgreSQL, and a Tauri desktop client.

They share no code. The models cover the course registration of B1, whose concurrency is the hardest in it, and four
pieces of Wiii that keep state across tasks, workers and failures: the circuit breaker, the session event log, the
generation of courses and the scheduled tasks.

Modules about B1 keep the Vietnamese names of the code (`DangKyHocPhan` course registration, `HuyDangKy` cancel,
`DoiLop` swap class, `diem` mark, `dot` round, `lop` class, `sv` student, `ky` term, `lich` timetable, `si so` size).

## Inventory

### project B1

Controllers have no state of their own; everything lives in the database. Two facts make B1 concurrent:

1. a request is a chain of awaited queries that ends in `SaveChangesAsync`. There is no explicit transaction, lock or
   concurrency token, so other requests run between any two queries and only the last step is atomic;
2. `SaveChangesAsync` names in its UPDATE only the columns that differ from the row as it was *read*, fails as a whole
   when a row it deletes is gone, and relies on the unique indexes and `ON DELETE CASCADE` of `AppDbContext`.

| Component | State | Operations | What makes it correct |
|---|---|---|---|
| Course registration (`DangKyHocPhanController`) | `DangKyLopHocs` | DangKy, HuyDangKy, DoiLop | one class per subject and term, no clash, no overfull class, only in an open round, prerequisites |
| Rules (`DangKyRules`, `LichHoc`, `DiemQuyDoi`) | none | clash, round, semester, grade scale | agree with what they mean |
| Marks (`DiemHocPhanController`) | `DiemHocPhans`, totals in `SinhViens` | NhapDiem | Z belongs to X and Y; totals follow the marks |
| Classes (`LopHocTrongKyController`) | `LopHocTrongKys`, schedules, teachers | Create, Update, Delete, HuyLop | rooms and teachers free; nothing orphaned; no registration lost |
| Rounds (`DotDangKyController`) | `DotDangKys` | Create, Update, Delete | stored rounds are valid |
| Curriculum and schedule assistant (`GoiYLichService`) | none | BuildChuongTrinh, GoiYLich | offers what DangKy accepts; timetables without clashes |
| Schema (`AppDbContext`) | tables | constraints | used by all of the above |
| Chat assistant, documents, accounts, catalogue, reports, front end | tables of their own | CRUD, calls to AI services | not modelled |

They interact through the tables only: a mark entry races a cancellation, an administrator deletes a class a student is
registering in, a round closes while a request is under way, and a curriculum screen is read in between.

### Wiii

| Component | State | Operations | What makes it correct |
|---|---|---|---|
| Circuit breaker (`core/resilience.py`) | state, count, time of the last failure | acquire, is_available, record_* | protects a failing service, never locks it out for good |
| Session event log (`engine/runtime/session_event_log.py`) | table `session_events`, or lists in memory | append, prune_older_than, get_events | every session is numbered in order |
| Native dispatch and wake (`native_dispatch.py`, `session_wake.py`) | the log | one turn, one replay | a turn is recorded as far as it went; a replay misses nothing |
| Course generation (`course_generation_*_runtime.py`, `course_generation_repository.py`) | a row of `course_generation_jobs`, the document, the courses in the LMS, background tasks of every worker | outline, expand, retry a chapter, cancel, resume, recover at start | a job can go on from its row alone; no approved chapter disappears; what it lists as done is in the LMS |
| Scheduled tasks (`scheduled_task_executor.py`, `scheduler_repository.py`) | table `scheduled_tasks`, an executor per worker | poll, run, mark, cancel | nothing claims a row, yet extra runs are few, an active task can run, a due one is served |
| Run state and subagents, magic-link sign-in, soul bridge | in-process maps, WebSockets | - | not modelled yet |
| Language model pool, response cache, multi-agent runner, clients | configuration, caches, prompts | - | not modelled: data, UI, or decided by language models |

Everything in this code that is hard to test is listed with its line in `PROJECT.json` under `hazards`, each with the
properties that would catch it.

## Modules

```
QuyTac                       rules of B1 (operators), and GhiCot: an EF Core UPDATE
 |- SoDangKy                 the abstract book of registrations
 |- DangKyHocPhan            registration: DangKy, HuyDangKy, DoiLop       <- MCDangKyHocPhan
 |   |- DangKyHocPhan_proofs
 |   |- DiemHocPhan          + mark entry                                  <- MCDiemHocPhan
 |   |   `- ChuongTrinh      + the curriculum screen                       <- MCChuongTrinh
 |   |       `- DiemHocPhan_proofs   marks and curriculum screen (EXTENDS ThuatToan_proofs too)
 |   `- LopHocTrongKy        + administration of classes                   <- MCLopHocTrongKy
 |       `- LopHocTrongKy_proofs     classes; at its end, rounds
 |- KiemQuyTac               reference definitions of the rules             <- MCKiemThuatToan
 |- XepLich                  the timetable search                           <- MCKiemThuatToan
 |   `- ThuatToan_proofs     the search, and the rules of KiemQuyTac
 `- DotDangKy                rounds
     `- CacDot               the same, to stand beside other components    <- MCKiemThuatToan
CircuitBreaker, CircuitBreaker_proofs                                      <- MCCircuitBreaker
InMemorySessionEventLog      the atomic log of one session
 `- SessionEventLog          PostgreSQL log, turns, prune, wake            <- MCSessionEventLog
     `- SessionEventLog_proofs
CourseGeneration, CourseGeneration_proofs                                  <- MCCourseGeneration
ScheduledTasks, ScheduledTasks_proofs                                      <- MCScheduledTasks
```

**DangKyHocPhan.** `lopHoc`, `dangKy`, `diem`, `dots` are the tables (`Khong` is NULL or no row), `maKe` the identity
column, `gio` the clock. A request in slot `r` is at `buoc[r]` and holds in `viec[r]` what its queries returned.
Each action is one query (`Doc...`) or the final `SaveChangesAsync` (`Ghi...`, with `...Loi` for the exception):
`DocLop, DocDot, DocMon, DocLichSu, DocLich, GhiDangKy`; `DocDangKyHuy, DocDotHuy, GhiHuy`;
`DocDangKyCu, DocLopMoi, DocDotDoi, DocLichDoi, GhiDoi`. The guards stand in the order of the code, so that the place
counted by the first query is what the third tests. A request that fails the first test starts no handler. Marks are in
hundredths; requests are authorised; `BatBuocDot` is true, as in the code.

**DiemHocPhan** adds NhapDiem: two transactions with a read between them, written through rows that EF Core tracks
since the first query. **ChuongTrinh** adds state to nothing: it puts the second copy of the rules
(`GoiYLichService`) next to the first. **LopHocTrongKy** adds the administrators; Update and HuyLop delete the schedule
rows they have read by id, which in effect is an optimistic lock on a class (`con`). **DotDangKy** stands alone;
**CacDot** gives its constants and variables other names, so that one run and one module of proofs can hold it with
something else.

**XepLich** is the depth-first search of the schedule assistant with its call stack spelled out: a step is a call
(`GoiHet`, `GoiCat`, `GoiMon`), a turn of the loop over classes (`LapTrung`, `LapThu`, `LapXong`) or a return (`VeThu`,
`VeBoQua`), and the locals of the call at the i-th subject are `conThu[i]`, `best[i]`, `dangThu[i]`; around it the searches of
`TimNhieuLichHoc`, up to five timetables. The classes of a subject are a set, because the query that lists them has no
`ORDER BY`: classes of one score come in any order. Scores and the texts of the reasons are data.
**KiemQuyTac** compares the rules with reference definitions. `MCKiemThuatToan` puts rules, search and rounds into one run,
one of them per behaviour.

**CircuitBreaker.** A method holds the `asyncio.Lock` and does not await inside it, so it is one step. `call[t]` says in
what style task `t` uses the breaker: decorator, `async with` (which sees cancellation) or `is_available()` and
reports by hand. The failure count stops at the threshold and the time since the last failure at the timeout, as
nothing compares them further: the state space is finite without a bound on time.

**SessionEventLog.** `log` has every row ever committed, `live` the places in it still in the table. An INSERT takes two
steps: `BeginInsert` computes `MAX(seq)+1` in its snapshot, `Commit` or `Conflict` is what the unique constraint makes
of it. A turn appends user message, assistant message and tool results; `Abort` is a crash, a cancellation or a lost
connection at any point. `Prune` deletes a prefix in time, of one event type or of all; a retention is a day at least,
so it never touches rows younger than a statement in progress. The model is of one session, as sessions share no row.
The two readers' filters by organisation are left out.

**CourseGeneration.** One job, as jobs share nothing. `job` is the row; a slot `t` is a request in flight or a background
task, at `pc[t]` with its local variables in `loc[t]` and its worker in `loc[t].at`. Names of steps begin with the
coroutine: `o` for `run_outline_phase_impl`, `x` for `run_expand_phase_impl`, `r` for `run_retry_chapter_impl`; a step is
one statement on the row, or one call of the parser, the model or the LMS, and what the handlers of `CancelledError`
and of errors do is `Cancelled`, `Failed`, and the `rFail...` steps of a retry. A retry reads whole lists (`RRead`) and
writes them back later (`RWrite`, `RFailWrite`, `RClose`); an expansion keeps its lists in memory from `XPlan` on.
`Interrupt` is `task.cancel()` on all tasks of a worker: where the exception comes out depends on where the task is
(`Interrupted`): it skips a task not entered yet, kills a handler, and is swallowed while a task waits for its
heartbeat. `Start` is the recovery when a worker starts, `Crash` and `Stop` lose a worker. The LMS answers, or fails with
or without having stored the chapter (`Push`). Progress, percentages, heartbeats and the time of a claim are abstracted:
`stale` says whether a row in recovery is a minute old.

**ScheduledTasks.** `row` is the table, `ahead` its order by `next_run` among the due rows: a task that comes due has
those before it that were due already. Each worker goes round `Poll`, `Run`, `MarkExecuted` or `MarkFailed`; the list it
works through is the one it read, whatever has happened to the rows since. A repository call swallows its database
error, so an update may be lost unnoticed (`Writes`).

## Runs

Depths and bounds are in the `.cfg` files. In all runs of B1 `CHECK_DEADLOCK FALSE` is there because ids (`MaxMa`) and
the clock (`MaxGio`) are bounded and the system then really stops; in the two of the event log because the turns end, in `CourseGeneration` because a job ends and requests are bounded, and
in `ScheduledTasks` because all tasks may be over. `Breaker` checks deadlock.

| Run | Instance | What it shows |
|---|---|---|
| `DangKyTuanTu` | 2 students, 1 request each, 5 classes, 2 terms, 3 ids to give out | one class per subject and term (`MotLopMotMon`), no clash (`KhongTrungLich`), prerequisites kept although cancelling deletes marks (`TienQuyetConDat`); the handlers implement the book (`ThucThiSo`) |
| `DangKyDongThoi` | 3 students, 2 requests at a time, also of one student, 2 classes of 1 place | what is left when nothing keeps requests apart: no duplicate row, overbooking by at most the requests in flight less one, rounds respected |
| `DoiLopKhacKy` | 1 request, swap to any class | **violation**: DoiLop enters a class of a term that is not open |
| `DiemVaChuongTrinh` | 1 student, 1 teacher, 1 mark entry beside 1 request | Z is the mean of X and Y, no credit is missing from the totals, no orphans; a subject the screen offers is accepted |
| `LopHocHaiQuanTri` | 2 administrators, 3 class ids, 1 student with a graded registration | no double booking of rooms and teachers, no half-written class, nothing orphaned |
| `LopXoaMatDangKy` | 1 administrator, 1 student | **violation**: Delete takes a registration that came after its check |
| `ThuatToan` | 30 meetings, 70 mark sheets, 9 terms, timetables of 3 subjects, and one of 6, whose variants reach the limit of five; node limits 3 and 200 000; 2 administrators and 2 rounds | the rules meet their reference definitions; what the search offers is a timetable (`LichHopLeHet`), and complete if any is (`XepDuKhiCoThe`); stored rounds stay valid, deleted ones stay deleted |
| `Breaker` | 3 tasks, threshold 2, timeout 2 | closed exactly below the threshold, no call within the timeout of a failure, never locked out (liveness), no deadlock |
| `SessionLog` | 2 turns, up to 2 tool calls, 3 attempts per append | unique numbers, no row missed by a cursor, turns recorded in order and once, no ghost tool call, refinement of the in-memory log |
| `SessionLogPruned` | same, session older than the retention | **violation**: numbers start again at 1 and a cursor misses events |
| `CourseGeneration` | 1 job of 2 chapters, 2 slots, 2 workers, 1 new course, 3 requests, 1 worker lost | completed chapters are in the LMS (`CompletedArePushed`), the job can go on from its row (`Recoverable`), no approved chapter is lost (`NoChapterLost`), a job in progress that nobody cancelled or retried is worked on (`Attended`) |
| `ScheduledTasks` | 2 workers, 2 tasks, polls of 1, 1 worker lost, 1 update lost | few extra runs, cancellations take effect, active tasks can run, due tasks are served (liveness) |

Why the instances are enough: two requests are needed for every race in the hazard list and a third adds to it only the
overbooking, for which `DangKyDongThoi` has three students; the other counts are proved for any number of requests.
The classes include two of one subject, two that clash, one with a prerequisite, one full and one of a past term; the
clock passes a registration window and a withdrawal window. Two turns make an append lose three times, since each turn
appends up to four events. Three requests let a teacher expand, cancel and resume, or retry two chapters side by side; the second chapter depends on
the first, so an expansion has two waves; the lost worker dies, or is stopped, at every step and comes back. A LIMIT of 1
against two due tasks makes a poll leave one out. What is listed under Proofs does not depend on these
bounds. Requests, turns, slots, workers and
tasks are interchangeable where symmetry is declared; `ScheduledTasks`, which checks liveness, declares none.

**Fairness.** `CircuitBreaker` has `WF(Tick)`: time passes. `NeverLockedOut` asks nothing of the tasks, which may hang,
fail or be cancelled for ever. `ScheduledTasks` has weak fairness of what each worker does: its loop polls again after
every round, an agent answers or runs into its timeout, and gunicorn restarts a worker that is lost. Nothing fair is
asked of the clock or of owners. The handlers of B1 and the tasks of a course end by themselves, so no liveness is
stated of them; that somebody works on a course is the state property `Attended`.

**Modes.** Some constants separate what the code guarantees by itself from what it guarantees only if requests keep
apart. Setting them to FALSE makes TLC show what happens then:

- `MoiSVMotYeuCau` (no student has two requests in flight): two tabs of one student can register two classes that clash,
  or two of one subject.
- `DoiCungKy` (clients swap within a term, as the screen does): see `DoiLopKhacKy`.
- `MoiSVMotNguoi` (one mark entry per student at a time): two entries mix the columns of one mark, and one loses the
  totals of the other.
- `CungLop` (administrators at work at the same time are at the same class): two who create or edit *different* classes
  can give both one room or one teacher.
- `TaoXongMoiSua` (nobody edits a class between the two saves of its creation): Create looks the teacher's timetable up,
  saves the class, and saves the teacher. An Update in between moves the class, sees no teacher to check for, and the
  teacher then has two classes at once.
- `MoiDotMotNguoi` (one edit per round): two edits mix scopes and dates into a round that `Validate` refuses.
- `KeepsNewest` (a session's newest event is younger than the retention): see `SessionLogPruned`. `PruneKind` names the
  event types pruned by themselves; pruning `tool_result` alone leaves calls pending whose turn has answered.

Six more properties are stated, fail, and are in no run: `KhongQuaSiSo` (a class may be overbooked by concurrent
requests, within the bound of `VuotSiSoCoHan`), `MotNguonSuThat` (the screen withholds a failed compulsory subject of a
later semester that DangKy accepts), `OneProbe` (the class comment of the breaker promises one test request in
HALF_OPEN; a comment in the code admits that all pass), `OpenLasts` (a call begun before the breaker opened closes
it when it succeeds), `TichLuyDung` in `DiemHocPhan` (a mark that is cancelled with its registration stays in the
totals) and `NoDuplicateWork` in `CourseGeneration` (a worker that starts claims every job that is EXPANDING, also one
that another, living worker expands, although `claim_jobs_for_recovery` says it claims "so multiple workers do not
duplicate work"). Adding one to a `.cfg` reproduces it.

## Proofs

Every safety invariant and action property that a passing run checks is also a theorem, for all values of the
constants. Where a theorem needs more than the code guarantees by itself, the condition stands in its
statement: a mode of the last section, or a property of the tables at the start. The instances meet all of them
(`ASSUME` in the MC modules, `TRUE` in the `.cfg` files).

### project B1

`DangKyHocPhan_proofs`, for every set of students, classes, rounds and request slots and all bounds, from the assumptions
`HangSo` (the slots are finite, NULL is not a row) and `BangDau` (the first tables obey the database's constraints and
no class is overfull), which TLC evaluates on the instances:

- `KieuDung`, `KhongBaoGioMoCoi`: from the inductive `IInv` = type correctness, what each request holds (`YeuCauDung`),
  ids left for the inserts in flight (`MaConMoi`), nothing at or above the next id (`BangYen`), no orphans. `YeuCauDung`
  is needed because a commit writes what an *earlier* query read; `BangYen` because an INSERT must not meet a row.
- `KhongBaoGioTrung`: every step only deletes (`ChiXoa`) or inserts one row that the index admits (`Chen`).
- `VuotCoHan`: the size of a class plus the requests holding a place in it (`GiuCho`) never exceeds its limit plus the
  number of requests less one; a request joins `GiuCho` only when it saw a free place.
- `ChiTrongDot`: a request past its round's query carries the moment at which the round was open (`YeuCauTrongDot`),
  under the assumption `DoiCungKy`.
- `GiuMotLopMotMon`, `GiuKhongTrungLich` (the properties `MotLopMotMon` and `KhongTrungLich`) and `LaSoDangKy`, the
  refinement `ThucThiSo`, under `MoiSVMotYeuCau` and `DoiCungKy`. The handlers check, wait, and write. What saves them is
  that only the student's own request adds to the student's rows: `DaBiet` says that what a request has found - no class
  of the subject, no clash - is still true, and others can only take rows away. The commit is then a step of the book
  `SoDangKy`, and every other step a stutter. With two requests of one student `DaBiet` fails, and so do the properties.
- `TienQuyetLuonDat` (`TienQuyetConDat`): cancelling deletes a mark, but it needs an open round for the class; if no round
  is of a term that has marks already (`ChamSauDot`), no registration with a mark can go, so a prerequisite once passed stays
  passed. It does not need one request at a time.

`ThuatToan_proofs`, for all meetings, marks, subjects and terms within `MauThu` (what the validators accept):

- `LichTrungDung`: the clash test against the days and periods two meetings share.
- `DiemTangKhongThiet`: credits and GPA are sums over sets of subjects and a rounding to even. The library's induction
  rules cannot be instantiated here, so the facts about sums (`TongTach`, `TongHon`) are proved by a smallest
  counterexample: the strict subsets of a finite set are well-founded (`FS_StrictSubsetOrderingWellFounded`), so if some set
  broke the fact a minimal one would, and taking out one subject contradicts it.
- `KyDatDungThuTu`: the two ways of counting semesters keep the order of terms.

and for the timetable search, for any number of subjects and classes, any scores, any order of classes of one score and
any limit, from `BaiHopLe` (the subjects to place are distinct and none is registered already; the caller builds them so):

- `LichLuonHopLe` (`LichHopLeHet`), from `XepBatBien`: `daChon` holds the registered classes and those being tried by the
  calls in progress, nothing else (`ChonDung`, since the code adds and removes in one dictionary); what a call
  returns, and every `best`, is a valid timetable at the place where it stands that accounts for the subjects from there on
  (`TraHopLe`, `TotHopLe`). It holds of searches that were cut short as well.
- `XepDuNeuCo` (`XepDuKhiCoThe`), from `TimBatBien`. While the limit is not passed, take any timetable of all subjects. If
  it agrees with the classes being tried by the calls up to some place, then its class there is still to come, is the one
  being tried, or `best` already leaves nothing out (`HetCho`); and a subject is left out only if no class fitted beside
  those being tried (`BoKhiHet`). So the early stop, the skipping and the preference by score lose nothing. The recursion of the code
  needs no induction over data here: its stack is state, and the invariant goes over the steps.

`DiemHocPhan_proofs`, about marks and the curriculum screen together with students' requests, with `TinChiDuong`
(`MonHocController` refuses subjects without credits):

- `DiemKhongMoCoi` (`KhongMoCoi`), with any number of entries for one student.
- `DiemLuonNhatQuan` (`DiemNhatQuan`), under `MoiSVMotNguoi`: the mark an entry writes over is the one it read, or the
  registration has gone and the UPDATE fails.
- `KhongBaoGioThieuTinChi` (`KhongThieuTinChi`), under `MoiSVMotNguoi`: between the two transactions students can only take
  marks away, so the totals computed from what was read count at least what is still there; and the row that is
  written is as it was when the entry read it. `GiuTinChi` carries this through every step (`TheoTin`).
- `DeNghiDangKyDuoc` (`MonMoiDangKyDuoc`): the screen counts the semester from the school year, DangKy from the term's own
  year. They agree in the direction claimed when no term begins before its school year (`KyTrongNamHoc`), which nothing
  in `HocKyController` checks.

`LopHocTrongKy_proofs`, from one invariant `BatBienA` about classes, administrators' requests and students' requests:

- `LopLuonNguyenVen` (`LopNguyenVen`): as long as the schedule rows an edit has read are there (`con`), the class is as it was
  read (`LopNhuDoc`); an edit that commits deletes them, and with that fails every other one. No mode is needed.
- `KhongBaoGioConDauVet` (`KhongConDauVet`): ids not given out and classes that are gone have no name and no teacher
  (`DauVet`), and the cascade takes the rest.
- `PhongLuonMotLop` (`PhongKhongTrung`), under `CungLop`: a room found free stays free until it is booked.
- `GiangVienLuonMotLop` (`GiangVienKhongTrung`), under `CungLop` *and* `TaoXongMoiSua`. The proof did not go through without
  the second: Create writes the teacher in a transaction of its own, and an Update of the new class in between defeats the
  check. TLC confirms it when the mode is FALSE.
- `DotLuonHopLe` (`DotHopLe`, under `MoiDotMotNguoi`) and `DotXoaLaHet` (`XoaLaHet`, without), about the rounds of `DotDangKy`:
  the row under an edit is as the edit has read it, or gone (`ViecDotDung`). The assumption `HangDau` of `CacDot` says that the
  rows at the start are valid.

### Wiii

`CircuitBreaker_proofs`, for every threshold, timeout and set of tasks: `TypeCorrect`, `CountDecides` and
`CallsKeepDistance`, from the invariant that HALF_OPEN implies the timeout has passed. Without it `NoCallTooSoon` is not
inductive, as HALF_OPEN admits everybody.

`SessionEventLog_proofs`, for every number of turns and every set of tool calls, under `KeepsNewest`: `TypeCorrect`,
`WorkerMissesNothing`, and `OptimisticIsLocked`, which is the refinement: the PostgreSQL log implements the in-memory
one. The invariant has two ideas. While the newest row stays, the n-th row ever committed has seq n (`Numbered`), so
`MAX(seq)` counts the commits. And no row goes that was committed under an open INSERT (`Held`): were such a row pruned,
its number would be free again and the INSERT would store it behind a worker's cursor. Hence an INSERT whose number is
free is the first to commit since it computed it (`FreeIsNext`). Without `Held` the invariant is not inductive.
Two more theorems are about what the log tells. `TurnsTellTheirStory` (`TurnsRecorded`) does *not* need `KeepsNewest`: its
invariant `Recorded` places every row of a turn at its rank in the turn's story (`Rank`) without mentioning a seq, so it
survives numbers that are given out again. `RepliesLeaveNothingPending` (`NoGhostCalls`) needs `KeepsNewest` and that
`tool_result` is not pruned alone; then a result that goes takes every row before it along (`Behind`).

`CourseGeneration_proofs`, for any chapters, outlines, requests, slots, workers and bounds, from `CourseAssumption`:

- `TypeCorrect`, `JobsGoOn` (`Recoverable`) and `CompletedIsPushed` (`CompletedArePushed`) from one invariant `Inv`. The
  row satisfies what is claimed (`RowOK`), and so does everything a slot may write back to it (`CarriesRow`): the
  snapshot it carries, the phase and the lists it has read, the chapters it believes finished. As nothing takes the
  outline, the snapshot or a chapter of the LMS away (`Grows`), what was true when a slot read it is true when it
  writes. `RetryKnows` is needed because a failed retry stores how its chapter ended.
- `NothingIsLost` (`NoChapterLost`) from `InvC`: as long as no task has run beside an expansion, an expansion finds every
  approved chapter in its lists or its waves, and the lists a retry has read, however old, cover what the row's cover
  (`KeepsChapters`), since every retry moves a chapter between the lists and takes none out of both. A phase COMPLETED
  that a retry writes back is true by then because no expansion can have begun in between.

- `NothingIsStranded` (`Attended`) from `InvW`: a job in progress has a task, or a worker is down and will claim it when
  it starts (`WorkedOn`). Proving it showed what else can strand a job, now the exception "adrift": a worker does not
  claim a job whose `cancel_requested` was left set, and a retry can write back a phase in progress that it has read.

As a by-product, the branch of `recover_course_generation_jobs_impl` for a job without its expansion request cannot be
reached: `Recoverable` contradicts it, so `Start` has no such action.

`ScheduledTasks_proofs`, for any number of workers and tasks, any LIMIT and any plans: `TypeCorrect`, `FewExtraRuns`
(`ExtraRunsBounded`), `CancellationIsSoon` (`CancelledSoonStops`) and `ActiveTasksRun` (`ActiveWillRun`). The invariant
counts: while a task is active its counters are below their limits, and afterwards each worker that has it in its list
can raise them once more, so counter plus holders is bounded by limit plus workers (`Bounded`). `ListsOK` and `NotAheadOfItself`
give that a list names a task once, without which a worker could count twice.

### Only model-checked

The liveness properties `NeverLockedOut` and `Served`, which are out of tlapm's reach, and the three violations, whose
counterexamples TLC gives.

## Observed and not checked

Behaviour met while modelling that the models follow, which a maintainer may want to know and which no run refutes:

- Scheduled tasks: the executor's docstring says tasks execute concurrently up to `scheduler_max_concurrent`; they run one after the
  other, and the setting is the LIMIT of the poll. `failure_count` is never reset by a success. A mark by a worker
  already at work overwrites a cancellation with `completed` or `failed`. A notification that is not delivered still
  counts as executed. A lost `mark_executed` makes a task repeat.
- Course generation: resuming an expansion that was cancelled before its course was saved creates a second course.
  A cancellation that arrives while the outline is saved, or before a task's first UPDATE, has no effect. A second
  cancellation kills the handler of the first and leaves the job in an active phase without a task. A job in
  RECOVERING is not claimed by a worker that restarts within a minute, and then waits for the next start. A retry ends by
  writing back the phase it has read, also one in progress whose task is gone: nobody then works on the job until a worker
  starts. So does a `cancel_requested` that is left set in a job in progress, which the recovery does not claim. A graceful stop marks jobs CANCELLED instead of leaving them to recovery. Inside a
  wave a cancellation is recorded as a failed chapter.
- Schedule assistant: once a timetable is found, `XayDungKetQua` adds as many electives as the student wished without naming
  them, from all open electives that the timetable lacks and with all their classes. A named elective that a variant
  could not place can so come back as an unnamed one, while it is also reported as not placed. That step is not modelled.
- Two simplifications: a cancelled UPDATE does not take effect, and the handlers' own statements do not fail.

## Plan

Done: 1. rules and registration; 2. its abstract book; 3. marks, curriculum, classes, rounds; 4. the timetable search;
5. circuit breaker; 6. event log with turns and wake; 7. course generation with crashes and recovery; 8. scheduled tasks;
9. the proofs above.

What would come next, in this order: the streaming twin of native dispatch, whose appends may fail silently, and the
subagent events; magic-link sign-in (one-time tokens, the session store between the e-mail link and the WebSocket); run
state and subagent runner; the soul bridge (reconnection, queue at its limit, duplicates); `HttpRetry` and the retry
decorators beside the breaker. For the proofs: bounds on what concurrent requests of one student can break without
`MoiSVMotYeuCau`, and the abstract specification of a breaker.

## Not modelled

- What only reads or copies rows: catalogue, accounts and reports of B1.
- Conversions: PDF extraction, embeddings, chunking, prompt texts.
- User interfaces: the front end of B1, the desktop and embed clients of Wiii.
- The multi-agent runner and the language model pool: their steps are chosen by language models or by configuration, and
  a model of them would claim nothing the code decides.
- The acceptance scripts and the validators under `tools/wiii_self_harness` and `scripts/`, the largest files of the
  repository: sequential programs over JSON evidence files, without state that outlives a run.
- Similarity search of the response cache: what it returns depends on embeddings.

The models therefore cover a small share of the repository's lines; they cover the parts where order, failure and
concurrency decide what is right.
