# A TLA+ verification of `palimpsest`

`palimpsest` executes a scripted incident workflow (fetch, classify, ticket,
channel post, page, status page) against real services. It journals an intent
before every effect and a result after it. When a step fails it forks the
workflow onto a new branch, compensates what the dead branch left behind and
only then lets the irreversible page go out. The claim is *Effect-Exactly-Once*:
no effect is duplicated, no alert is lost, abandonment is clean, at most one
page is of unknown outcome, with processes killed at any point and any number of
them at work. Around it are an alert stream, a journal shared by threads
and processes, and a dashboard that launches runs and shows them. This directory
states what each promises, model-checks it and proves part of it.

Paths below are relative to the repository root.

## 1. The system

| Component | State | Operations | Talks to |
|---|---|---|---|
| **Vocabulary** `palimpsest/tools.py`, `types.py` | none | `effect_key`, effect types, the scripted trace, severities, statuses | everybody |
| **Journal** `palimpsest/journal.py` | SQLite tables `records`, `branches`, `leases` (autocommit) | `append`, `create_branch`, `set_branch_status`, `acquire_lease`, `expire_lease`, queries | shared by every orchestrator process |
| **World** `palimpsest/world.py` | `applied` (key to effect), `epoch_seen`, ground-truth ledger, pending timers | `execute`, `compensate`, `probe`, `_schedule_late`, fault settings | called by the engine |
| **HTTP world and services** `palimpsest/http_world.py`, `services.py` | the same, in three services with one fence each, plus a buffered ledger client and the ledger service | the same operations over HTTP, replies may be lost | engine to service to ledger |
| **Engine** `palimpsest/engine.py` | in memory only: branch, step, epoch, result at hand | `run`, `recover`, `_run_branch`, barrier with compensation, `_diverge`, `_escalate_now`, `reconcile_unknowns` | journal and world |
| **Orchestrator process** `run_orchestrator.py` | one engine, one alert source | take an alert, handle it, acknowledge it | source, engine |
| **Alert source** `palimpsest/ingest.py` | Redis stream and consumer group (or a queue), message-id table | `next`, `ack`, `claim_stale` | process |
| **Checker** `palimpsest/checker.py` | none | four clauses computed from ledger and journal | reads |
| **View, audit** `palimpsest/view.py`, `audit.py` | none | barrier gate, scoreboard, timer, phones, audit lines | reads |
| **Dashboard server** `palimpsest/dashboard.py`, `run_dashboard.py` | worker threads, a table of what runs; on disk a journal and a verdict for each pane | `/api/run`, `/api/run_live`, `/api/state`, `/api/health` | engine in its own process, services over HTTP, producer and orchestrator as processes |
| **Page** `palimpsest/static/dashboard.html` | what is shown, the Run button | `tick`, `pollRunning`, the line above a pane | server |
| **Drivers** `palimpsest/scenarios.py`, `sweep.py`, `failover.py` | fresh journal files | fault settings, crash phases, redelivery, `make_ctx`, `_finish` | engine, dashboard |
| **Bench, demo, smoke test, launcher** | none | timing, printing, start-up | all |

What makes the system hard:

* **Crashes between durable steps.** The engine keeps nothing that survives. A
  divergence alone is five durable writes (`engine.py:253-265, 393-411`), and
  recovery has to make sense of every prefix.
* **Two leaders.** A lease is taken at the start of a run and never renewed
  (`engine.py:140`). A run longer than the TTL goes on beside its successor;
  only the services fence it, the journal does not.
* **Requests in flight.** A service asks its fence and looks the key up when it lets a
  request in; the effect comes a latency later, under another lock or none
  (`world.py:167-213`). Meanwhile the caller may be killed or deposed, or stop waiting,
  and its successor may ask for the same key.
* **Unknown outcomes.** A timeout or a lost reply may hide an effect; some tools
  cannot be probed; a timed-out request may land later (`world.py:218-228`).
* **Retry and redelivery.** Alerts come at least once; every effect may be
  asked for again under its key, every undo without one.
* **Partial failure of compensation**, with a bounded number of attempts and a
  deadline, after which a human has to be told what is left.
* **Threads on one connection.** A journal may be shared by threads (`bench.py`
  does it). Lease calls take a lock and a transaction, appends take neither, and
  both read what their statement did from the connection (`journal.py:147, 355`).
* **Files that are removed and made again** while others have them open: a run
  wipes its pane's journal, the page polls it all the time, and a reader that finds
  no file may make one (`dashboard.py:51-56`, `scenarios.py:68-74`).
* **State that outlives a run** in the memory of the services: keys, fences, faults
  and timers, cleared call by call over HTTP (`dashboard.py:180-194`).

What makes each component correct: the *journal* only grows and a dead branch
stays dead; the *lease* grants growing epochs and changes hands only after it
lapsed; the *world* holds one effect for a key and serves no deposed leader; the
*engine* announces before it acts, never acts on an irreversible step while a
dead branch has effects in force, undoes only what is dead, in reverse, and
tells a human whatever it could not settle; the *process* acknowledges only what
is settled; the *source* keeps a message until then, from hand to hand; what a call
to the *journal* returned is in the file; a *run* launched from the dashboard
starts clean, leaves the verdict of its own journal and no mark behind; the *page*
comes to show what is on disk.

## 2. The modules

```
Vocabulary
   |            Journal      World
   +------------> |            |
                Orchestrator <-+        Leadership (abstract lease)
                     |                       |
                ExactlyOnce ---- INSTANCE ---+
                  |        \
              Oversight     Overlap --- MCOverlap (with MCOrchestrator)
               |     \        \
   MCOrchestrator     \     OrchestratorProofs
                       \           |
                        \    ExactlyOnceProofs
                         \         |
                          +-- OversightProofs

   EffectService -- MCEffectService,  EffectServiceProofs

   Leadership <- INSTANCE -+- Intake -- MCIntake,  IntakeProofs
                           |    |
   Delivery <--- INSTANCE -|----+
                           |
                           +- Connection -- MCConnection,  ConnectionProofs

   ControlRoom -- MCControlRoom,  ControlRoomProofs
   LiveRun     -- MCLiveRun,      LiveRunProofs
```

Two modules are abstract specifications: `Leadership` is implemented three times (by
the engine's lease, by the lease with a clock and by the statements of
`acquire_lease`), `Delivery` by `Intake`.

* **`Vocabulary`**: constants and pure helpers. A key is the triple that
  `effect_key` hashes (`types.py`). The trace is a constant: the instances use
  the full eight steps or a shorter one that keeps a step of each kind.
* **`Journal`**: the tables as sequences. A record id is a position, so
  `ORDER BY record_id` is the order of numbers. Every query the engine decides on
  (`active_branch`, `last_result`, `completed_results`, `uncompensated`,
  `residue`, ...) is an operator of the same name.
* **`World`**: `execute`, `compensate`, `probe` and `land` relate one request, the
  state of the world and the result its caller sees, in the order the code tests
  things: connection, fence, key, fault, effect, reply. A call has two moments, which
  are operators of their own: it is let in (`let_in`, `_fence`), and later it does what
  it does (`take_effect`, `undo_effect`); `execute` and `compensate` are both in one
  step. `FenceOf` says which tools share a fence: one for the in-process world, three
  over HTTP.
* **`Orchestrator`**: the processes. `orch[o]` holds what process `o` has in
  memory, with `pc` the point it has reached. An action reads what the code reads
  up to its next durable write or service call, and makes that one write or call,
  so `Crash` and another process may come between any two of them.
* **`Leadership`**: what a lease promises, in two actions.
* **`Delivery`**: what an alert source promises, in four: a message that was handed
  out stays pending until it is acknowledged itself, and it is acknowledged only
  after its alert was settled.
* **`Overlap`**: the processes of `Orchestrator`, with the two moments of a call in two
  steps. `atWork` has the requests that were let in and have not ended: between its
  moments a lease may lapse, a successor may be let in for the same key, the caller may
  be killed (`Killed`) or stop waiting (`Leave`), and its request ends all the same
  (`Stray`). Every other action is one of `Orchestrator`.
* **`ExactlyOnce`**: the claim, clause by clause, the refinement
  `Leads!Spec`, and the inductive invariant `Inv`.
* **`Oversight`**: what people are told, computed as the code computes it: the
  four clauses of `checker.py` up to `check_eeo`, the gate, scoreboard, branch tree,
  incident timer and phones of `view.py`, the line the page puts above a pane, and
  what the post-mortem of `audit.py` lists as left over. Its properties compare that with
  what is so.
* **`EffectService`**: the inside of one service. `World` takes a call for one
  step; here a request is a thread that passes two fences, looks its key up,
  sleeps, holds the key, and sends its entry to the ledger through a buffer it
  shares with the other threads; a late delivery is a thread too. An action is
  what a thread does under one lock or between two points where it waits.
* **`Intake`**: what is around the engine. The stream and its consumer group with
  the pending entries, the main loop of each process with its list, its message-id
  table and its stop flag, and the lease of each alert with the clock. What the
  engine does under a lease is one step here; `Orchestrator` in turn has one alert
  and no clock. A message is its position in the stream. Idle times, what is left
  of leases and waits for the write lock are counted up to where the code stops
  telling them apart, so time needs no bound.
  A process that starts while Redis does not answer falls back to its own empty
  queue and takes nothing more (`FallBack`).
* **`Connection`**: one journal file and the SQLite connections on it. The other
  modules take a write for one durable step; here `acquire_lease` is its
  statements, a statement belongs to whatever transaction is open on its
  connection, and `rowcount` and `lastrowid` are read afterwards, when another thread
  may have used the connection. `db` is what is committed, `work` what the open
  transaction sees. The clock is in `Intake`; a lease lapses here at any time.
* **`ControlRoom`**: the dashboard. The worker thread of `/api/run` with every step
  it takes on disk, the readers of `/api/state` step by step, `/api/health`, and
  the page that sends polls, shows answers in the order they come and has the Run
  button. A file keeps its identity when its path is removed. What the engine does
  is a number of rows, what the checker says is the name of the run it graded.
* **`LiveRun`**: `/api/run_live`. The worker clears services and oracle call by call
  in the code's order, wipes the journal, and an orchestrator process then leads
  and calls the services; what outlives a run is in the services (`service`), the
  oracle (`ledger`) and the files (`journals`). Here the engine is whichever calls
  and compensations it could make under its epoch.
* **`MCOrchestrator`**, **`MCOverlap`**, **`MCEffectService`**, **`MCIntake`**, **`MCConnection`**,
  **`MCControlRoom`**, **`MCLiveRun`**: the instances: traces, fences, the fault
  scenarios of `scenarios.py`, crash points, who shares a connection.
* **`OrchestratorProofs`**, **`ExactlyOnceProofs`**, **`OversightProofs`**,
  **`EffectServiceProofs`**, **`IntakeProofs`**, **`ConnectionProofs`**,
  **`ControlRoomProofs`**, **`LiveRunProofs`**: the proofs. The first is about what holds
  with any number of leaders, without a fence and then with it, the second about what takes
  one leader at a time, the third about what people are told.

Where the code's functions are:

| Code | Actions |
|---|---|
| `acquire_lease`, `handle` | `Start`, `NotLeader`, `Lapse` |
| `_select_branch`, `_severity_for_branch` | `SelectActive`, `SelectFresh`, `SelectNaive`, `_run_branch` |
| `_run_branch` | `Replay`, `Complete`, `Pass`, `Block`, `Intent`, `Execute`, `RecordResult` |
| `_resolve_unknown` | `Probe`, `Ambiguous`, `Suppress` |
| `compensate_abandoned`, `compensate_one`, graduation | `Drained`, `BeginPass`, `CompIntent`, `Undo`, `CompResult`, `GiveUp`, `Graduate`, `Graduated`, `Release` |
| `_diverge`, `_abandon`, `_escalate_now` | `Abandon`, `AbandonWithResidue`, `RecordAbandoned`, `Fork`, `RecordFork`, `ForkNaive`, `Escalate`, `ReplayFailed` |
| `reconcile_unknowns` | `Reconcile`, `Recheck`, `Reprobe`, `Rematch`, `Resettle`, `Reconciled` |
| main loop of `run_orchestrator.py` | `Ack`, `Redeliver` |
| `check_eeo` and its clauses, `barrier_state`, `scoreboard`, `branch_view`, `phones`, `post_mortem` | operators of `Oversight` |
| a call of `HttpWorld` while others are at work | `LetIn`, `LetInUndo`, `Answered`, `Stray`, `Leave`, `Killed` of `Overlap` |
| `/execute`, `/compensate` of a service | `Arrive`, `Guard`, `Fence`, `Look`, `Fail`, `TimeOut`, `Hold`, `UndoFails`, `Undo` of `EffectService` |
| `_schedule_late.land`, `LedgerClient.record`, `/record` | `Land`, `Record`, `Deliver`, `Lost`, `Trim` of `EffectService` |
| `publish`, `redeliver`, `claim_stale`, `consume`, `ack` of the Redis source | `Publish`, `Claim`, `Read`, `Ack` of `Intake` |
| main loop and signal handler of `run_orchestrator.py`, over all alerts | `Take`, `Lead`, `Refuse`, `Settle`, `Exit`, `Signal`, `Restart` of `Intake` |
| the clock in `acquire_lease` and in the stream | `MayLead`, `Lead`, `Tick` of `Intake` |
| `alert_source` without Redis | `FallBack` of `Intake` |
| `acquire_lease`, statement by statement; `append`, `expire_lease` | `Ask`, `Lock`, `Begin`, `CompareAndSwap`, `Count`, `Grant`, `Refuse`; `Insert`, `Inserted`, `expire_lease` of `Connection` |
| `/api/run`: `worker`, `make_ctx`, `run_scenario`, `_finish`, `write_verdict` | `Click`, `Mark`, `Look`, `Remove`, `Open`, `Work`, `Finish`, `FinishUnwritten`, `Raise`, `Unmark` of `ControlRoom` |
| `/api/state`: `_pane_state`, `_open_read_only`, `read_verdict` | `Send`, `Exists`, `OpenReadOnly`, `Fallback`, `ReadJournal`, `ReadVerdict` of `ControlRoom` |
| `tick`, `pollRunning`, `/api/health` | `Tick`, `PollRunning`, `Health` of `ControlRoom` |
| `/api/run_live`: `worker`, `HttpWorld.reset`, `HttpLedger.reset`, `set_faults` | `Click`, `Mark`, `Reset`, `ResetOracle`, `SetFaults`, `Wipe`, `Open`, `End`, `Unmark` of `LiveRun` |
| the services under a live run | `Lead`, `Call`, `Undo`, `Land`, `Fail`, `Return` of `LiveRun` |
| `running` and `timer` of `view.py`, `verdictLine` of the page | `running`, `verdictLine` of `Oversight` |
| `kill -9`, `ProcessCrash`, TTL, timers | `Crash`, `Lapse`, `Land` |

Operators named `Bug_...` are slips a rewrite of the code could make: a dropped
guard, a swapped order, a forgotten write. No action uses them. Put in the place
of the definition they stand in front of, each makes TLC refute the property it
belongs to, which shows that the property does depend on that line of the code.

### Abstractions

* One workflow per model of the engine. Workflows share no key, branch or lease
  row; that one process handles several is in `Intake`.
* Outside `Intake` time is nondeterminism: a lease may lapse, a compensation deadline may pass
  and a timer may fire at any moment they can.
* Faults are per call: a tool named by a fault set may fail at any call and need
  not fail at each. Demos and the dashboard set and clear them during a run. An
  empty rota stays empty for as long as the scenario lasts.
* `fail_tools` stands for both *down* and *reject*; they differ only in latency.
* Outside `Overlap` and `EffectService` one service call is one step: no other call comes
  between its two moments, and it ends before its caller does. One write is one step with the
  reads that lead to it (the payload of an escalation is read in the same step as it is
  written).
* In `Overlap` there is no reconciler, which calls while the workflow rests. Fence and lookup,
  two locks a moment apart, are one step when the key is held (a key that comes to be held
  between them is `Found`, one that is undone between them is left out).
* Hash collisions of `effect_key` and the wording of records are left out. Rows
  about the branch tree carry no step.
* The reconciler runs under the last leader's epoch and takes no lease, as in
  the code.
* An injected crash and a kill are the same action, and neither counts as one of
  `recover`'s attempts: the process that picks the alert up starts counting anew.
* In `Connection` a statement is one step: SQLite serialises writers, and what is
  committed survives a kill (`synchronous=FULL`). The seeding `INSERT OR IGNORE` of
  a lease row is part of the update that follows it.
* In `ControlRoom` a run writes `Rows` rows to each journal (one in the run: a
  reader can tell none from some), runs of one scenario are all of the demo alert
  so that nothing but the file tells them apart, and earlier sessions' files count
  as absent: the first wipe removes them.
* In `LiveRun` a call to a service is one step (`EffectService` has its inside), the
  pager is the service whose faults matter, and a service that returns has either
  kept its memory or lost all of it.
* The systems may rest (alert acknowledged, nothing pending, nobody clicks), so the
  runs do not check for deadlock. That they do not rest too early is what `NoLoss`,
  `AllAcked`, `CallsReturn` and `PageCatchesUp` say.

## 3. What the runs check

Bounds of the orchestrator's runs: `MaxForkDepth = 3` (the code's, and the number
of severities, so both limits are met); `MaxCompAttempts = 2` where the code has
3 (a pass that fails and one that succeeds or is the last; a third adds only
another failed pass), and 1 in `leaders`, which is about single requests; `MaxAttempts = 3` where `run_orchestrator.py` has 4 and
`recover` 6 (more than the kills, so that the limit is met only by runs that
come back without a kill).

| Run | Instance | States |
|---|---|---|
| `crash` | two processes, `classify, create_ticket, post_to_channel, page_oncall`, one kill at any point, nine scenarios over the three modes | 66,835 |
| `sweep` | one process, all eight steps, one kill at the sweep's four phases of any step, one redelivery, one reconciliation | 206,121 |
| `services` | one service, three requests about two keys, one of a pure tool, by leaders of two epochs, one post to the ledger without an answer, symmetry over requests | 1,561,006 |
| `intake` | two processes, a stream of two messages (one alert twice, or two alerts), one kill or stop, a start without Redis, batch of two | 449,662 |
| `leaders` | two processes, `create_ticket, page_oncall`, a lease that lapses under its leader, up to three requests at work in the services, one leader that stops waiting, one kill while an undo is at work or about to be, symmetry over owners | 612,281 |
| `handles` | two threads on one Journal and a process with its own, which also appends and expires; one lease, two calls each, one of the processes killed anywhere | 190,401 |
| `control_room` | one pane, two polls of it under way, two runs one after the other, one failure (a run raises or a verdict is not written) | 159,294 |
| `live_run` | two services with the pager among them, two runs one after the other, fresh or not, under each of three scenarios, two leases in a journal, one outage with or without loss of memory | 2,268,814 |

**`crash`**, with fairness: every alert is acknowledged in the end (`NoLoss`);
acknowledged means completed or escalated (`AckedIsSettled`); an effect left in
force on a dead branch is named by an escalation (`CleanAbandonment`); the world
holds nothing the journal did not announce (`IntentBeforeEffect`); the journal
claims nothing the world did not do (`JournalTruthful`); nobody is paged
while a dead branch has a ticket or post in force (`NoBlindPage`), and undoing
goes backwards (`UndoneInReverse`). At the end of a run the checker's PASS means
that the world is in order (`PassIsTrue`), and its FAIL that it is not
(`FailIsTrue`). A pane does not contradict itself or the world (`PaneTrue`): the
scoreboard counts what the branch tree shows as done, a page it rings rang like
that, though its result was journaled by a successor, the incident timer of a run
that ended has stopped, and the line above the pane names an unexplained repeat of
the page only where there is one. The second process matters because the first
one leaves a live lease behind when it dies.

**`sweep`** repeats the repository's own `sweep.py`: at its four crash phases
no key takes effect twice or is undone twice (`NoDuplication`), a
later page names an earlier one (`PagesExplained`), at most one page is unknown
and it is surfaced (`BoundedAmbiguity`); no severity is tried twice, a page on a
dead branch is remembered, and drained branches graduate (`BranchesTrue`); the
dashboard's closed gate shows as many effects as are owed, its tree is right about
the world once the alert rests, and the post-mortem lists whatever a dead branch
left in force (`BoardsTrue`).

**`leaders`**: what is so when requests of two leaders are at work in the services at
once, and one of them may outlive its caller. The fence does not stop what it let in
before, so a page can go out twice, see below. It does stop the rest: once a service has
served a leader, an earlier one changes the world behind that fence at most once more, by
the request it was waiting for (`DeposedOnce`; a leader that has stopped waiting may have
two requests at work, and is left out). A stale list to undo never touches a live branch
(`CompensateOnlyDead`), the journal claims nothing the world did not do, though callers
leave and die (`JournalTruthful`), and the lease implements `Leadership`
(`LeadershipHolds`). Three requests are one more than two leaders make while they wait. A
kill at any other point would be more than TLC can take with two leaders at work; the
proofs of all four are for kills anywhere.

**`services`**: what a service answers is so (`AnswersTrue`: *failed* is only ever
said of what was not and will not be done); a request that comes in after the
service heard of a newer leader changes nothing (`LateComerRefused`); and a ledger that answers misses nothing although the buffer is trimmed by count,
and has an entry that was sent again once (`LedgerTrue`).
Where a call is one step (in all runs of the engine but `leaders`), two requests for one
key do not overlap and no request outlives its caller; `leaders` has the two moments of a
call apart. Three requests are what it takes for a thread to
delete another's entry from the buffer before it is sent.

**`intake`**, with fairness: stream, consumer group and main loop keep the contract
`Delivery` (`DeliveryHolds`), although one table entry per alert serves both its
messages, a list is dropped half way when the process is told to stop, and a
message is acknowledged under whoever has reclaimed it; each lease is a leadership
although the clock is read before the write lock is waited for (`LeasesHold`); and
whatever is left pending by the dead, the refused and the slow is acknowledged in
the end by whoever is up (`AllAcked`). Times are in steps: TTL 1, busy timeout 1,
idle time before a reclaim 2, for the code's 5 s, 5 s and 8 s, so that a wait may
outlive a lease and a lease ends before its message is reclaimed, or not. Two
messages fill a list; more of them add lists, not kinds of steps.

**`handles`**, with fairness: no epoch is given to two callers (`EpochsUnique`), no
kill takes back an epoch that was returned (`GrantsDurable`), a record is in the file
under the id that `append` returned (`AppendTells`), and no call waits for ever,
however the calls before it ended (`CallsReturn`). The two threads that share a
Journal ask for the lease only, which is what the code's lock is for; the process
that writes has a connection of its own, as every orchestrator has. Two calls each
let a thread come back to a connection another has used.

**`control_room`**, with fairness: a run starts on an empty journal, although a
reader may make one between its removal and its opening (`CleanStart`); where nobody
works on a pane the verdict on file is that of the journal on file, which is
complete, unless something failed (`VerdictAtRest`); and a marked pane has a worker on it
(`MarkedIsWorked`). Two polls are under way, and an answer may be overtaken by a later one
and put an older state on the page; in the end the page shows what is on disk all the
same, and the button has come back (`PageCatchesUp`). Two runs are what it takes for
leftovers of one to meet the other, two polls for answers to change places. One pane is
enough for that, as what a run does to a pane depends on no other; the proofs of the first
three are for any number of polls, runs and panes.

**`live_run`**: while everybody answers, no leader is refused as a predecessor's
although every wipe starts the epochs over (`FencesAdmit`), and the oracle has every
effect of a fresh run and of runs before it nothing but pages that came late
(`OracleOfRun`); a run whose clearing went through works under its own faults, though a
service may be out of reach or lose its memory at any point (`FaultsFresh`). Two
runs are enough, as what one leaves to the next but one is left to the next as well.

### What does not hold

Four runs end in a counterexample.

| Run | Refutes | In short |
|---|---|---|
| `unreachable_page` | `PagesExplained` | killed after the page, and the retry's connection is refused: the page is taken for failed and sent again unannotated |
| `late_ticket` | `NoBlindPage` | a late request reopens a ticket that was already compensated; then the page goes out |
| `service_race` | `HoldsOnce` | two requests for one key overlap in a service and both take effect |
| `shared_epoch` | `EpochsUnique` | threads append and ask for a lease on one Journal: a refused caller reads the append's `rowcount` and leads under its rival's epoch |

Each is a finding in `PROJECT.json`, with the source line and the words of the
repository it disagrees with. The passing runs avoid them by their bounds, and
say so by them: `sweep` kills only at the sweep's phases, `crash` has one kill,
no redelivery, late deliveries of pages only and undos that fail only for the
ticket, which is undone last; `leaders` does not redeliver and checks what overlapping
requests leave standing; where a call is one step no request outlives its caller; `services`
states `LedgerTrue` of a ledger that answered every post; `handles` is
`Disciplined`; `control_room` and `live_run` have a `Patient` presenter.

One condition further out there are more. These have no run of their own; the
change to a configuration that shows each is given where there is one.

* *Killed at any point of a divergence* (`sweep` with `Scenarios <- PoisonOnly`,
  `CrashAt <- Anywhere`): between `BRANCH_ABANDONED` and the fork a kill makes the
  next run start over with the severity just given up (`BranchesTrue`). With
  two kills (`crash` with `Scenarios <- ResidueOnly`, `MaxCrash = 2` and `PagesExplained`),
  one of them between the two statements of `_abandon`, the page of the dead branch is
  forgotten once the branch graduates.
* *A deposed leader* (`leaders` with `BoundedAmbiguity`) reads the fence's refusal as a
  failed step, escalates or abandons the branch its successor is working on, and
  acknowledges the alert meanwhile.
* *Requests that overlap* (`leaders` with `PageOnce`): the lease lapses while the leader's
  page is at work; its successor finds an intent without a result and asks for the same key
  before the service holds it, and both page. In the service this is `service_race`.
* *A request that outlives its caller* (`leaders` with `NoDuplication`, `PagesExplained`,
  `CleanAbandonment`, `PassIsTrue` or `PaneTrue`): the successor drives the step again, and
  perhaps the branch on to its end or its abandonment, before the first request takes effect.
  A ticket or a post is then made twice, or made again after it was compensated and named by
  no escalation, which the checker does not see; and a page goes out twice.
* *The checker's own source* (`crash` with `Scenarios <- NaiveQuiet`): the result of a
  ticket is lost to a kill, the branch is dropped, and the checker, which takes what
  is owed from the journal, says PASS (`PassIsTrue`).
* *Appends beside a lease call* (`shared_epoch` with `AppendTells`): a record appended on
  a connection whose other thread is in a transaction goes when that thread is refused
  and rolls back, after `append` returned its id (`journal.py:128, 343-359`), although
  `journal.py:102` says what it costs to lose one.
* *Clicks that overlap* (`control_room` with `Patient = FALSE`): a second run may remove
  and remake the journal under the first, or find the first's rows in the one it opens
  (`CleanStart`; `scenarios.py:68-74`), and a verdict then stands beside a journal it does not
  describe; nothing but the button keeps them apart. And the button comes back early: between two panes, and before the thread's first
  statement, a run is marked nowhere (`dashboard.py:139-150`), so an answer of
  `/api/health` says that nothing runs. `running["live"]` is one mark for all live runs
  (`dashboard.py:175, 212`): the first to end takes it away.
* *While a run is under way* the previous verdict is still on file beside the new
  journal, since `make_ctx` removes the journal and its WAL but not the verdict
  (`scenarios.py:69`), and the page shows it. `VerdictAtRest` is about panes at rest.
* *A reader that writes*: when the read-only open fails, because a worker has just removed
  the file, the dashboard makes a journal after all (`dashboard.py:52-56`, whose
  comment says it cannot touch one). `CleanStart` holds nonetheless.
* *Late pages of the previous run* land in the cleared oracle and count for the next one
  (`services.py:155-161` clears no timers); `OracleOfRun` leaves them out.
* *Half a clearing*: `set_faults` raises at a service that does not answer and the `except`
  passes over it (`dashboard.py:188-194`); the run goes on with whatever faults the
  services after it had. `FaultsFresh` is about runs whose clearing went through.
* *The in-process queue* keeps acknowledgements by alert id for good and never reclaims
  (`ingest.py:50, 54-58`): an alert whose handler raised is pending and is never handed
  out again, one published twice is never listed as pending, unlike `Delivery`.

More departures were met on the way. An undo that is
rejected does not stop its pass (`engine.py:160-179`), so effects come undone out
of order across passes; the checker compares within a pass only. When a ledger
post gets no answer and two others overlap, `del self.buffer[: len(pending)]`
(`services.py:46`) can drop an entry that was never sent. Killed
inside the barrier after its last undo, a process leaves the gate closed on the
dashboard at a count of zero, and the next abandonment makes it wrong; the drained
branch stays `abandoned` for ever, since only a barrier with something to undo
graduates branches (`engine.py:199`, `engine.py:233`; `audit.py:13` takes the status
for work left to do). A process from which a message was reclaimed still
acknowledges it when it is done or fenced off, while its successor is at work: a
successor killed then is not resumed, unlike `README.md:190-193`. With a kill at any
point a step is shown as failed whose effect stands (the retry was refused), and
with the two writes of `_abandon` torn apart the forgotten page is missing from the
post-mortem too; beside a deposed leader tree and scoreboard disagree, since its
refused call is journaled after its successor's success. Told to stop, a
process goes on with the rest of the list it claimed and one more new message,
although it prints `[stopping after the current alert]`.

### Fairness

`FairSpec` assumes weak fairness of `Run(o)` for each process, of `Lapse` and of
`Land`. A process that is not killed is a loop that takes its next step; a TTL
runs out; a `threading.Timer` fires. Nothing is assumed of `Crash`, `Redeliver`
or of the outcome of any call: a tool may fail for ever. `FairSpec` of `Intake` assumes
that time passes and that a process that is up goes on with its loop; of
`Publish`, `Crash`, `Signal`, `Restart` and `FallBack` it assumes nothing. Nobody has to
come back. `FairSpec` of `Connection` assumes that a thread inside a call takes its next
step when it can (a lock that is free is had, SQLite answers); nobody has to call.
`FairSpec` of `ControlRoom` assumes that worker threads and readers run on, that
answers arrive, and that the page polls health and, again and again, every pane
(strongly fair: with all requests under way a poll of a pane can be put off, but
`setInterval` comes round). Nobody has to click and nothing has to fail. `Spec` of
`LiveRun`, `EffectService` and the remaining runs has no fairness; what they check is safety.

## 4. What is proved

TLAPS checks, for every value of the constants (trace, processes, fences, scenarios,
threads, panes, services, bounds), under the assumption in parentheses where there is
one:

| Theorem | Module | Says |
|---|---|---|
| `TypeCorrect` | `OrchestratorProofs` | `TypeOK`, and what a process remembers is still good when it uses it (`LocalOK`) |
| `JournalGrows` | `OrchestratorProofs` | no step removes or rewrites a record, removes a branch or revives a dead one |
| `Invariance` | `OrchestratorProofs` | `Inv`, of `Spec` and of `OverlapSpec` |
| `CompensateOnlyDeadHolds` | `OrchestratorProofs` | only effects of dead branches are undone, with calls as one step or two |
| `IntentBeforeEffectHolds` | `OrchestratorProofs` | what happened was announced, with calls as one step or two |
| `JournalTruthfulHolds` | `OrchestratorProofs` | what is journaled as done was done, with calls as one step or two |
| `EpochsDistinctHolds` | `OrchestratorProofs` | two leaders have two epochs, with calls as one step or two |
| `DeposedOnceHolds` | `OrchestratorProofs` | once a service served a leader, an earlier one that waits for its answers takes effect behind that fence once more at most (`OverlapSpec`) |
| `LeadershipRefined` | `OrchestratorProofs` | the lease implements `Leadership`, with calls as one step or two |
| `AckedIsSettledHolds` | `ExactlyOnceProofs` | acknowledged means completed or escalated (`NoTakeover`) |
| `NoDuplicationHolds` | `ExactlyOnceProofs` | the world is changed once for a key, and changed back once (`NoTakeover`, `Apart`, `UndoableInTime`, `UndoReported`) |
| `BoundedAmbiguityHolds` | `ExactlyOnceProofs` | in the modes that replay at most one page is unknown, and somebody was told (`NoTakeover`, `Apart`) |
| `CleanAbandonmentHolds` | `ExactlyOnceProofs` | what a dead branch left in force is named by an escalation (`NoTakeover`, `Apart`, `UndoableInTime`, `SomebodyIsPaged`) |
| `NoBlindPageHolds` | `ExactlyOnceProofs` | nobody is paged while a dead branch has an effect in force (the same and `LateAnswers`) |
| `UndoneInReverseHolds` | `ExactlyOnceProofs` | undoing goes backwards within a branch (the same and `UndoFailsFirst`) |
| `TimersAndBoardsHold` | `OversightProofs` | the scoreboard counts what the tree shows, and the timer of an acknowledged incident has stopped (`NoTakeover`, `Apart`, `SomebodyIsPaged`) |
| `PagesExplainedHolds` | `OversightProofs` | nobody is rung again without being told why, and the reason names a page that went out (`NoTakeover`, `Apart`, `LateAnswers`, `PagerAnswers`, `MarksWhole`, `PagesOnce`) |
| `AuditTellsAllHolds` | `OversightProofs` | at rest the post-mortem lists what a dead branch left in force (`NoTakeover`, `Apart`, `UndoableInTime`, `SomebodyIsPaged`, `LateAnswers`, `PagerAnswers`, `MarksWhole`) |
| `PassIsTrueHolds` | `OversightProofs` | a PASS of the checker is true of the world, with kills anywhere (`NoTakeover`, `Apart`, `UndoableInTime`, `SomebodyIsPaged`, `LateAnswers`, `PagerAnswers`, `UndosAnswered`, `UndoFailsFirst`) |
| `FailIsTrueHolds` | `OversightProofs` | a FAIL is of a world that is not in order, with kills anywhere (those of `PassIsTrueHolds`) |
| `TreeTrueHolds` | `OversightProofs` | at rest the tree is right about the world, with kills anywhere (`NoTakeover`, `Apart`, `SomebodyIsPaged`, `LateAnswers`, `PagerAnswers`, `StepsAnswer`) |
| `PaneTrueHolds` | `OversightProofs` | a pane contradicts neither itself nor the world (those of `AuditTellsAllHolds`, `PagesOnce`, `ClassifiedFirst`) |
| `ServiceInvariance` | `EffectServiceProofs` | the inductive invariant of one service |
| `AnswersTrueHolds` | `EffectServiceProofs` | an *ok* was done, a *failed* was not and will not be |
| `LateComerRefusedHolds` | `EffectServiceProofs` | a deposed leader that comes late changes nothing |
| `LedgerInvariance` | `EffectServiceProofs` | the inductive invariant of the way to the ledger |
| `ServiceTypeCorrect` | `EffectServiceProofs` | `TypeOK` of threads, keys, fences, buffer and ledger |
| `LedgerTrueHolds` | `EffectServiceProofs` | the ledger misses nothing unless a post had no answer, and has nothing twice |
| `IntakeTypeCorrect` | `IntakeProofs` | `TypeOK` of stream, leases and processes |
| `IntakeInvariance` | `IntakeProofs` | the inductive invariant of stream, processes and leases |
| `CoveredHolds` | `IntakeProofs` | no delivered alert is lost |
| `LeasesHoldProved` | `IntakeProofs` | with the clock, too, the lease takes only steps of `Leadership` |
| `DeliveryRefined` | `IntakeProofs` | the stream with its processes implements `Delivery` |
| `ConnectionInvariance` | `ConnectionProofs` | the inductive invariant of a journal file (`Disciplined`) |
| `EpochsUniqueHolds` | `ConnectionProofs` | no epoch is returned twice (`Disciplined`) |
| `GrantsDurableHolds` | `ConnectionProofs` | no returned epoch is taken back (`Disciplined`) |
| `LeasesHoldHolds` | `ConnectionProofs` | the statements of a lease call implement `Leadership` (`Disciplined`) |
| `TypeCorrect` | `ControlRoomProofs` | `TypeOK`, and who reads has a file open |
| `MarkedIsWorkedHolds` | `ControlRoomProofs` | a marked pane has a worker, however runs overlap and end |
| `CleanStartHolds` | `ControlRoomProofs` | runs start on an empty journal (`Patient`) |
| `VerdictAtRestHolds` | `ControlRoomProofs` | at rest the verdict is that of the journal (`Patient`) |
| `TypeCorrect` | `LiveRunProofs` | `TypeOK`, and who works has a journal open |
| `FaultsFreshHolds` | `LiveRunProofs` | a run whose clearing went through works under its own faults (`Patient`) |
| `FencesAdmitHolds` | `LiveRunProofs` | with everybody answering no fence is ahead of the leader (`Patient`) |
| `OracleOfRunHolds` | `LiveRunProofs` | with everybody answering the oracle has all of a fresh run, and of earlier ones late pages at most (`Patient`) |

They rest on the named assumptions about the constants alone (`TraceAssumption`,
`FenceAssumption`, `EngineAssumption`, `ServiceAssumption`, `IntakeAssumption`,
`ConnectionAssumption`, `ControlRoomAssumption`, `LiveRunAssumption`),
which TLC evaluates in the runs. `Disciplined` says that whoever appends shares its
Journal with nobody, which is so of every process of the repository but
`bench.py:100-116`; without it `shared_epoch` is the counterexample. `Patient` says that
nobody launches a run while another is in flight, which the page's button does not
quite ensure (section 3).

The theorems of `OrchestratorProofs` but the first two are of `OverlapSpec`, too, where the two moments of a
call are two steps. Those of `ExactlyOnceProofs` and `OversightProofs` are of `Spec`: no request
outlives its caller, which a kill does not see to (section 3 has what happens otherwise). What else
they assume is of three kinds. Some say what the
environment of the theorem is, in terms of the bounds of the specification:

* `NoTakeover`: no lease lapses under a working leader. The engine takes the lease once
  and never renews it, so this is what `DEFAULT_TTL` has to be chosen for; `leaders` is
  the run where it does not hold, and `CompensateOnlyDead` and `DeposedOnce` are proved without.
* `Apart`: there is no reconciler, or no redelivery, or one process. `reconcile_unknowns`
  takes no lease, and nothing else keeps it from meeting a leader.

Some say of the settings (`scenarios.py`, `sweep.py`) and of the trace (`tools.py`) what
the clause needs:

* `UndoableInTime`: nothing that could be compensated lands late; only the pager is ever
  set to (`scenarios.py:100-103`). `late_ticket` is what happens otherwise.
* `SomebodyIsPaged`: the trace has an irreversible step. Without one no barrier is ever
  passed and nothing is undone.
* `LateAnswers`: a pager that lands late does not also reject or refuse; a page reported
  as failed then never lands after its branch has died.
* `PagerAnswers`: more of the same. A pager that may leave a page in doubt, by timing out
  or by losing replies, does not also reject, and one that cannot be connected to is not
  among the settings. The engine takes a *failed* as the last word on a step although an
  earlier attempt may have gone through; `unreachable_page` is what comes of it.
* `StepsAnswer`: a step that can be repeated is not delivered late, and its service can be
  reached. A second attempt that finds no service, or a probe that comes before the late
  effect, has the step journaled as failed (`http_world.py:46`) although it has, or will
  have, an effect; the tree then hides what is in force.
* `PagesOnce`, `ClassifiedFirst`: the trace pages once and has the severity classified before
  it pages; so do `STEP_LABELS`.
* `UndoFailsFirst`: only what comes first on the trace may fail to be undone, as in
  `scenarios.py:154-170`. A pass goes on after an undo that was rejected
  (`engine.py:160-179`), so otherwise effects are undone out of order; `sweep` lets all
  undos fail and does not check `UndoneInReverse`.
* `UndosAnswered`: of the undos only that one may lose its answer. Otherwise an undo that was
  done and not heard of is passed over as a failed one is, and done again later, out of order.

And some say where nobody is killed. They are met by `CRASH_PHASES`, which is where
`sweep.py` kills, but not by `kill -9`; what comes of a kill there is in section 3:

* `UndoReported`: not between an undo and its row in the journal, and no reply of an undo
  is lost. A service keeps no key for an undo (`services.py`), so an undo that is asked
  for again is done again.
* `MarksWhole`: not between the two writes of the status in `_abandon`. Without it a page on a
  dead branch has no mark, which the successor does not make up for (`engine.py:427-454`). It is
  assumed by `PagesExplainedHolds`, `AuditTellsAllHolds` and `PaneTrueHolds`.

`NoDuplicationHolds` is the one that assumes `UndoReported`. `AckedIsSettled`,
`BoundedAmbiguity`, `CleanAbandonment`, `NoBlindPage`, `UndoneInReverse`, the checker's
verdicts and the tree at rest are proved with kills at any point.

Of the closed gate no more is proved than `GateTrueHolds`, a lemma on the way rather than a
result: it is right if nobody is killed between his last undo and opening the gate
(`DrainsWhole`).

The clauses of `ExactlyOnceProofs` are checked where all that their theorem assumes is
so. Of what `OversightProofs` proves, `PagesExplained` and the tree (in `BoardsTrue`) are
checked by `sweep`, where it is so as well. `PassIsTrue`, `FailIsTrue` and `PaneTrue` are checked by
`crash`, which goes beyond the theorems: with one kill and four steps, but with lost replies
next to a pager that rejects, TLC still finds no counterexample.

The argument. None of the clauses is inductive by itself. A result is journaled
steps after the call that produced it, and what it is about is in a process's
memory, so `Inv` adds what a process holds: `LocalOK` (the branch and the step
exist, whatever is on the undo list belongs to a dead branch) and `CallsBacked`
(a call under way, a late delivery and a result on the reconciler's list were
announced; an *ok* in memory is an ok the world gave). `LedgerOK` ties the ledger
to what the services hold: what is held happened, and a page in the ledger is still held,
because only compensatable effects are on undo lists.
Memory stays good under other processes' steps because of `Grows`: both tables
only grow and a dead branch stays dead. `OrchestratorProofs` proves `TypeOK`,
`LocalOK` and `Grows` action by action, and then looks at each step twice, as one of three changes of the world (nothing, one effect, one
compensation) and as at most one new row, and never at all actions for all
conjuncts.

When calls are two steps, what a request will do at its end is no longer in its caller's
memory alone: `AtWorkOK` says of every request at work that it was announced, that what it
undoes is dead, and that it is what its caller, if it has one, waits for. The end of a
request is then one of the same three changes of the world, whatever happened since it was
let in, and `Inv` is inductive for `OverlapSpec` as it is for `Spec`.

`OrchestratorProofs` says what the fence is *not* needed for: three of its clauses do
not mention epochs, and they hold with every process leading at once.
Its last part says what the fence does, and what it does not. Every action of a process either
keeps its epoch or ends its lead (`Moved`), and only `Start` raises the lease's
epoch, which it takes; so epochs are distinct. No entry of the ledger is ahead of its fence
(`FenceBound`), but a request at work may be behind it. What bounds those is that a leader
which waits for its answers has one request at work (`DoorsOK`): while it is at work nothing
of its epoch was overtaken behind that fence (`Foremost`), and when it takes effect behind a
fence that has served a later leader, no further one of its epoch is let in, so it was the
only one. A request whose caller was killed is of an epoch under which nobody leads any more
(`Forsaken`). Late deliveries pass no fence and carry no epoch; `DeposedOnce` leaves them
out, and `late_ticket` shows what they can do.

`ExactlyOnceProofs` climbs from who works to what is in force. With `NoTakeover` there is
one leader, it owns the live lease and the alert does not rest (`Sole`); while it steps,
its branch is alive and everything before its step is in `completed_results` (`Path`),
so it returns with the alert settled. `Tree` then says where things can be: every row,
call and effect is of a branch there is, only one of which is alive; what a live branch
has not come to yet has left nothing behind, an *ok* is never taken back, and a branch
dies with its steps closed (`Ground`, `Placed`, `Reviewed`). `Listed` says that a list to undo has each *ok* of a dead branch not yet
undone, and only those. With these a step changes the world in one of a few ways that
`WorldMoves` lists. The clauses follow:

* `NoDuplication`: what is not held was never done, or was undone and is dead (`Held`),
  so it is not called again; what was undone is in `compensations` or about to be
  reported (`Reported`), so no list has it again.
* `BoundedAmbiguity`: an unknown page belongs to the step its branch stands at, and a
  replay drives that step first (`Confessed`).
* `CleanAbandonment`, `NoBlindPage`: what is stranded has an *ok* in the journal that is
  not compensated there (`Clean`), so a journal without any has a world without any; the
  escalation names just those. What arrives late is a page whose outcome is unknown, so
  its branch is not dead or nothing is stranded there (`LateUndecided`, which needs that a
  leader is not refused: `OneEpoch`).
* `UndoneInReverse`: results of a branch are in the journal in trace order (`Ordered`), a
  list is worked off from its latest record, and what was dropped from it is undone, or
  first on the trace (`Facing`).

`OversightProofs` is about what people are told. What it needs beyond the clauses is
what the journal remembers of a page and of a branch:

* `Paid`: nothing is owed that was settled. What an acknowledged alert still owes is named
  by its escalation, and what was graduated or marked as compensated is.
* `Fated`: a page that failed did not go out and will not. Then `Marked` says that a page
  which may have gone out on a dead branch has its residue mark, and `Named` that what is
  said of a page (in an intent, a call, a late delivery, the ledger) names the mark of its
  branch's predecessors. `PagesExplained` is one of its conjuncts.
* `Severed`: a dead branch was left for a reason, and the severity of a branch is that of
  its fork.
* `Backwards`: what is undone in the world is above whatever is still in force on its
  branch; this is what the checker's pairwise comparison of the undos comes to. An undo that
  was done and not reported, because its leader was killed, is the lowest of those undone on
  its branch (`Lowest`), and the next pass does it again first, before it goes further down
  (`Pursued`).
* `Sourced`: what a page names, in an intent, a result, a call, a late delivery or the ledger,
  is a result in the journal under a key that was paged before. So the severity an
  annotation speaks of is an earlier page's, residue mark or not, which is what the
  checker's first clause asks.
* `Agreed`, `Trodden`, `Marching`: a page and the rows about it name the same predecessor;
  before a step that was touched the earlier steps of its branch are *ok*, on dead branches
  too; results and pages are in the order of their branches. With them the last result row
  of a page is the one whose phone rings, and the headline's fold over all rows finds an
  unexplained repeat only where there is one.
* `Barred`: while a gate is closed the page it stopped has not been passed by anybody, its
  branch is alive, and what was undone since the row that closed it together with what is
  owed now is as much as that row says. So nothing new comes to be owed meanwhile, and it
  does not matter whose undo it was. A step closes the gate (`BlockCounts`) or
  leaves it closed (`CountingNext`), and then it undoes one thing that is owed, or nothing.
* `Rested`: a repeatable step that was answered with a failure has no effect, a process
  undoes things only to get at a page, and when it stops (or the alert is acknowledged)
  what is in force or under way on the live branch has a result that says so. With `Clean`
  for the dead branches that is the tree at rest, in both directions.

For a service the difficulty is that the fence is asked twice under two locks and
the world is changed under none. `Inv` says for each thread where it is and what
that point guarantees (`ThreadOK`: past the fences its epoch is no lower than what
had been heard when it came in; a *failed* means its thread is gone and has
nothing left to post), and that whatever is held, or was answered with *ok*, was
taken by a request (`Backed`). Each action is shown to change one thread and to
make progress in a sense (`Progress`) that keeps both.

Of the buffer that threads share nothing useful is invariant: a thread deletes as many
entries as it had posted, whatever the buffer holds by then. `LedgerInv` therefore
follows the threads: each posts its own entry with those of others, so when its post is
answered its entry is in the ledger (`Told`), and what a service held and holds no more
was undone by some thread (`Accounted`). `Deliver` adds to the ledger what it does not
have, in order; `Taken` and `Nth` say which entry comes where, so that no recursion is
needed.

For the stream, `Covered` needs to know what `ack` removes. `Inv` of `IntakeProofs`
adds `Sound`: the table of a process has for an alert a message of that alert (not
the one at hand, perhaps), and a process about to acknowledge has settled its
alert; so whatever message goes, its alert was settled. Memory stays sound under
other processes' steps because stream, cursor and settled alerts only grow. For a
lease the step that matters is a grant to a new owner: an expiry that had passed
when the clock was read has passed since, and how long the wait was cancels out.
`DeliveryRefined` maps the pending entries to the set of their messages: a reclaim
then is a stutter, a read hands out only what is beyond the cursor, and an
acknowledgement is one of `Delivery` because of `Sound`.

For a journal file nothing can be said of a transaction by looking at the file. `Inv`
of `ConnectionProofs` has `Guarded` (the thread in a transaction has the lock of its
handle, and its handle is the writer; with no transaction open what is seen is what
is committed), `Contents` (a transaction has changed nothing, or made exactly one
grant it was entitled to, so that its commit is a step of `Leadership` whenever
it comes) and `Told` (a thread about to return from `append` has its row at the
`lastrowid` of its connection, which nobody else has used). `Disciplined` is used
for one thing: an append never finds a transaction open on its own connection.

For the dashboard, `MarkedIsWorked` needs only that a mark and the worker's point
change together. The other two are about files, whose names are reused while their
identity is not: `RestInv` has that at most one run is in flight (`Alone`), that no two
panes have a file in common (`OwnPaths`), and what a worker may rely on at each point
(`Sees`): between look and open the path holds nothing, or a journal a reader made, which
has no rows; at work its file is the one at the path, with no rows of other runs.

For the distributed runs both properties are about what a loop has achieved when it
is half way. `FaultsFine` says that the services already passed have the run's faults,
and every other step drops faults at most (`FaultsDrop`: a service that was started
again), never sets them. `FencesFine` says that where nobody was out of reach every
fence is at most the highest epoch of the journal at hand (`Top`); a wipe takes `Top` to
0, which is why at that point all fences must be down already (`ClearFine`), and
`WorkFine` says that a leader's epoch is `Top`. For the oracle, `HeldFine` has that no
buffer keeps anything while the ledger answers and that only pages are late, and
`OracleFine` that nothing of a run is anywhere before it works (`Unseen`), so that clearing
the oracle cannot take any of it away.

## 5. Only model-checked

* Liveness (`NoLoss`, `AllAcked`, `CallsReturn`, `PageCatchesUp`), which is out of the
  prover's reach.
* `BranchesTrue`, at the sweep's crash phases: a kill between the writes of an abandonment or
  before graduation makes it false (section 3), so that a theorem would have to assume away
  what it is about. The same goes for the closed gate in `BoardsTrue`.
* `AppendTells`: of a process that has its Journal to itself, where it says that no call before
  it has left a transaction open.
* `PaneTrue`, `PagesExplained` and the post-mortem under kills between any two statements, and the
  checker's verdicts with lost replies next to a pager that rejects, see section 4.

## 6. Not modelled

* The in-process queue and `drain` (`ingest.py:17-77, 238-252`): one thread takes out what
  it put in. How it falls short of `Delivery` is in section 3.
* `/admin/flush_late`, health and request validation of the services; `/api/audit`, which
  reads like `/api/state`; the drawing code of the page and the server's start-up.
* The checker's aggregation over many runs (`outcome_counts` and what follows it) and the
  reports of `scenarios.py`, `sweep.py` and `failover.py`: sums and printing of what
  the single runs say.
* Redis itself: that it may lose the stream when restarted (`docker-compose.yml:16` runs it
  without persistence) is a loss before anything modelled here.
* The benchmark, the demo, the smoke test and the service launcher keep no state of the
  workflow. What threads of the benchmark do to a journal is in `Connection`.

## 7. Plan

1. Done: the engine with journal, world and lease; its clauses; the checker, the
   dashboard's state with timer and headline, and the post-mortem; the inside of a
   service; leaders whose calls overlap; the stream with the main loop and the lease's clock, as an implementation of
   `Delivery`; a journal shared by threads; the dashboard with its runs, readers and page;
   the distributed runs; the proofs of section 4.
2. The engine under several alerts: `Intake` with the engine's outcome in place of
   `Settle`, so that a deposed process and its successor meet at the stream.
3. `drain` and the in-process queue, once something uses them with more than one thread.
