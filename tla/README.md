# lazycode: models, checks and proofs

TLA+ modules for the parts of lazycode that must survive crashes, restarts,
slow providers and competing processes: the barrier-wave loop that spends money
and edits a worktree, the store it writes to, the batch adapters it buys from,
the lease that keeps its writers apart, the daemon and command line that start,
queue, resume and stop jobs, and the plan all of it works off. TLC checks the
modules on small instances, TLAPS proves the central results for all instances.
Paths below are relative to the repository root, or to `src/lazycode`;
`PROJECT.json` gives the source lines of every definition, the runs, the
mutants, the findings and the hazards.

## 1. Inventory

| component | state | operations | interacts with | what makes it correct | module |
|---|---|---|---|---|---|
| wave loop (`scheduler/orchestrator.py`, `resume.py`) | job, nodes and waves as projected from the log; `known_refs`, `_local_outputs` in memory | `create_job`, `run_job`: resume, reconcile, frontier, dispatch, submit, await, process, finalize | every store module, providers, worktree, lease | no wave is bought twice or forgotten; a node is paid for after its dependencies; done means its diff is in the files; an interrupted job comes to an outcome | WaveLoop, WaveLedger |
| job lease (`store/lease.py`) | one row per job | `acquire`, `renew`, `release`, `current` | wave loop, daemon's scan | one writer; a live lease is nobody else's to end; a loser finds out | JobLease |
| event log, projections (`store/eventlog.py`, `projections.py`) | append-only events; jobs, nodes, waves | `record`, `apply`, `rebuild` | all | the tables are the replayed log, but for the event a crash left unprojected | EventStore |
| memo cache (`store/memo.py`, `cas.py`) | blobs, `artifacts`, `llm_calls`, `call_items` | `get`, `put`, `add_call_item` | wave loop | a prompt with an answer is never paid for again; no half-written answer | EventStore, WaveLoop |
| applied-diff ledger (`store/ledger.py`) | `applied_diffs` | `already_applied`, `record_intent`, `record_applied` | wave loop, worktree | a diff lands once, and what landed is on record | EventStore, WaveLoop |
| statistics (`store/stats.py`) | running averages | `record` | wave loop | no call is lost | EventStore |
| database (`store/db.py`) | SQLite file, WAL | `connect`, `transaction` | all | a transaction is atomic, writers queue for at most `busy_timeout` | JobLease (lock wait); elsewhere one action is one transaction |
| worktree (`workspace/apply.py`, `manager.py`) | the files of a job's worktree | `apply_diff`, `create_group_worktree` | wave loop | a failed diff leaves no trace and harms no other | WaveLoop, Daemon |
| batch providers (`providers/*_batch.py`, `cli/mock_provider.py`) | remote batches; the adapter's caches | `submit`, `find_batch`, `poll`, `fetch` | wave loop | a batch can be found again by its key; every item comes back once, or all are lost in one of two named ways | BatchWire |
| daemon (`cli/daemon.py`) | queue, worker, inhibitor, pid and port files | HTTP handlers, worker loop, startup scan, `start`, `stop`, `run_daemon` | wave loop, CLI, OS | accepted work is taken up; interrupted work is found; the machine is awake when asked and not after; one daemon per repository | Daemon, Instance |
| command line (`cli/app.py`, `client.py`) | none of its own | `run`, `resume`, `status`, `doctor` | daemon or wave loop | one driver per job; who finds no daemon works alone | Daemon, Instance, PlanGraph |
| planner, optimizer, operators (`planner/`, `optimizer/`, `ir/`) | the conversation, the plan | `propose_plan`, validate, layer, fan out | wave loop | what the validator accepts can be carried out | PlanGraph |
| verify (`verify/runner.py`) | none | one subprocess | wave loop | sees the diffs it is to judge | WaveLoop |
| harvester, report, notify, realtime call | files read or appended | text and I/O | wave loop | - | none |

Hard behaviours: a crash between any two durable writes; results that come
late, in any order, failed or not at all; a remote call that did its work and
lost its answer; a provider that cannot be asked what it holds; two processes
with one log; a lease read at one time and used at another; exceptions that end
a run but not its process; a daemon that is killed, stopped while it works, or
started beside another; dependency strings that four pieces of code read in
four ways. The list, line by line, is `hazards` in `PROJECT.json`.

## 2. Modules

    WaveLedger <--refines-- WaveLoop_refines --> WaveLoop      MCWaveLoop
                             WaveLoop_proofs <-- WaveAnswers_proofs
                                                 EventStore    MCEventStore EventStore_proofs
                                                 BatchWire     MCBatchWire  BatchWire_proofs
                                                 JobLease      MCJobLease   JobLease_proofs
                                                 Daemon        MCDaemon     Daemon_proofs
                                                 Instance      MCInstance   Instance_proofs
                                                 PlanGraph     MCPlanGraph  PlanGraph_proofs

The modules look at one program from several distances. Each leaves open what
another settles, and this is where they meet:

* WaveLoop takes an event and its projection as one step, and the tables as
  what a replay gives; EventStore takes them apart and shows (TablesAreTheLog)
  that they differ by at most the last event, until the next run rebuilds them;
  `status` or the startup scan may read them in between.
* WaveLoop asks two things of a provider, `FindExact` and `FullFetch`; BatchWire
  says which wire gives them. BoughtAgainBlindly is the first: exact up to the
  scan limit on openai-batch, on Anthropic only where the provider keeps the key,
  never on OpenRouter. WaveIsWhole is the second: a file batch that was fetched
  too early leaves its items out, which is WaveLoop with `FullFetch` FALSE. On
  Anthropic the source disagrees with itself: the docstrings say the key "cannot
  be stored server-side" and that the adapter "dedupes *locally only*"
  (anthropic_batch.py:23-27; base.py:110-113 likewise), while `submit` stamps it
  into `metadata` through `extra_body` and `find_batch` looks for it there
  (anthropic_batch.py:256-265, :275-298). So a batch's `keyed` is either there.
* WaveLoop has one process; JobLease says when that is so, and Daemon who the
  processes are. Daemon's phase `run` is a run of WaveLoop, and its crashes and
  drives are WaveLoop's `Crash` and `Start`.
* Daemon has one daemon; Instance says when that is so.
* WaveLoop is given a plan; PlanGraph says which plans there are, and works them
  off in rounds without the inside of a round.

**WaveLoop** is `run_job` for one job. `pc` is the place in the code; every
durable write is one action, so `Crash`, which clears the memory of the process
and nothing else, falls between any two. `status`, `formed`, `submitted`,
`completed` and `submits` are what the event log replays to; `memo` and
`ledger` are tables; `batches` is the provider's side, `landed` the diffs the
worktree's files carry. A wave id stands for the content-derived idempotency key
(its items and an ordinal); a prompt, a diff and a (provider, model) group are
numbers the plan assigns to nodes. The provider decides the outcome of each item
(`good`, `bad` for an answer that breaks its contract, `failed` for errored or
expired, `missing` for one that `fetch` omits).

**WaveLedger** is what the loop promises about money: a wave is put on record,
bought, recorded as bought and completed, in that order, and nothing is formed
or bought while a bought wave is unrecorded or in flight. **WaveLoop_refines**
maps the loop's state to it.

**EventStore** is every transaction one job makes: the log, the three projected
tables with all handlers of `projections.py`, blobs as `cas.put` writes them
(temporary file, rename, row), `llm_calls`, `call_items`, the ledger with its
event, and the statistics. The driver is `run_job` reduced to the order of its
writes; a second process, `doctor --rebuild`, may rebuild once a late driver has
lost its lease, between the driver's event and its projection too.

**BatchWire** is one wave on one adapter: the three HTTP wires and the CLI's
fixture adapter. Every remote call is a step that may fail, or take effect and
lose its answer. The server is external; of it the model has what the adapters
read: status, counts, result files, the account's list of batches, and
OpenRouter's 404s before a new batch is visible. `Totals` are the totals it may
report at a poll: none or all of a batch that is validating or failed; and the
last item's answer may be counted while the batch is still in progress or
finalizing. What the adapters then take for terminal (`StatusOf`: nothing left
to process) is fetched with no result file there, as in the code. Each adapter's
reading of status and counts (`StatusOf`), of results (`Stream`, `OutputFile`, `ErrorFile`,
`Inline`) and its error mapping (`Transient`, `Patience`) are operators of their
own.

**JobLease** is `lease.py` with the discipline of `run_job`: acquire, a forced
heartbeat at the loop top and before results are written, a throttled one at
each poll, release in `finally`. Reading the clock and the transaction that
uses what was read are two steps; a wait for the write lock lasts up to
`LockWait`, a stretch of work between heartbeats up to `MaxWork`.

**Daemon** is a repository's daemon (HTTP handlers, queue, worker, startup scan,
inhibitor, stop, crash) and one CLI process that runs or resumes jobs itself
while no daemon answers. Both go through `create_job` step by step (event,
task group, approved plan) and `run_job` (acquire, rebuild, run, release). A
lease is free, held, or a `ghost` (held by a process that died, until it expires).
`Inhibitor.start` is spawn, handle and pid file one by one; `Inhibitor.stop` is
asking, taking, forgetting, terminating and unlinking one by one, by the worker
after its last job and by the main thread in `Daemon.stop`, which waits for the
worker for ten seconds only, wherever it is, and takes no lock. A crash or the
exit of the process falls between any two of these.

**Instance** is which process is the daemon: `check_existing` and the probe read
by read, the files written and cleared one by one, the inhibitor's start and
stop, and pids the system hands to other programs. Nothing locks the files;
`first` remembers a daemon that came up alone, `late` who asked after that.

**PlanGraph** goes from the planner's answer to the end of the job. The
validator's depth-first search is the code's, with its colours and stack;
`Unrolled` is the memoized recursion of `_layers`; a `Round` gives every node of
the frontier an outcome, and a template its children.

`MC*` modules name the plans and sets the `.cfg` files use. An operator
`X_Something` next to `X` is a mutated form of `X` that no specification uses:
`PROJECT.json` pairs each checked property with one that breaks it.

## 3. Runs

| run | properties | what it shows |
|---|---|---|
| `eight` | TypeOK, NoDoubleSubmit, PaidOnce, NoOrphanBatch, DoneMeansLanded, AnswersAreReused, VerifySeesDiffs, SettledIsFinal, BuysByTheLedger | an exploration, edits with equal and with cached prompts, a verify, a gate and an analysis of a second group; two crashes, two failed items |
| `fanout` | PaidAfterDeps, BarrierClean, LandedIsRecovered, BindingsNeedNoHuman, JobSettles | a template that fans out, a node that waits for `2.*`, a verify of one edit, an edit with a cached prompt; two crashes, a failed item, items left out of a terminal batch; under fairness DONE, a human, or BLOCKED over a node that is lost (`Lost`, below) |
| `results` | TypeOK, TablesAreTheLog, BlobsAreWhole, LedgerIsLogged, JudgedIsCounted | every transaction of a job with a fan-out, a verify and two equal answers; a crash, two runs, a rebuild by hand |
| `wire` | TypeOK, WaveIsWhole, BoughtAgainBlindly, WaveSettles | a wave of two items on each of four wires; a fault, a crash, visibility lag, another batch on the account, batches counted out before they ended, keys Anthropic keeps or does not |
| `lease` | TypeOK, LeaseInForce, LoserFindsOut, LeaseIsKept | two processes, work as long as one likes between heartbeats |
| `restart` | TypeOK, InterruptedIsResumed, AcceptedIsDriven | two jobs, a crash, a stop, a resume, under fairness |
| `with_cli` | OneDriver, OneInhibitor, InhibitorStaysKnown, AwakeAsAsked | the CLI beside and before the daemon; two crashes, a stop that overlaps the worker at any point, a resume |
| `instance` | TypeOK, EstablishedStands | three daemons and a client; a crash, recycled pids, stale files |
| `plan` | TypeOK, AcceptedPlanRuns, WavesAreRounds | every plan of three nodes over five ids, an id that looks like a pattern and a child's id included |

Each further run shows one disagreement between the code and what the
repository says of it (`findings` in `PROJECT.json` quotes both):

| run | violated | the code does |
|---|---|---|
| `expired_twice` | JobFinishes | the second expiry of a node breaks a foreign key, at every resume |
| `worktree` | WorktreeIsOwn | every job writes task group `g0`, the primary key: the older job loses its worktree |
| `unread` | AnswersAreRead | the openai-batch adapter hands out `choices`, the loop reads `content`: every answer is empty |

### Other limits of the code

The passing runs assume these away, and no run is spent on them. A change of
constants or plan in the cfg shows each of the first group.

| change | fails | the code does |
|---|---|---|
| WaveLoop, two edits of one file (`Overlap <- TwoOverlap`) | DoneMeansLanded | rolling back a conflicting diff checks its files out at HEAD, and earlier uncommitted diffs to them are gone (apply.py:127; apply.py:23 says "rolled back to its pre-apply state") |
| WaveLoop, `FindExact = FALSE` | NoDoubleSubmit | OpenRouter's `find_batch` never finds, Anthropic's and OpenAI's look at 200 batches, Anthropic's for a key that may not be kept: a crash after submit buys again (docs/DESIGN.md:367 says "exactly-once") |
| JobLease, OneWriter with `MaxWork` as long as the lease | OneWriter | a verify may last as long as the lease, with no heartbeat (orchestrator.py:461) |
| BatchWire, none | TerminalIsEnded | `is_terminal` is "nothing processing" (ir/calls.py:158): a batch whose last item is counted before it ends, or that has no total while it validates, is fetched too early. openai_batch.py:37-38 and tests/providers/test_openai_batch.py:284-296 call these states in-progress and not terminal |
| BatchWire, none | BoughtOnce | a batch whose key the provider did not keep, or that is 200 batches down the list, is not found: "None -> the submit never reached the provider, safe to submit fresh" (base.py:143-144) does not hold |
| Daemon, `Always = FALSE` | AwakeAsAsked | a resume request carries no `keep_awake` (daemon.py:426, 546) |
| Daemon, none | InhibitorIsRecorded | the pid is written after the spawn (daemon.py:272-277), so a crash or the exit between the two leaves no record, nor does a stop of the main thread that unlinks the file the worker just wrote (daemon.py:283, :293, :514). The docstring says that a daemon that crashes "leaves a record the next startup can reap" (daemon.py:245-248), and a test that a crash "never leaks an untraceable" inhibitor (tests/cli/test_daemon.py:375-376) |
| Daemon, `FastRestart = TRUE` | AcceptedIsDriven, SkippedIsAdvanced | the startup scan takes a dead process's unexpired lease for a live one, once (daemon.py:424); an accepted resume that meets it is dropped (daemon.py:477) |
| Daemon, none | ApprovedIsFound | a crash between `create_job` and the first rebuild leaves an approved job without a `jobs` row, which the scan, `resume` and POST resume need |
| Daemon, none | InhibitorIsStopped | `stop` gives up on the worker after ten seconds and finds no inhibitor to stop, or stops one; the worker then starts the next request's (daemon.py:513-514) |

BarrierClean, LandedIsRecovered, JobSettles, AcceptedPlanRuns and AnswersAreReused
state their exceptions themselves, and these are limits of the code as well. The
first three are the ways in which a node is in `Lost`: no frontier takes it up, and
a job that keeps one is never DONE (`fanout` meets all three).

* A crash during a local node leaves it EXECUTING_LOCAL (orchestrator.py:459), for
  good (`LocalIsLostForGood`).
* `_maybe_memo_hit` (orchestrator.py:585) marks a node HARVESTED in no wave: a crash
  before NODE_DONE leaves it HARVESTED or RETURNED, its diff landed or not. Only the
  reconciliation of an older wave of the same node, formed and never submitted, can
  bring it back, so that `Lost` is not for good here.
* An item missing from a terminal batch stays SUBMITTED in a completed wave
  (orchestrator.py:682-694).
* `_local_outputs` is in memory only: after a crash a template whose list was
  answered before it finds none and goes to a human (orchestrator.py:471). This is
  why BindingsNeedNoHuman speaks of a job without a crash.
* The row of an expired item occupies its memo key, so the later answer is never
  cached (orchestrator.py:707, memo.py:111).
* An id that itself ends in `.*`, as in the example of docs/DESIGN.md:169 and in
  tests/ir/test_operators.py:86, passes the validator, but the loop reads a
  dependency on it as one on the children of the name before the `.*`
  (orchestrator.py:363): the node that waits for it never runs. With both `t`
  and `t.*` in a plan, `_layers` recurses without end (physical.py:63, whose
  docstring says it terminates), before any event is written.
* `x.*` on a node that is no template, or got an empty list, is accepted and
  never satisfied.
* A child `t.0` whose id a planned node has takes that node over
  (projections.py:211); if it waits for `t.*` it waits for itself.

Outside any model, met while reading: `--max-waves` and `--verify` do not reach
a daemon (app.py:192, daemon.py:443); `report` looks answers and costs up by
node id without the job (report.py:44); the byte budgets of the repository map
and of truncation are exceeded by their own separators and markers
(repo_map.py:160, harvester.py:73); R2 drops the repository map for literal
files that need not exist yet (rules.py:70).

### Bounds

`MaxCrashes` 2 lets a resume crash as well, which is what separates "crash" from
"crash while recovering". `MaxFailed` counts failed items; one brings a node to
its second wave, two on one node is `expired_twice`. The plans of WaveLoop have
one to eight nodes: several nodes of one wave (order of results, partial
processing), two groups (two waves in one iteration), a dependency chain (a
second iteration), a fan-out. `MaxWaves` stands for the code's runaway guard
(config.py:35, 8 waves): `eight` reaches it, and `fanout` has a wave per node and
failed item, where it never binds (`WavesAreBounded`).

EventStore has two diff nodes, one of the plan and one a template's child, since
that is where the handlers differ, with equal answers so that the ledger is
asked twice; one crash with `MaxRuns` 2 gives a torn projection and the run that
mends it, `MaxDoctors` 1 the race with a late driver. BatchWire has two items
(one fails, one does not), and limits of 1 in place of 200 and 10: what matters
is one below, at and above the limit (`MaxOthers` 1, `MaxLag` 2). JobLease's
time is discrete with a lease of 3 or 4 ticks: enough for a throttle, a lock
wait and a stretch of work to be shorter, equal or longer than it; `MaxTime`
allows more than one full takeover. Daemon has two jobs, which is what the task
group, the queue order and the stop need; in `with_cli` both are to keep the
machine awake, hence interchangeable, and `MaxStops` 1 with `MaxCrashes` 2 lets
the stop meet the worker and a crash meet both. Instance has three daemons: one
established, one that died and left files, one that starts between them.
PlanGraph has all plans of three nodes with up to two dependencies each, the
smallest in which a template, its source and a node that waits for the children
are there; `MaxKids` 1 is enough for "no child" and "some child", and `Limits`
2 and 4 end a job before and after it is through. The proofs do not depend on
any bound.

Deadlock checking is off where the system may really stop: in JobLease and
Daemon the clock, the crashes and the jobs end; in BatchWire a wave is done or
refused; in EventStore JOB_DONE ends the job, and a crash before its first
rebuild leaves one that no command finds; in Instance everyone has stopped; in
PlanGraph the command gave up or the job has its outcome.

### Which passing runs assume what

* `FindExact` is TRUE in the WaveLoop runs and `Overlap` is empty. `FullFetch` is
  TRUE in `eight`, whose properties say nothing of items that were left out, and
  FALSE in `fanout`.
* `wire`: Anthropic's `processing` is zero only once the batch ended, and a file
  batch shows its result files only once it ended. Both are the provider's side.
* `lease` assumes nothing of the length of work. OneWriter holds when every
  process is always on time (`Timely`, theorem `TimelyOneWriter`), which the
  code does not enforce.
* `FastRestart` FALSE (`restart`) starts a daemon only after the leases of the
  dead ran out; `with_cli` has it TRUE. `Always` is TRUE in `with_cli`, which
  AwakeAsAsked needs and the others do not.
* InhibitorStaysKnown itself names when an inhibitor that runs gets lost: the
  process dies between spawn and pid file (`Unwritten`), or inside a stop that
  overlaps the worker's (`StopCut`), or the worker's next start overtakes the main
  thread's stop (`Overtaken`). OneInhibitor counts the others, and stands aside
  while the main thread is past taking the handle, when the worker may start a
  second one before the first is terminated.
* `instance`: a serving daemon answers `/health` within the probe's second. One
  that is too busy to is taken for stale, and its files are cleared. A daemon
  that starts together with another is not protected either; EstablishedStands
  speaks of one that came up alone.
* A holder id is unique: `daemon-<pid>` may recur after a reboot, within the
  lease of its earlier owner, which is not modelled.

### Fairness

WaveLoop: weak fairness of the process (`Run`, with `Start`) and of the provider.
The loop never blocks except on the provider, whose batches end within 24 hours;
that a stopped job is started again is the daemon's scan or the user. BatchWire:
the same, weak fairness of `Loop` and `Server`; failures of calls and crashes
are not fair, and bounded. Daemon: weak fairness of the worker thread, of
`run_daemon` up to listening (a service manager restarts it), of the rest of a
stop, and of the expiry of dead leases. Nothing is assumed of users. The other
modules have safety properties only.

## 4. Proofs

All theorems are of the specifications themselves, for every value of the
constants the named assumptions allow, with no bound on nodes, waves, processes,
time or crashes.

* **WaveLoop_proofs.** `TypeInv` strengthens TypeOK with what the process has in
  hand at each `pc` (`HandInv`), that refs on record and in memory are refs of
  the right batches (`RefsMatch`), and that an item being processed has its
  outcome (`AnswerInv`): without these, processing an item is not typed.
  `LoopInv` adds four parts. `LogInv`: what is recorded was formed and bought,
  in order. `PhaseInv`: where the process stands tells which wave may be
  unrecorded. `BarrierInv`: a wave in flight is the one at hand or one a resume
  has still to handle. `PaidInv` (with `FindExact`): every batch is recorded, or
  is the single formed wave that the next resume reconciles. From it
  follow `AlwaysWriteAhead`, `NeverDoubleSubmit`, `AlwaysOneWaveInFlight` and
  `NeverOrphanBatch`. The heart of `NeverDoubleSubmit` is that a key's ordinal
  counts recorded submits, so an unrecorded batch has the key the next wave of
  the same items would get, and only reconciliation excludes the clash.
  `ImplementsTheLedger`: the initial states and every step of WaveLoop are those
  of WaveLedger, or a stutter. Four actions are visible (form, submit, record,
  complete); the others change nothing of the mapping.
  The second half goes from waves to single nodes, with `FindExact`. `PlaceInv`:
  each node of a frontier is in one place of the process only. `StatusInv`: what
  status the nodes held there have, so that no step can pick up a node that
  another step is to move. `UnrecordedInv`: a batch that is not on record is the
  last one bought, nothing is in flight beside it, and its nodes are still
  harvested, or given back for an older wave, so that adopting it takes nothing
  from a settled node. `NodeMoves` reads off these how any step can change a
  status: `SettledStaysFinal`. `OnceInv` adds that a node with a live item in a
  recorded batch is never runnable and that only the wave in flight has one for
  its nodes: `NeverPaidTwice`. `ReadyInv` says that whatever a node waits for,
  from the moment it is on a frontier, succeeded in a completed wave; with
  `FanInv` (a template's children appear together) and `FanoutPlan` it gives
  `PaidOnlyAfterDeps`. `FanoutPlan`, that children have ids of their own, is the
  antecedent planner.py:155 gives: it makes a child's id from the template's.
* **WaveAnswers_proofs** goes on to what the nodes were answered and what became
  of it. Some of it holds only where the code has one of the limits of section 3
  kept away; each theorem names what it needs. `DiffsApart`: no two diffs touch
  one file, so that no rollback takes another diff along. Cached answers, prompts
  that nodes share and batches that leave items out are allowed everywhere.

  | theorem | antecedents | argument |
  |---|---|---|
  | `DoneIsLanded` | `DiffsApart` | `RecordInv`: a row of `llm_calls` stays as it was put, and the answer at hand is of the prompt at hand; `LandInv`: what the ledger names is in the worktree |
  | `VerifySeesEdits` | `FindExact`, `FanoutPlan`, `DiffsApart` | `WaitInv`: a local node starts only when what it waits for succeeded and is where `DoneIsLanded` says |
  | `AnswersPaidOnce` | `FindExact` | `KeptInv`: every good answer has a row before its wave is complete; `MissInv`: what is harvested was looked up and no row came since |
  | `LandedNeverLost` | `FindExact` | `RecoverInv`: a diff landed but not in the ledger is that of a node that waits for a human, of one the wave in flight will process again, or of one served from the memo (`ServeInv`: which has no batch of its own), and that one is RETURNED and in no wave |
  | `BarrierStaysClean` | `FindExact` | `StrandInv`: who is SUBMITTED, RETURNED or EXPIRED is in the wave in flight and not worked through yet, or left out of its batch (`PendInv`); who is HARVESTED is in a formed wave that the next resume adopts or gives back; or it is `Astray`: being served from the memo, or served when a process died. `ExecInv`: a crash is the only way to be EXECUTING_LOCAL and not at hand |
  | `WavesAreBounded` | `FindExact` | `WavesInv`: at every step the iterations so far, with the failed items still to be processed (`Owed`), are at most the nodes taken further for good (`Spent`) and the items that failed; the last of a frontier (`Pending`) closes the account |
  | `BindingsFound` | `FindExact`, `FanoutPlan`, `ListPlan`, `EnoughWaves` | `KeepInv`: until a crash, `_local_outputs` has the answer of every node that succeeded (`Live`), or there is nothing left to dispatch (`Over`), or the foreign key stops every run before it dispatches (`Stuck`) |
  | `BlockedOverLost` | `FindExact`, `FanoutPlan`, `RankedPlan`, `EnoughWaves` | if no node is stranded, the unfinished node with the smallest rank is on the frontier (`LeftRuns`, with `KidsInv`: a template's children are there before it is done), and the last frontier is empty; who is stranded is lost (`BarrierClean`) |
  | `LocalIsLostForGood` | `FindExact`, `FanoutPlan` | `StatusInv`, `UnrecordedInv` and `RemoteInv`: no frontier, no queue and no batch holds such a node |

  `ListPlan`: a template that waits for a list waits for no other answer, as
  `_resolve_template` takes the first dependency that has one (orchestrator.py:428).
  `RankedPlan`: a node comes after what it waits for, which is what `ValidRanks` gives
  of the plans the validator accepts, and nobody waits for the children of what has
  none. `EnoughWaves`: the wave limit is no lower than what `WavesAreBounded` says a
  job can need. `BlockedOverLost` is the safety half of JobSettles.

  Every run that checks one of these properties satisfies its antecedents:
  `eight` and `fanout` have an exact `find_batch` and no overlaps; `eight`, which
  checks the first three, has no template; `fanout`, which checks the others, has an
  order, one list to each template, and seven waves for six nodes and a failed item.
* **BatchWire_proofs.** `BlindInv` says what a lookup that found nothing has seen,
  and what it may no longer rely on once the batch is created: `OneBatchPerWave`,
  for any scan limit, wherever the key was kept. `ServerInv` ties a batch's status
  and counts to its items. `BookInv`: what is fetched has ended and is booked as it
  reports, or was counted out. `RefInv`: the batch at hand is the one on record.
  `FoundInv`: what is on record was read from a batch that had ended, since one that
  was counted out too early yields nothing (`TooEarly`). `ReadInv`: what the files
  read so far list is at hand or on record, or the fetch came too early for any of
  it. Hence `NoItemLost`, without antecedent, for any number of items, faults and
  restarts.
* **EventStore_proofs**, for any plan, any answers and any number of crashes,
  runs and rebuilds. The row of `applied_diffs` and its event are written in one
  transaction by the one step that found no row: `LedgerAlwaysLogged`. A blob is
  renamed into place complete before its row, and its row precedes the call's:
  `BlobsAlwaysWhole`. The tables (`TablesAlwaysTheLog`): a replay is one
  projection after the other (`ReplayAppend`, by a least counterexample over the
  length of the log), and to project an event a second time changes nothing
  (`Idempotent`, handler by handler); `TablesInv` then says at each `pc` which
  events the tables lack. Types (`StoreTyped`) need that a row refers to rows
  that are there: `FlightInv` (one wave in flight, in all that is on record),
  `OrdInv` (a wave is formed, submitted and completed in that order, under the
  next ordinal), `CallsInv` (the row of a call is of the first submit of its
  node) and `LinksInv`. Counts (`JudgedAlwaysCounted`): `JudgedInv` says that an
  event that judges a node comes after its count, which gives "at least once";
  `OwedInv` bounds the counts of a node together with those that may still come
  (from a wave still awaited or an item not yet counted) by one and the crashes
  so far, which gives "at most". Only a crash adds to what is owed, and at most
  one.
* **JobLease_proofs.** `LeaseInv` relates a process's clocks to the row it holds,
  or lost; it gives `LoserAlwaysFindsOut` (when lock wait and throttle fit the
  lease) and, without any assumption, `LeaseIsAlwaysKept`. `CoverInv` says that
  the row of a process that is on time outlasts its time, which needs that a
  late process finds out before a throttled heartbeat makes it look on time
  again: `LeaseAlwaysInForce`, and under `Timely` `TimelyOneWriter`.
* **Daemon_proofs.** `Leased`: who drives a job holds its lease, hence
  `AlwaysOneDriver`. `InhibitorInv` has three parts: `LocalInv`, when a thread
  inside `start` or `stop` has anything in hand; `AloneInv`, that until the main
  thread's stop takes hold, handle, pid file and the worker's local name the
  inhibitor last spawned or none; `TakenInv`, that what the main thread took is the
  handle, or being stopped by the worker, or gone. They give `AlwaysOneInhibitor`
  and `AlwaysStaysKnown` without any antecedent, the spawn window and the unlocked
  stop included. `AwakeInv`, under the policy True, gives `AlwaysAwakeAsAsked`.
* **Instance_proofs.** `FirstInv`: from the moment its server listens to its last
  file, a daemon that came up alone has the place to itself, and whoever is
  there besides only asks. `LateInv`: who asks after that has read this daemon's
  pid and port, so the probe meets it. `ActInv`: only a daemon that serves or is
  about to stop touches the inhibitor. Together they are inductive and give
  `AlwaysEstablishedStands`.
* **PlanGraph_proofs**, for any finite plans a model may answer with. Three
  arguments meet. *The search*: `PathInv` says that the stack is a path whose nodes
  are grey and passed what they have seen, `RankInv` that the finished nodes can be
  numbered so that every edge goes to a smaller number. Each turn makes a step no
  turn made before (`Made`), and there are `Turns` of them, so after as many turns a
  search that met no cycle is through and has numbered every node: `ValidRanks`.
  *The layering*: k turns of `Unrolled` are exact for the nodes numbered below k
  (`ValidRests`), so it is at rest after as many turns as there are nodes, unless an id
  is itself a pattern and Bases and Target part. *The rounds*: `PlanKept` ties the rows
  to the plan; `ParentsDone` says that a child's template is done and has its children
  for good (from `ChildrenAssumption`: planner.py:155 makes a child's id from the
  template's), so that what is ready stays ready (`ReadyStays`) and what is done was
  ready (`DoneWereReady`); `NothingBehind` is the upper half of `WavesMatchRounds`, and
  what a node waits for has run is the lower. For `AcceptedPlansRun`, the left node
  with the smallest number would be ready (`NothingStuck`). Where a fact is an
  induction, over turns, depth or nodes, it is proved by a least counterexample
  (`Least`).

Only model-checked: all liveness (JobSettles, WaveSettles, InterruptedIsResumed,
AcceptedIsDriven, and the liveness violation), which is beyond the prover. Every
invariant and every action property of the passing runs has its theorem.

## 5. Not modelled, and why

Text and I/O: prompts, harvesting, plan rendering, reports, notification,
configuration, `status`, the realtime planner call, R2's edits of context specs.
That a resume renders the prompts of an in-flight wave again, from files that
may have changed, is a statement about that text. Costs and averages steer
nothing. The in-memory mock adapter is a test double; bench/, the paper and the
site are around the program. The CLI's own inhibitor has no pid file and nothing
to be checked against. The two `git apply` strategies are one step with the
outcomes later diffs can see. A failing disk is not considered; a failing
`git worktree add` is. `template_parent_id` set by the planner is not among
PlanGraph's plans.

## 6. What could come next

1. `Apply`: the two strategies, pre-flight and rollback file by file, as the
   detailed form of WaveLoop's `ApplyDiff`.
2. JobLease composed with the submit step, so that a second writer's effect on
   the wave ledger is visible.

## 7. Running

    tlc -config WaveLoop_eight.cfg MCWaveLoop.tla     # any cfg with its MC module
    tlapm WaveLoop_proofs.tla                         # any *_proofs module
