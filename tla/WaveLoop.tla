------------------------------ MODULE WaveLoop ------------------------------
(***************************************************************************)
(* The barrier-wave loop of lazycode/scheduler/orchestrator.py, for one    *)
(* job advanced by one process at a time (the lease that keeps writers     *)
(* apart is module JobLease).  Every durable write of the loop is one      *)
(* action, so that Crash can fall between any two of them.                 *)
(*                                                                         *)
(* _emit appends an event and then projects it, in two transactions.  Both *)
(* are one step here: nothing reads the projections between the two, and   *)
(* run_job rebuilds them from the log before it reads anything.  So        *)
(* "status" is the nodes table as rebuild() gives it.                      *)
(***************************************************************************)
EXTENDS Naturals, FiniteSets, Sequences

CONSTANTS
  Node,        \* node ids; numbers, because the loop works in id order
  Initial,     \* the nodes NODE_ADDED seeds; the others are fan-out children
  Kind,        \* Node -> "gate" | "template" | "verify" | "explore" | "other"
               \*         | "call" (remote, no diff) | "diff" (Generate, Edit)
  Deps,        \* Node -> the nodes it names in deps
  StarDeps,    \* Node -> the templates t it names as "t.*"
  Children,    \* Node -> the nodes a template fans out to
  Group,       \* Node -> number of its (provider, model) group
  Prompt,      \* Node -> its memo key: equal for byte-identical prompts
  ListAnswer,  \* the nodes whose answer is a JSON list of bindings
  DiffOf,      \* Node -> hash of the diff its answer carries
  Overlap,     \* diff -> the other diffs that touch one of its files
  Cached,      \* memo keys an earlier job already paid for
  MaxWaves,    \* config.max_waves
  FindExact,   \* find_batch sees every batch the provider holds
  FullFetch,   \* fetch returns a result for every item of a terminal batch
  MaxCrashes,  \* bound: crashes in a behaviour
  MaxFailed    \* bound: expired or errored items in a behaviour

ASSUME PlanAssumption ==
  /\ Node \subseteq Nat \ {0}
  /\ IsFiniteSet(Node)
  /\ Initial \subseteq Node
  /\ Kind \in [Node -> {"gate", "template", "verify", "explore", "other", "call", "diff"}]
  /\ Deps \in [Node -> SUBSET Node]
  /\ StarDeps \in [Node -> SUBSET Node]
  /\ Children \in [Node -> SUBSET Node]
  /\ Group \in [Node -> Nat]
  /\ ListAnswer \subseteq Node
  /\ Cached \subseteq {Prompt[n] : n \in Node}

ASSUME BoundAssumption ==
  /\ MaxWaves \in Nat
  /\ MaxCrashes \in Nat
  /\ MaxFailed \in Nat
  /\ FindExact \in BOOLEAN
  /\ FullFetch \in BOOLEAN

VARIABLES
  status,      \* nodes.status of the rebuilt projection
  formed,      \* wave ids with a WAVE_FORMED event
  submitted,   \* wave id -> batch ref, from the WAVE_SUBMITTED events
  completed,   \* wave ids with a WAVE_COMPLETED event
  submits,     \* content prefix -> number of its WAVE_SUBMITTED events
  memo,        \* the llm_calls table, by memo key
  ledger,      \* the applied_diffs table of the job's worktree
  result,      \* what the last run_job that finished returned
  batches,     \* the provider: every batch it was ever asked to run
  landed,      \* the worktree: the diffs its files carry
  pc,          \* where run_job stands
  known,       \* known_refs: wave id -> batch ref
  outputs,     \* _local_outputs: the nodes with an answer in this process
  recon,       \* state.reconcile_waves not yet handled
  todo,        \* frontier nodes not yet dispatched in this iteration
  remote,      \* frontier nodes collected for the remote wave
  queue,       \* nodes of the step at hand: to check, to harvest, to process
  miss,        \* nodes of the group with no memo hit
  wave,        \* the wave at hand
  ref,         \* its batch ref, 0 when there is none
  node,        \* the node at hand, 0 when there is none
  iter,        \* iteration of the loop, 0 while resuming
  crashes,
  failed

waves == <<formed, submitted, completed, submits>>
tables == <<memo, ledger, result>>
durable == <<status, waves, tables>>
world == <<batches, landed>>
memory == <<known, outputs, recon, iter>>
frontier == <<todo, remote>>
group == <<queue, miss>>
hand == <<wave, ref, node>>
process == <<pc, memory, frontier, group, hand>>
bounds == <<crashes, failed>>
vars == <<durable, world, process, bounds>>

-----------------------------------------------------------------------------
Success == {"DONE", "APPLIED", "COMPLETED_LOCAL", "APPROVED"}
Runnable == {"PENDING", "READY", "RE_ENQUEUED"}
\* NEEDS_HUMAN and the success statuses: what no frontier picks up again.
Settled == Success \cup {"NEEDS_HUMAN"}
Status == Settled \cup Runnable \cup
          {"ABSENT", "HARVESTED", "SUBMITTED", "RETURNED", "EXPIRED", "EXECUTING_LOCAL"}

\* A wave id stands for the content-derived idempotency key as well:
\* sha256(items)[:16] ":" ordinal, and the id is a prefix of it.
WaveId == [items : SUBSET Node, ord : Nat]
NoWave == [items |-> {}, ord |-> 0]

Diff == {DiffOf[n] : n \in Node}
Key == {Prompt[n] : n \in Node}

\* An llm_calls row: its id (wave and node), the answer it holds ("none" when
\* response_ref is NULL) and the node that answer was given for.
Row == [call : WaveId \X Node, answer : {"none", "good", "bad"}, by : Node]
NoRow == [call |-> <<NoWave, 0>>, answer |-> "absent", by |-> 0]

\* What the provider holds for an item.  "failed" is errored or expired; a
\* "missing" item never shows up in fetch; "bad" breaks the output contract.
Outcome == {"pending", "good", "bad", "failed", "missing"}
Batch == [key : WaveId, out : [Node -> Outcome]]
Terminal(b) == \A n \in b.key.items : b.out[n] # "pending"

Put(f, x, y) == [z \in DOMAIN f \cup {x} |-> IF z = x THEN y ELSE f[z]]
First(n, S) == n \in S /\ \A m \in S : n <= m
SetStatus(S, s) == [n \in Node |-> IF n \in S THEN s ELSE status[n]]
EmptyMap == [w \in {} |-> 0]

\* Mutant: one satisfied dependency is enough.
DepsSatisfied_Any(n) ==
  /\ Deps[n] # {} => \E d \in Deps[n] : status[d] \in Success
  /\ \A t \in StarDeps[n] : \E c \in Children[t] : status[c] \in Success

DepsSatisfied(n) ==
  /\ \A d \in Deps[n] : status[d] \in Success
  /\ \A t \in StarDeps[n] :
       LET kids == {c \in Children[t] : status[c] # "ABSENT"}
       IN  kids # {} /\ \A c \in kids : status[c] \in Success

Frontier == {n \in Node : status[n] \in Runnable /\ DepsSatisfied(n)}

-----------------------------------------------------------------------------
\* An earlier job's call with that prompt.
CachedRow(k) ==
  LET n == CHOOSE m \in Node : Prompt[m] = k
  IN  [call |-> <<NoWave, n>>, answer |-> "good", by |-> n]

\* create_job: the plan is in the log, nothing has run.
Init ==
  /\ status = [n \in Node |-> IF n \in Initial THEN "PENDING" ELSE "ABSENT"]
  /\ formed = {}
  /\ submitted = EmptyMap
  /\ completed = {}
  /\ submits = [S \in SUBSET Node |-> 0]
  /\ memo = [k \in Key |-> IF k \in Cached THEN CachedRow(k) ELSE NoRow]
  /\ ledger = {}
  /\ result = "none"
  /\ batches = <<>>
  /\ landed = {}
  /\ pc = "idle"
  /\ known = EmptyMap
  /\ outputs = {}
  /\ recon = {}
  /\ todo = {}
  /\ remote = {}
  /\ queue = {}
  /\ miss = {}
  /\ wave = NoWave
  /\ ref = 0
  /\ node = 0
  /\ iter = 0
  /\ crashes = 0
  /\ failed = 0

\* The process is gone: every in-memory variable is lost, nothing durable is.
Exit ==
  /\ pc' = "idle"
  /\ known' = EmptyMap
  /\ outputs' = {}
  /\ recon' = {}
  /\ todo' = {}
  /\ remote' = {}
  /\ queue' = {}
  /\ miss' = {}
  /\ wave' = NoWave
  /\ ref' = 0
  /\ node' = 0
  /\ iter' = 0

\* kill -9, a power loss, or an exception that leaves run_job: LeaseLostError,
\* a submit the adapter gave up on, anything the loop does not catch.
Crash ==
  /\ pc # "idle"
  /\ crashes < MaxCrashes
  /\ crashes' = crashes + 1
  /\ Exit
  /\ UNCHANGED <<durable, world, failed>>

-----------------------------------------------------------------------------
(* run_job: resume_job, then in-flight waves, then waves to reconcile.     *)

\* resume_job rebuilt its picture of the job from the log.
Resumes(reconcile) ==
  /\ pc = "idle"
  /\ pc' = "resume"
  /\ known' = submitted
  /\ recon' = reconcile
  /\ UNCHANGED <<durable, world, outputs, iter, frontier, group, hand, bounds>>

\* Mutants: resume_job forgets the waves that were only formed; it reconciles
\* every wave it ever formed.
Start_NoReconcile == Resumes({})
Start_ReconcileAll == Resumes(formed)

Start == Resumes(formed \ (DOMAIN submitted \cup completed))

InFlight == DOMAIN submitted \ completed

ResumeInFlight(w) ==
  /\ pc = "resume"
  /\ w \in InFlight
  /\ wave' = w
  /\ ref' = submitted[w]
  /\ pc' = "poll"
  /\ UNCHANGED <<durable, world, memory, frontier, group, node, bounds>>

\* _reconcile_wave, find_batch found batch b: adopt it, never resubmit.
AdoptBatch(w, b) ==
  /\ pc = "resume"
  /\ InFlight = {}
  /\ w \in recon
  /\ b \in 1..Len(batches)
  /\ batches[b].key = w
  /\ recon' = recon \ {w}
  /\ known' = Put(known, w, b)
  /\ submitted' = Put(submitted, w, b)
  /\ submits' = [submits EXCEPT ![w.items] = @ + 1]
  /\ status' = SetStatus(w.items, "SUBMITTED")
  /\ wave' = w
  /\ ref' = b
  /\ pc' = "poll"
  /\ UNCHANGED <<formed, completed, tables, world, outputs, iter, frontier,
                 group, node, bounds>>

GiveUpWave(w) ==
  /\ pc = "resume"
  /\ InFlight = {}
  /\ w \in recon
  /\ wave' = w
  /\ queue' = {n \in w.items : status[n] = "HARVESTED"}
  /\ recon' = recon \ {w}
  /\ pc' = "unharvest"
  /\ UNCHANGED <<durable, world, known, outputs, iter, frontier, miss, ref,
                 node, bounds>>

\* Mutant: the nodes go back on the frontier without asking the provider.
NoBatchFound_NotAsked(w) == GiveUpWave(w)

\* _reconcile_wave, find_batch returned None: the submit never got through ...
NoBatchFound(w) ==
  /\ FindExact => \A b \in 1..Len(batches) : batches[b].key # w
  /\ GiveUpWave(w)

\* ... put its HARVESTED nodes back on the frontier, one event per node.
Unharvest ==
  /\ pc = "unharvest"
  /\ \/ \E n \in queue :
          /\ First(n, queue)
          /\ status' = SetStatus({n}, "RE_ENQUEUED")
          /\ queue' = queue \ {n}
          /\ UNCHANGED <<pc, wave>>
     \/ /\ queue = {}
        /\ pc' = "resume"
        /\ wave' = NoWave
        /\ UNCHANGED <<status, queue>>
  /\ UNCHANGED <<waves, tables, world, memory, frontier, miss, ref, node,
                 bounds>>

EnterLoop ==
  /\ pc = "resume"
  /\ recon = {}
  /\ pc' = "loop"
  /\ UNCHANGED <<durable, world, memory, frontier, group, hand, bounds>>

\* Mutant: the loop starts although a wave is still in flight.
Resumed_InFlight == EnterLoop

Resumed == InFlight = {} /\ EnterLoop

-----------------------------------------------------------------------------
(* The loop: one iteration dispatches the whole frontier in id order.      *)

TakeFrontier ==
  /\ pc = "loop"
  /\ Frontier # {}
  /\ todo' = Frontier
  /\ remote' = {}
  /\ iter' = iter + 1
  /\ pc' = "dispatch"
  /\ UNCHANGED <<durable, world, known, outputs, recon, group, hand, bounds>>

\* Mutant: one iteration too many.
NextIteration_OneMore == iter <= MaxWaves /\ TakeFrontier

NextIteration == iter < MaxWaves /\ TakeFrontier

MarkReady(n) ==
  /\ pc = "dispatch"
  /\ First(n, todo)
  /\ status[n] = "PENDING"
  /\ status' = SetStatus({n}, "READY")
  /\ UNCHANGED <<waves, tables, world, process, bounds>>

\* n is the next frontier node and _mark_ready has run.
Dispatching(n) ==
  /\ pc = "dispatch"
  /\ First(n, todo)
  /\ status[n] # "PENDING"
  /\ todo' = todo \ {n}

AutoApproveGate(n) ==
  /\ Dispatching(n)
  /\ Kind[n] = "gate"
  /\ status' = SetStatus({n}, "DONE")
  /\ UNCHANGED <<waves, tables, world, pc, memory, remote, group, hand, bounds>>

\* The first dependency with an in-memory output is the source of the bindings.
ResolveTemplate(n) ==
  /\ Dispatching(n)
  /\ Kind[n] = "template"
  /\ \E d \in (Deps[n] \cup StarDeps[n]) \cap outputs :
       /\ d \in ListAnswer
       /\ status' = SetStatus({c \in Children[n] : status[c] = "ABSENT"}, "PENDING")
       /\ node' = n
       /\ pc' = "fanout"
  /\ UNCHANGED <<waves, tables, world, memory, remote, group, wave, ref,
                 bounds>>

TemplateDone ==
  /\ pc = "fanout"
  /\ status' = SetStatus({node}, "DONE")
  /\ node' = 0
  /\ pc' = "dispatch"
  /\ UNCHANGED <<waves, tables, world, memory, frontier, group, wave, ref,
                 bounds>>

NoBindings(n) ==
  /\ Dispatching(n)
  /\ Kind[n] = "template"
  /\ \/ (Deps[n] \cup StarDeps[n]) \cap outputs = {}
     \/ \E d \in (Deps[n] \cup StarDeps[n]) \cap outputs : d \notin ListAnswer
  /\ status' = SetStatus({n}, "NEEDS_HUMAN")
  /\ UNCHANGED <<waves, tables, world, pc, memory, remote, group, hand, bounds>>

Local == {"verify", "explore", "other"}
Remote == {"call", "diff"}

StartLocal(n) ==
  /\ Dispatching(n)
  /\ Kind[n] \in Local
  /\ status' = SetStatus({n}, "EXECUTING_LOCAL")
  /\ node' = n
  /\ pc' = "local"
  /\ UNCHANGED <<waves, tables, world, memory, remote, group, wave, ref,
                 bounds>>

\* Verify passes or fails; Explore keeps its text in memory only; any other
\* local operator goes to a human.
FinishLocal ==
  /\ pc = "local"
  /\ \E s \in {"DONE", "NEEDS_HUMAN"} :
       /\ Kind[node] = "explore" => s = "DONE"
       /\ Kind[node] = "other" => s = "NEEDS_HUMAN"
       /\ status' = SetStatus({node}, s)
  /\ outputs' = IF Kind[node] = "explore" THEN outputs \cup {node} ELSE outputs
  /\ node' = 0
  /\ pc' = "dispatch"
  /\ UNCHANGED <<waves, tables, world, known, recon, iter, frontier, group,
                 wave, ref, bounds>>

CollectRemote(n) ==
  /\ Dispatching(n)
  /\ Kind[n] \in Remote
  /\ remote' = remote \cup {n}
  /\ UNCHANGED <<durable, world, pc, memory, group, hand, bounds>>

EndDispatch ==
  /\ pc = "dispatch"
  /\ todo = {}
  /\ pc' = IF remote = {} THEN "loop" ELSE "group"
  /\ UNCHANGED <<durable, world, memory, frontier, group, hand, bounds>>

-----------------------------------------------------------------------------
(* _run_remote_wave: one batch per (provider, model) group, in order.      *)

NextGroup ==
  /\ pc = "group"
  /\ remote # {}
  /\ \E n \in remote :
       /\ \A m \in remote : Group[n] <= Group[m]
       /\ queue' = {m \in remote : Group[m] = Group[n]}
  /\ remote' = remote \ queue'
  /\ miss' = {}
  /\ pc' = "memo"
  /\ UNCHANGED <<durable, world, memory, todo, hand, bounds>>

EndGroups ==
  /\ pc = "group"
  /\ remote = {}
  /\ pc' = "loop"
  /\ UNCHANGED <<durable, world, memory, frontier, group, hand, bounds>>

\* Mutant: a node only finds the row of its own earlier call.
MemoHit_Own(n) ==
  /\ memo[Prompt[n]].answer \in {"good", "bad"}
  /\ memo[Prompt[n]].by = n

MemoHit(n) == memo[Prompt[n]].answer \in {"good", "bad"}

\* _maybe_memo_hit: NODE_HARVESTED, then the cached answer is processed.
ServeFromMemo(n) ==
  /\ pc = "memo"
  /\ First(n, queue)
  /\ MemoHit(n)
  /\ status' = SetStatus({n}, "HARVESTED")
  /\ queue' = queue \ {n}
  /\ node' = n
  /\ pc' = "item"
  /\ UNCHANGED <<waves, tables, world, memory, frontier, miss, wave, ref,
                 bounds>>

MissMemo(n) ==
  /\ pc = "memo"
  /\ First(n, queue)
  /\ ~MemoHit(n)
  /\ queue' = queue \ {n}
  /\ miss' = miss \cup {n}
  /\ UNCHANGED <<durable, world, pc, memory, frontier, hand, bounds>>

AllCached ==
  /\ pc = "memo"
  /\ queue = {}
  /\ miss = {}
  /\ pc' = "group"
  /\ UNCHANGED <<durable, world, memory, frontier, group, hand, bounds>>

SealWave ==
  /\ pc = "memo"
  /\ queue = {}
  /\ miss # {}
  /\ wave' = [items |-> miss, ord |-> submits[miss]]
  /\ queue' = miss
  /\ miss' = {}
  /\ pc' = "harvest"
  /\ UNCHANGED <<status, submitted, completed, submits, tables, world, memory,
                 frontier, ref, node, bounds>>

\* WAVE_FORMED is durable before anything else happens for the wave.
FormWave == SealWave /\ formed' = formed \cup {wave'}

Harvest(n) ==
  /\ pc = "harvest"
  /\ First(n, queue)
  /\ status' = SetStatus({n}, "HARVESTED")
  /\ queue' = queue \ {n}
  /\ UNCHANGED <<waves, tables, world, pc, memory, frontier, miss, hand,
                 bounds>>

\* adapter.submit: a known key gives its ref back, any other makes a batch.
Submit ==
  /\ pc = "harvest"
  /\ queue = {}
  /\ IF wave \in DOMAIN known
       THEN /\ ref' = known[wave]
            /\ UNCHANGED batches
       ELSE /\ ref' = Len(batches) + 1
            /\ batches' = Append(batches,
                 [key |-> wave, out |-> [n \in Node |-> "pending"]])
  /\ known' = Put(known, wave, ref')
  /\ pc' = "record"
  /\ UNCHANGED <<durable, landed, outputs, recon, iter, frontier, group, wave,
                 node, bounds>>

RecordSubmit ==
  /\ pc = "record"
  /\ submitted' = Put(submitted, wave, ref)
  /\ submits' = [submits EXCEPT ![wave.items] = @ + 1]
  /\ status' = SetStatus(wave.items, "SUBMITTED")
  /\ pc' = "poll"
  /\ UNCHANGED <<formed, completed, tables, world, memory, frontier, group,
                 hand, bounds>>

-----------------------------------------------------------------------------
(* The provider (external): a batch ends, with an outcome for every item.  *)

BatchEnds(b) ==
  /\ b \in 1..Len(batches)
  /\ ~Terminal(batches[b])
  /\ \E out \in [batches[b].key.items -> Outcome \ {"pending"}] :
       LET bad == {n \in DOMAIN out : out[n] = "failed"}
       IN  /\ FullFetch => \A n \in DOMAIN out : out[n] # "missing"
           /\ \A n \in DOMAIN out : out[n] = "bad" => Kind[n] = "diff"
           /\ failed + Cardinality(bad) <= MaxFailed
           /\ failed' = failed + Cardinality(bad)
           /\ batches' = [batches EXCEPT ![b].out =
                [n \in Node |-> IF n \in DOMAIN out THEN out[n] ELSE @[n]]]
  /\ UNCHANGED <<durable, landed, process, crashes>>

-----------------------------------------------------------------------------
(* _await_and_process_wave, _process_item, _validate_and_apply.            *)

\* poll says terminal; fetch yields the items the provider returns.
FetchResults ==
  /\ pc = "poll"
  /\ Terminal(batches[ref])
  /\ queue' = {n \in wave.items : batches[ref].out[n] # "missing"}
  /\ pc' = "fetch"
  /\ UNCHANGED <<durable, world, memory, frontier, miss, hand, bounds>>

\* Results come in the provider's order.
TakeItem(n) ==
  /\ pc = "fetch"
  /\ n \in queue
  /\ node' = n
  /\ queue' = queue \ {n}
  /\ pc' = "item"
  /\ UNCHANGED <<durable, world, memory, frontier, miss, wave, ref, bounds>>

\* The answer at hand: the provider's, or the one memo_hit read from the cache.
Answer == IF ref # 0 THEN batches[ref].out[node] ELSE memo[Prompt[node]].answer
AnswerBy == IF ref # 0 THEN node ELSE memo[Prompt[node]].by
\* Mutant: an answer that breaks its contract counts as a failed item.
Refused_Bad == ref # 0 /\ batches[ref].out[node] \in {"failed", "bad"}

Refused == ref # 0 /\ batches[ref].out[node] = "failed"
CallId == <<wave, node>>

\* memo.put: the first row of a memo key stays.
PutMemo ==
  /\ pc = "item"
  /\ memo' = IF memo[Prompt[node]] # NoRow THEN memo
             ELSE [memo EXCEPT ![Prompt[node]] =
                     [call |-> CallId, answer |-> IF Refused THEN "none" ELSE Answer,
                      by |-> node]]
  /\ pc' = "link"
  /\ UNCHANGED <<status, waves, ledger, result, world, memory, frontier, group,
                 hand, bounds>>

LinkItem ==
  /\ pc = "link"
  /\ ~Refused
  /\ status' = SetStatus({node}, "RETURNED")
  /\ pc' = "validate"
  /\ UNCHANGED <<waves, tables, world, known, recon, iter, frontier, group,
                 hand, bounds>>

\* Mutant: the answer is not kept for the templates that wait for it.
ItemReturned_NoOutput == LinkItem /\ UNCHANGED outputs

\* add_call_item and ITEM_RETURNED of a completed item, by the row's own id.
ItemReturned == LinkItem /\ outputs' = outputs \cup {node}

\* The same for an errored or expired item, by the new call id: call_items
\* references llm_calls, so the insert needs a row with that id.
RowExists(id) == \E k \in Key : memo[k].call = id

ItemExpired ==
  /\ pc = "link"
  /\ Refused
  /\ RowExists(CallId)
  /\ status' = SetStatus({node}, "EXPIRED")
  /\ pc' = "expired"
  /\ UNCHANGED <<waves, tables, world, memory, frontier, group, hand, bounds>>

\* The foreign key fails: IntegrityError leaves run_job.
ForeignKeyError ==
  /\ pc = "link"
  /\ Refused
  /\ ~RowExists(CallId)
  /\ Exit
  /\ UNCHANGED <<durable, world, bounds>>

\* Where the item's processing returns to: fetch's loop, or the memo check.
ItemDone ==
  /\ node' = 0
  /\ pc' = IF ref # 0 THEN "fetch" ELSE "memo"

\* Mutant: an expired node stays EXPIRED.
ReEnqueue_Not ==
  /\ pc = "expired"
  /\ ItemDone
  /\ UNCHANGED <<durable, world, memory, frontier, group, wave, ref, bounds>>

ReEnqueue ==
  /\ pc = "expired"
  /\ status' = SetStatus({node}, "RE_ENQUEUED")
  /\ ItemDone
  /\ UNCHANGED <<waves, tables, world, memory, frontier, group, wave, ref,
                 bounds>>

Breaks == Kind[node] = "diff" /\ Answer = "bad"

\* Mutant: already_applied looks for the worktree only, not for the diff.
NothingToApply_AnyDiff == Kind[node] # "diff" \/ ledger # {}

NothingToApply == Kind[node] # "diff" \/ DiffOf[AnswerBy] \in ledger

\* A node without a diff, or whose diff is in the ledger, is done; a diff that
\* breaks its contract goes to a human; any other is to be applied.
Validate ==
  /\ pc = "validate"
  /\ \/ /\ Breaks
        /\ status' = SetStatus({node}, "NEEDS_HUMAN")
        /\ ItemDone
     \/ /\ ~Breaks /\ NothingToApply
        /\ status' = SetStatus({node}, "DONE")
        /\ ItemDone
     \/ /\ ~Breaks /\ ~NothingToApply
        /\ pc' = "apply"
        /\ UNCHANGED <<status, node>>
  /\ UNCHANGED <<waves, tables, world, memory, frontier, group, wave, ref,
                 bounds>>

\* apply_diff.  When its --3way attempt conflicts, _rollback checks out every
\* file of the diff at HEAD, where no landed diff is, and --recount follows.
WipedBy(d) ==
  IF landed \cap Overlap[d] = {} THEN {{}} ELSE {{}, landed \cap (Overlap[d] \cup {d})}

ApplyDiff ==
  /\ pc = "apply"
  /\ \E wiped \in WipedBy(DiffOf[AnswerBy]) :
       \/ /\ landed' = (landed \ wiped) \cup {DiffOf[AnswerBy]}
          /\ pc' = "ledger"
          /\ UNCHANGED <<status, node>>
       \/ /\ landed' = landed \ wiped
          /\ status' = SetStatus({node}, "NEEDS_HUMAN")
          /\ ItemDone
  /\ UNCHANGED <<waves, tables, batches, memory, frontier, group, wave, ref,
                 bounds>>

RecordAs(rows) ==
  /\ pc = "ledger"
  /\ ledger' = rows
  /\ status' = IF DiffOf[AnswerBy] \in ledger THEN status ELSE SetStatus({node}, "APPLIED")
  /\ pc' = "done"
  /\ UNCHANGED <<waves, memo, result, world, memory, frontier, group, hand,
                 bounds>>

\* Mutant: the apply never reaches the ledger.
RecordApplied_NoRow == RecordAs(ledger)

\* record_applied: the ledger row and ARTIFACT_APPLIED, in one transaction.
RecordApplied == RecordAs(ledger \cup {DiffOf[AnswerBy]})

NodeDone ==
  /\ pc = "done"
  /\ status' = SetStatus({node}, "DONE")
  /\ ItemDone
  /\ UNCHANGED <<waves, tables, world, memory, frontier, group, wave, ref,
                 bounds>>

CloseWave ==
  /\ pc = "fetch"
  /\ completed' = completed \cup {wave}
  /\ queue' = {}
  /\ wave' = NoWave
  /\ ref' = 0
  /\ pc' = IF iter = 0 THEN "resume" ELSE "group"
  /\ UNCHANGED <<status, formed, submitted, submits, tables, world, memory,
                 frontier, miss, node, bounds>>

\* Mutant: WAVE_COMPLETED as soon as the batch is terminal.
CompleteWave_Early == CloseWave

\* WAVE_COMPLETED, after every returned item has been processed.
CompleteWave == queue = {} /\ CloseWave

-----------------------------------------------------------------------------
LoopEnds == Frontier = {} \/ iter >= MaxWaves

\* _finalize: JOB_DONE only when every node succeeded; then run_job returns.
Finalize ==
  /\ pc = "loop"
  /\ LoopEnds
  /\ LET rows == {n \in Node : status[n] # "ABSENT"}
     IN  result' = IF \A n \in rows : status[n] \in Success THEN "DONE"
                   ELSE IF \E n \in rows : status[n] = "NEEDS_HUMAN" THEN "NEEDS_HUMAN"
                   ELSE "BLOCKED"
  /\ Exit
  /\ UNCHANGED <<status, waves, memo, ledger, world, bounds>>

Resume ==
  \/ \E w \in DOMAIN submitted : ResumeInFlight(w)
  \/ \E w \in recon : NoBatchFound(w) \/ \E b \in 1..Len(batches) : AdoptBatch(w, b)
  \/ Unharvest
  \/ Resumed

Dispatch ==
  \/ NextIteration
  \/ \E n \in todo : \/ MarkReady(n) \/ AutoApproveGate(n) \/ ResolveTemplate(n)
                     \/ NoBindings(n) \/ StartLocal(n) \/ CollectRemote(n)
  \/ TemplateDone
  \/ FinishLocal
  \/ EndDispatch

RemoteWave ==
  \/ NextGroup \/ EndGroups
  \/ \E n \in queue : ServeFromMemo(n) \/ MissMemo(n) \/ Harvest(n)
  \/ AllCached \/ FormWave \/ Submit \/ RecordSubmit

ProcessWave ==
  \/ FetchResults
  \/ \E n \in queue : TakeItem(n)
  \/ PutMemo \/ ItemReturned \/ ItemExpired \/ ForeignKeyError \/ ReEnqueue
  \/ Validate \/ ApplyDiff \/ RecordApplied \/ NodeDone \/ CompleteWave

Run == Start \/ Resume \/ Dispatch \/ RemoteWave \/ ProcessWave \/ Finalize
Provider == \E b \in 1..Len(batches) : BatchEnds(b)
Next == Run \/ Provider \/ Crash

Spec == Init /\ [][Next]_vars

\* The user or the daemon resumes a job that stopped, the process it runs in
\* makes progress, and the provider ends every batch (24 h at the latest).
FairSpec == Spec /\ WF_vars(Run) /\ WF_vars(Provider)

-----------------------------------------------------------------------------
(* What the loop promises.                                                 *)

DurableType ==
  /\ status \in [Node -> Status]
  /\ formed \subseteq WaveId
  /\ DOMAIN submitted \subseteq WaveId
  /\ \A w \in DOMAIN submitted : submitted[w] \in 1..Len(batches)
  /\ completed \subseteq WaveId
  /\ submits \in [SUBSET Node -> Nat]
  /\ memo \in [Key -> Row \cup {NoRow}]
  /\ ledger \subseteq Diff
  /\ result \in {"none", "DONE", "NEEDS_HUMAN", "BLOCKED"}

WorldType ==
  /\ batches \in Seq(Batch)
  /\ landed \subseteq Diff

ProcessType ==
  /\ pc \in {"idle", "resume", "unharvest", "loop", "dispatch", "fanout", "local",
             "group", "memo", "harvest", "record", "poll", "fetch", "item", "link",
             "expired", "validate", "apply", "ledger", "done"}
  /\ DOMAIN known \subseteq WaveId
  /\ \A w \in DOMAIN known : known[w] \in 1..Len(batches)
  /\ outputs \subseteq Node
  /\ recon \subseteq WaveId
  /\ todo \subseteq Node
  /\ remote \subseteq Node
  /\ queue \subseteq Node
  /\ miss \subseteq Node
  /\ wave \in WaveId
  /\ ref \in 0..Len(batches)
  /\ node \in Node \cup {0}
  /\ iter \in 0..MaxWaves

BoundType == crashes \in 0..MaxCrashes /\ failed \in 0..MaxFailed

\* The tables, the provider, the worktree and the process hold what their
\* columns and variables can hold.
TypeOK == DurableType /\ WorldType /\ ProcessType /\ BoundType

\* A wave the provider may hold is on record before the provider hears of it:
\* WAVE_FORMED comes first, so a resume always knows which key to ask about.
WriteAhead ==
  \A b \in 1..Len(batches) : batches[b].key \in formed

\* No double-submit: the provider never holds two batches for one
\* idempotency key, whatever the crashes between submit and WAVE_SUBMITTED.
NoDoubleSubmit ==
  \A a, b \in 1..Len(batches) : batches[a].key = batches[b].key => a = b

Alive == {"pending", "good", "bad", "missing"}

\* A node is paid for again only after the provider failed its item: no two
\* batches hold a running or answered item of one node.
PaidOnce ==
  \A a, b \in 1..Len(batches) :
    a # b => \A n \in batches[a].key.items \cap batches[b].key.items :
               ~(batches[a].out[n] \in Alive /\ batches[b].out[n] \in Alive)

\* The barrier: at most one wave is submitted and not completed (run_job awaits
\* each wave before it forms the next).
OneWaveInFlight == Cardinality(InFlight) <= 1

\* A node reaches the provider only when all it depends on has succeeded, the
\* fan-out children it names included (_deps_satisfied, _frontier).
PaidAfterDeps ==
  \A b \in 1..Len(batches) : \A n \in batches[b].key.items :
    /\ \A d \in Deps[n] : status[d] \in Success
    /\ \A t \in StarDeps[n] : \A c \in Children[t] : status[c] \in Success

\* No provider holds, or gave, an answer for n.
Unpaid(n) ==
  \A b \in 1..Len(batches) : n \in batches[b].key.items => batches[b].out[n] = "failed"

\* n is HARVESTED, or RETURNED, in no wave: _maybe_memo_hit serves it from the memo.
Served(n) == status[n] \in {"HARVESTED", "RETURNED"} /\ MemoHit(n) /\ Unpaid(n)

\* The nodes nothing picks up again: a crash took the local run, or the processing of a
\* memo hit; or fetch left the item out of a terminal batch.
LocalLost(n) == crashes > 0 /\ Kind[n] \in Local /\ status[n] = "EXECUTING_LOCAL"
ServedLost(n) == crashes > 0 /\ Served(n)
LeftOut(n) ==
  /\ status[n] = "SUBMITTED"
  /\ \E b \in 1..Len(batches) : n \in batches[b].key.items /\ batches[b].out[n] = "missing"
Lost == {n \in Node : LocalLost(n) \/ ServedLost(n) \/ LeftOut(n)}

\* At each barrier (the top of the loop) every node is settled, can be picked up again or
\* is lost in one of these three ways: no other node is stranded in the middle of a wave.
BarrierClean ==
  pc = "loop" => \A n \in Node : status[n] \in Settled \cup Runnable \cup {"ABSENT"} \/ n \in Lost

\* When run_job returns, every batch ever paid for has been recorded and its
\* results processed: nothing the user paid for is abandoned.
NoOrphanBatch ==
  pc = "loop" => \A b \in 1..Len(batches) :
                   /\ batches[b].key \in completed \cap DOMAIN submitted
                   /\ submitted[batches[b].key] = b

\* A diff node that is done has its diff in the worktree and in the ledger.
DoneMeansLanded ==
  \A n \in Node : Kind[n] = "diff" /\ status[n] \in Success =>
     \E d \in landed \cap ledger : \E m \in Node : DiffOf[m] = d /\ Prompt[m] = Prompt[n]

\* A diff that is in the worktree and not in the ledger is one a resume will process again,
\* its wave being in flight, or its node waits for a human; or it is the diff of a memo hit,
\* which is processed at this moment or lost.
LandedIsRecovered ==
  \A d \in landed \ ledger :
    \/ \E w \in InFlight : \E n \in w.items : DiffOf[n] = d
    \/ \E n \in Node : DiffOf[n] = d /\ status[n] = "NEEDS_HUMAN"
    \/ \E n \in Node : Served(n) /\ DiffOf[memo[Prompt[n]].by] = d

\* An answer is paid for once per prompt: no batch holds an item whose prompt
\* an earlier job, or an earlier batch, already has an answer for (R10), save
\* where the row of a failed call kept that answer out of llm_calls.
AnswersAreReused ==
  \A b \in 1..Len(batches) : \A n \in batches[b].key.items :
    /\ Prompt[n] \notin Cached
    /\ \A a \in 1..(b - 1) : \A m \in batches[a].key.items :
         batches[a].out[m] = "good" /\ Prompt[m] = Prompt[n]
           => memo[Prompt[m]].answer = "none"

\* Verify runs on a worktree that holds, for every edit it waits for, a diff the
\* edit's prompt was answered with.
VerifySeesDiffs ==
  pc = "local" /\ Kind[node] = "verify" =>
    \A d \in Deps[node] : Kind[d] = "diff" =>
       \E m \in Node : Prompt[m] = Prompt[d] /\ DiffOf[m] \in landed

\* A template goes to a human only if no upstream answer was a list, or if a
\* crash took the answer: _local_outputs is the one thing a resume cannot rebuild.
BindingsNeedNoHuman ==
  \A t \in Node :
    /\ Kind[t] = "template"
    /\ status[t] = "NEEDS_HUMAN"
    /\ crashes = 0
    => \A d \in Deps[t] : d \notin ListAnswer

\* A settled node changes only while its own wave is being reprocessed.
SettledIsFinal ==
  [][\A n \in Node :
       status[n] \in Settled /\ (\A w \in InFlight : n \notin w.items)
         => status'[n] = status[n] \/ {status[n], status'[n]} = {"APPLIED", "DONE"}]_vars

\* An interrupted job is driven to an outcome.
JobFinishes == <>(result # "none")

\* ... where every node succeeds or waits for a human; BLOCKED only over a lost one.
JobSettles == <>(result \in {"DONE", "NEEDS_HUMAN"} \/ (result = "BLOCKED" /\ Lost # {}))

=============================================================================
