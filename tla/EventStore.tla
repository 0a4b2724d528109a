----------------------------- MODULE EventStore -----------------------------
(***************************************************************************)
(* What one job writes to the store (lazycode/store/), transaction by      *)
(* transaction: the event log and the tables projected from it, the        *)
(* content-addressed blobs, llm_calls and call_items, the applied-diff     *)
(* ledger and the statistics.  An event and its projection are two         *)
(* transactions, and a crash, or "lazycode doctor --rebuild" once the      *)
(* lease of a late driver ran out, falls between any two.                  *)
(*                                                                         *)
(* The driver is run_job of scheduler/orchestrator.py, reduced to the      *)
(* order of its writes: which node it takes is left open (WaveLoop has the *)
(* frontier), and so is what find_batch says (BatchWire has the provider). *)
(***************************************************************************)
EXTENDS Naturals, FiniteSets, Sequences

CONSTANTS
  Template,    \* a template node
  Check,       \* a Verify node
  Planned,     \* the diff nodes of the plan
  Child,       \* the diff nodes the template fans out to
  Answer,      \* diff node -> its answer: equal for equal texts
  NoNode,
  Fates,       \* what the provider may make of the items of each diff node
  MaxCrashes,  \* bound: crashes in a behaviour
  MaxRuns,     \* bound: times the job is run
  MaxDoctors   \* bound: rebuilds by hand

Diff == Planned \cup Child
Node == Diff \cup {Template, Check}

ASSUME StoreAssumption ==
  /\ IsFiniteSet(Diff)
  /\ Planned \cap Child = {}
  /\ Template # Check
  /\ {Template, Check} \cap Diff = {}
  /\ NoNode \notin Node
  /\ Fates \subseteq [Diff -> {"good", "bad", "failed"}]
  /\ MaxCrashes \in Nat /\ MaxRuns \in Nat /\ MaxDoctors \in Nat

VARIABLES
  log,       \* the events of the job
  tables,    \* jobs, nodes and waves, as projected
  objects,   \* files under objects/: what the file of a digest holds
  artifacts, \* digests with an artifacts row
  calls,     \* llm_calls: the row of the memo key of each diff node
  items,     \* call_items: <<call id, node>>; a call id is the wave of the call
  ledger,    \* applied_diffs rows of the worktree
  stats,     \* observations recorded per node
  pc,        \* where the driver stands
  next,      \* where it goes on after the projection at hand
  recon,     \* waves to reconcile
  wave,      \* the wave at hand
  todo,      \* nodes of the step at hand
  node,      \* the node at hand
  puts,      \* blobs cas.put has still to store, for the node at hand
  lost,      \* the driver's lease is gone
  fate,      \* the provider: what it makes of the items of each diff node
  crashes, doctors

content == <<objects, artifacts>>
memo == <<calls, items>>
store == <<log, tables, content, memo, ledger, stats>>
hand == <<wave, todo, node, puts>>
driver == <<pc, next, recon, hand, lost>>
bounds == <<crashes, doctors>>
vars == <<store, driver, fate, bounds>>

-----------------------------------------------------------------------------
(* Events and what they do to the tables (projections.py).                 *)

WaveId == [items : SUBSET Diff, ord : Nat]
NoWave == [items |-> {}, ord |-> 0]

Status == {"PENDING", "READY", "HARVESTED", "SUBMITTED", "RETURNED", "EXPIRED",
           "RE_ENQUEUED", "EXECUTING_LOCAL", "APPLIED", "DONE", "NEEDS_HUMAN"}
Success == {"DONE", "APPLIED"}

\* A nodes row: its status, its template and its wave.
Row == [status : Status, parent : {NoNode, Template}, wave : WaveId]
NoRow == [status |-> "absent", parent |-> NoNode, wave |-> NoWave]
NewRow(p) == [status |-> "PENDING", parent |-> p, wave |-> NoWave]

NoTables == [job |-> "none", node |-> [n \in Node |-> NoRow],
             wave |-> [w \in {} |-> "FORMED"]]

\* An event: its type, the nodes and the wave in its payload, and the status,
\* verdict or diff it carries.
Ev(type, nodes, w, arg) == [type |-> type, nodes |-> nodes, wave |-> w, arg |-> arg]
JobEv(type) == Ev(type, {}, NoWave, "")
NodeEv(type, n) == Ev(type, {n}, NoWave, "")
WaveEv(type, w) == Ev(type, w.items, w, "")

\* UPDATE nodes ... WHERE id: a node without a row stays without one.
SetStatus(t, S, s) ==
  [t EXCEPT !.node = [n \in Node |->
     IF n \in S /\ t.node[n] # NoRow THEN [t.node[n] EXCEPT !.status = s]
                                     ELSE t.node[n]]]

SetJob(t, s) == IF t.job = "none" THEN t ELSE [t EXCEPT !.job = s]

SetWave(t, w, s) ==
  [t EXCEPT !.wave = [v \in DOMAIN t.wave \cup {w} |-> IF v = w THEN s ELSE t.wave[v]]]

OnJobCreated(t) == IF t.job = "none" THEN [t EXCEPT !.job = "PENDING"] ELSE t

\* A row that is there keeps its status.
OnNodeAdded(t, e) ==
  [t EXCEPT !.node = [n \in Node |->
     IF n \in e.nodes /\ t.node[n] = NoRow THEN NewRow(NoNode) ELSE t.node[n]]]

OnFanoutResolved(t, e) ==
  [t EXCEPT !.node = [n \in Node |->
     IF n \notin e.nodes THEN t.node[n]
     ELSE IF t.node[n] = NoRow THEN NewRow(Template)
     ELSE [t.node[n] EXCEPT !.parent = Template]]]

OnContractResult(t, e) == IF e.arg = "failed" THEN SetStatus(t, e.nodes, "NEEDS_HUMAN") ELSE t

OnVerifyResult(t, e) ==
  SetStatus(t, e.nodes, IF e.arg = "passed" THEN "DONE" ELSE "NEEDS_HUMAN")

\* The nodes are found through call_items, by the call id of the event.
OnItemReturned(t, e, links) ==
  SetStatus(t, {n \in e.nodes : <<e.wave, n>> \in links},
            IF e.arg = "completed" THEN "RETURNED" ELSE "EXPIRED")

OnWaveFormed(t, e) ==
  LET row == IF e.wave \in DOMAIN t.wave THEN t ELSE SetWave(t, e.wave, "FORMED")
  IN  [row EXCEPT !.node = [n \in Node |->
         IF n \in e.nodes /\ t.node[n] # NoRow THEN [t.node[n] EXCEPT !.wave = e.wave]
                                               ELSE t.node[n]]]

OnWaveSubmitted(t, e) ==
  SetWave(SetStatus(OnWaveFormed(t, e), e.nodes, "SUBMITTED"), e.wave, "SUBMITTED")

OnWaveCompleted(t, e) ==
  IF e.wave \in DOMAIN t.wave THEN SetWave(t, e.wave, "COMPLETED") ELSE t

\* Events that are only in the log.
Silent == {"PLAN_PROPOSED", "ARTIFACT_APPLY_INTENT", "LEASE_ACQUIRED"}

\* _HANDLERS and apply.
Apply(t, e, links) ==
  CASE e.type = "JOB_CREATED"        -> OnJobCreated(t)
    [] e.type = "PLAN_APPROVED"      -> SetJob(t, "RUNNING")
    [] e.type = "JOB_DONE"           -> SetJob(t, "DONE")
    [] e.type = "NODE_ADDED"         -> OnNodeAdded(t, e)
    [] e.type = "FANOUT_RESOLVED"    -> OnFanoutResolved(t, e)
    [] e.type = "NODE_READY"         -> SetStatus(t, e.nodes, "READY")
    [] e.type = "NODE_HARVESTED"     -> SetStatus(t, e.nodes, "HARVESTED")
    [] e.type = "NODE_STATE_CHANGED" -> SetStatus(t, e.nodes, e.arg)
    [] e.type = "ITEM_RETURNED"      -> OnItemReturned(t, e, links)
    [] e.type = "CONTRACT_RESULT"    -> OnContractResult(t, e)
    [] e.type = "ARTIFACT_APPLIED"   -> SetStatus(t, e.nodes, "APPLIED")
    [] e.type = "VERIFY_RESULT"      -> OnVerifyResult(t, e)
    [] e.type = "NODE_DONE"          -> SetStatus(t, e.nodes, "DONE")
    [] e.type = "NODE_NEEDS_HUMAN"   -> SetStatus(t, e.nodes, "NEEDS_HUMAN")
    [] e.type = "WAVE_FORMED"        -> OnWaveFormed(t, e)
    [] e.type = "WAVE_SUBMITTED"     -> OnWaveSubmitted(t, e)
    [] e.type = "WAVE_COMPLETED"     -> OnWaveCompleted(t, e)
    [] e.type \in Silent             -> t

\* rebuild: the history through apply, onto empty tables.
Replay(history, links) ==
  LET after[i \in 0..Len(history)] ==
        IF i = 0 THEN NoTables ELSE Apply(after[i - 1], history[i], links)
  IN  after[Len(history)]

-----------------------------------------------------------------------------
(* create_job.                                                             *)

\* What create_job records, in its order; none of it is projected.
PlanLog ==
  <<JobEv("JOB_CREATED"), NodeEv("NODE_ADDED", Template), NodeEv("NODE_ADDED", Check),
    Ev("NODE_ADDED", Planned, NoWave, ""), JobEv("PLAN_PROPOSED"), JobEv("PLAN_APPROVED")>>

NoCall == [id |-> NoWave, ref |-> <<>>]
NoBlob == <<"none">>
Digest == {"response", "request"} \X ({Answer[n] : n \in Diff} \cup Diff)

Init ==
  /\ log = <<>>
  /\ tables = NoTables
  /\ objects = [d \in Digest |-> "none"]
  /\ artifacts = {}
  /\ calls = [n \in Diff |-> NoCall]
  /\ items = {}
  /\ ledger = {}
  /\ stats = [n \in Diff |-> 0]
  /\ pc = "create"
  /\ next = "loop"
  /\ recon = {}
  /\ wave = NoWave
  /\ todo = {}
  /\ node = NoNode
  /\ puts = <<>>
  /\ lost = FALSE
  /\ fate \in Fates
  /\ crashes = 0
  /\ doctors = 0

CreateJob ==
  /\ pc = "create"
  /\ Len(log) < Len(PlanLog)
  /\ log' = Append(log, PlanLog[Len(log) + 1])
  /\ UNCHANGED <<tables, content, memo, ledger, stats, driver, fate, bounds>>

\* Out of run_job: its locals are gone.  A blob half-written stays.
Leave ==
  /\ pc' = "down"
  /\ next' = "loop"
  /\ recon' = {}
  /\ wave' = NoWave
  /\ todo' = {}
  /\ node' = NoNode
  /\ puts' = <<>>
  /\ lost' = FALSE

Crash ==
  /\ pc # "down"
  /\ crashes < MaxCrashes
  /\ crashes' = crashes + 1
  /\ Leave
  /\ UNCHANGED <<store, fate, doctors>>

-----------------------------------------------------------------------------
(* Transactions the driver is made of.                                     *)

\* eventlog.record alone.
Record(e) == log' = Append(log, e) /\ UNCHANGED tables

\* _emit and _state_change: the event first; its projection is Project.
Log(e, then) ==
  /\ Record(e)
  /\ pc' = "project"
  /\ next' = then
  /\ UNCHANGED <<content, memo, ledger, stats, lost, fate, bounds>>

Emit(e, then) == Log(e, then) /\ UNCHANGED recon

Project ==
  /\ pc = "project"
  /\ tables' = Apply(tables, log[Len(log)], items)
  /\ pc' = next
  /\ next' = "loop"
  /\ UNCHANGED <<log, content, memo, ledger, stats, recon, hand, lost, fate, bounds>>

Runs == Cardinality({i \in 1..Len(log) : log[i].type = "LEASE_ACQUIRED"})

\* run_job takes the lease, of a job that is new or has a jobs row ...
Acquire ==
  /\ Runs < MaxRuns
  /\ \/ pc = "create" /\ Len(log) = Len(PlanLog)
     \/ pc = "down" /\ tables.job # "none"
  /\ tables.job # "DONE"
  /\ Record(JobEv("LEASE_ACQUIRED"))
  /\ pc' = "resume"
  /\ UNCHANGED <<content, memo, ledger, stats, next, recon, hand, lost, fate, bounds>>

\* The waves of the job, from the log.
Logged(type) == {log[i].wave : i \in {j \in 1..Len(log) : log[j].type = type}}
InFlight == Logged("WAVE_SUBMITTED") \ Logged("WAVE_COMPLETED")
Unsubmitted == Logged("WAVE_FORMED") \ (Logged("WAVE_SUBMITTED") \cup Logged("WAVE_COMPLETED"))

\* ... and resume_job rebuilds the tables before anything is read from them.
\* Mutant: it trusts them.
Rebuilt_Not == tables

Rebuilt == Replay(log, items)

Resume ==
  /\ pc = "resume"
  /\ tables' = Rebuilt
  /\ recon' = Unsubmitted
  /\ pc' = "waves"
  /\ UNCHANGED <<log, content, memo, ledger, stats, next, hand, lost, fate, bounds>>

\* doctor --rebuild of a job whose driver is down, or late for its heartbeat.
Doctor ==
  /\ tables.job # "none"
  /\ pc \notin {"create", "resume"}
  /\ doctors < MaxDoctors
  /\ doctors' = doctors + 1
  /\ tables' = Replay(log, items)
  /\ lost' = (pc # "down")
  /\ UNCHANGED <<log, content, memo, ledger, stats, pc, next, recon, hand, fate, crashes>>

\* What an iteration works on: the Verify node comes last.
Frontier ==
  {n \in Node : /\ tables.node[n].status \in {"PENDING", "READY", "RE_ENQUEUED"}
                /\ n = Check => \A m \in Node \ {Check} :
                     tables.node[m] = NoRow \/ tables.node[m].status \in Success}

\* The forced heartbeat, once per iteration and before the results of a batch
\* are read: a driver that lost its lease writes nothing more.
Heartbeat ==
  /\ pc \in {"top", "poll"}
  /\ \/ lost /\ Leave
     \/ /\ ~lost
        /\ IF pc = "top"
           THEN todo' = Frontier /\ pc' = IF Frontier = {} THEN "final" ELSE "loop"
           ELSE todo' = wave.items /\ pc' = "fetch"
        /\ UNCHANGED <<next, recon, wave, node, puts, lost>>
  /\ UNCHANGED <<store, fate, bounds>>

-----------------------------------------------------------------------------
(* Waves submitted or formed before a crash.                               *)

\* A wave that was in flight is fetched (again).
TakeUp(w) ==
  /\ pc = "waves"
  /\ w \in InFlight
  /\ wave' = w
  /\ pc' = "poll"
  /\ UNCHANGED <<store, next, todo, node, puts, recon, lost, fate, bounds>>

\* A wave without WAVE_SUBMITTED: find_batch has it ...
Adopt(w) ==
  /\ pc = "waves"
  /\ InFlight = {}
  /\ w \in recon
  /\ recon' = recon \ {w}
  /\ Log(WaveEv("WAVE_SUBMITTED", w), "waves")
  /\ UNCHANGED hand

\* ... or it has not: its harvested nodes go back on the frontier, one by one.
GiveUp(w) ==
  /\ pc = "waves"
  /\ InFlight = {}
  /\ w \in recon
  /\ recon' = recon \ {w}
  /\ todo' = {n \in w.items : tables.node[n].status = "HARVESTED"}
  /\ pc' = "unharvest"
  /\ UNCHANGED <<store, next, wave, node, puts, lost, fate, bounds>>

Unharvest ==
  /\ pc = "unharvest"
  /\ IF todo = {}
     THEN pc' = "waves" /\ UNCHANGED <<store, next, recon, hand, lost, fate, bounds>>
     ELSE LET n == CHOOSE n \in todo : TRUE
          IN  /\ todo' = todo \ {n}
              /\ Emit(Ev("NODE_STATE_CHANGED", {n}, NoWave, "RE_ENQUEUED"), "unharvest")
              /\ UNCHANGED <<wave, node, puts>>

EnterLoop ==
  /\ pc = "waves"
  /\ InFlight = {}
  /\ recon = {}
  /\ pc' = "top"
  /\ UNCHANGED <<store, next, recon, hand, lost, fate, bounds>>

-----------------------------------------------------------------------------
(* The loop: the frontier in its order, then one wave of what is remote.   *)

MarkReady ==
  /\ pc = "loop"
  /\ LET new == {n \in todo : tables.node[n].status = "PENDING"}
     IN  new # {} /\ Emit(NodeEv("NODE_READY", CHOOSE n \in new : TRUE), "loop")
  /\ UNCHANGED hand

\* n is local, and marked ready: it runs at once.
Local(n) ==
  /\ pc = "loop"
  /\ n \in todo
  /\ tables.node[n].status # "PENDING"
  /\ todo' = todo \ {n}
  /\ UNCHANGED <<wave, node, puts>>

FanOut ==
  /\ Local(Template)
  /\ \/ Emit(Ev("FANOUT_RESOLVED", Child, NoWave, ""), "fanout")
     \/ Emit(NodeEv("NODE_NEEDS_HUMAN", Template), "loop")

TemplateDone ==
  /\ pc = "fanout"
  /\ Emit(NodeEv("NODE_DONE", Template), "loop")
  /\ UNCHANGED hand

StartVerify ==
  /\ Local(Check)
  /\ Emit(Ev("NODE_STATE_CHANGED", {Check}, NoWave, "EXECUTING_LOCAL"), "verify")

FinishVerify ==
  /\ pc = "verify"
  /\ \E verdict \in {"passed", "failed"} :
       Emit(Ev("VERIFY_RESULT", {Check}, NoWave, verdict), "loop")
  /\ UNCHANGED hand

NextIteration ==
  /\ pc = "loop"
  /\ todo = {}
  /\ pc' = "top"
  /\ UNCHANGED <<store, next, recon, hand, lost, fate, bounds>>

\* The ordinal is the number of submits of the same items on record.
Submits(S) == Cardinality({i \in 1..Len(log) :
                             log[i].type = "WAVE_SUBMITTED" /\ log[i].nodes = S})

FormWave ==
  /\ pc = "loop"
  /\ todo # {}
  /\ todo \subseteq Diff
  /\ \A n \in todo : tables.node[n].status # "PENDING"
  /\ LET w == [items |-> todo, ord |-> Submits(todo)]
     IN  wave' = w /\ Emit(WaveEv("WAVE_FORMED", w), "harvest")
  /\ UNCHANGED <<todo, node, puts>>

Harvest ==
  /\ pc = "harvest"
  /\ todo # {}
  /\ LET n == CHOOSE n \in todo : TRUE
     IN  /\ todo' = todo \ {n}
         /\ Emit(NodeEv("NODE_HARVESTED", n), "harvest")
  /\ UNCHANGED <<wave, node, puts>>

Submit ==
  /\ pc = "harvest"
  /\ todo = {}
  /\ Emit(WaveEv("WAVE_SUBMITTED", wave), "poll")
  /\ UNCHANGED hand

CompleteWave ==
  /\ pc = "fetch"
  /\ todo = {}
  /\ Emit(WaveEv("WAVE_COMPLETED", wave), "waves")
  /\ UNCHANGED hand

\* _finalize: JOB_DONE, or the job is left to a human or to the next run.
JobDone ==
  /\ pc = "final"
  /\ \A n \in Node : tables.node[n] = NoRow \/ tables.node[n].status \in Success
  /\ Emit(JobEv("JOB_DONE"), "down")
  /\ UNCHANGED hand

Blocked ==
  /\ pc = "final"
  /\ \E n \in Node : tables.node[n] # NoRow /\ tables.node[n].status \notin Success
  /\ Leave
  /\ UNCHANGED <<store, fate, bounds>>

-----------------------------------------------------------------------------
(* _process_item: one item of the wave.                                    *)

Response(n) == <<"response", Answer[n]>>
Request(n) == <<"request", n>>

\* An item that fails does so in the first batch it is in, however often that
\* batch is read.
Fails(n, w) ==
  /\ fate[n] = "failed"
  /\ \A i, j \in 1..Len(log) :
       /\ log[i].type = "WAVE_SUBMITTED" /\ log[i].wave = w
       /\ log[j].type = "WAVE_SUBMITTED" /\ n \in log[j].nodes
       => i <= j

TakeItem(n) ==
  /\ pc = "fetch"
  /\ n \in todo
  /\ todo' = todo \ {n}
  /\ node' = n
  /\ puts' = IF Fails(n, wave) THEN <<>> ELSE <<Response(n), Request(n)>>
  /\ pc' = IF Fails(n, wave) THEN "memo" ELSE "put"
  /\ UNCHANGED <<store, next, wave, recon, lost, fate, bounds>>

NextBlob ==
  /\ puts' = Tail(puts)
  /\ pc' = IF Len(puts) = 1 THEN "memo" ELSE "put"
  /\ UNCHANGED <<wave, todo, node>>

\* cas.put of the next blob: nothing to do when it has its row, and nothing to
\* write when its file is there.
PutBlob ==
  /\ pc = "put"
  /\ LET d == Head(puts)
     IN  IF d \in artifacts THEN NextBlob
         ELSE /\ pc' = IF objects[d] \in {"part", "whole"} THEN "row" ELSE "write"
              /\ UNCHANGED hand
  /\ UNCHANGED <<store, next, recon, lost, fate, bounds>>

\* The bytes go into a temporary file; a crash leaves it behind ...
\* Mutant: they go into the blob itself.
WriteBlob_InPlace ==
  /\ pc = "write"
  /\ objects' = [objects EXCEPT ![Head(puts)] = "part"]
  /\ pc' = "rename"
  /\ UNCHANGED <<log, tables, artifacts, memo, ledger, stats, next, recon, hand,
                 lost, fate, bounds>>

WriteBlob ==
  /\ pc = "write"
  /\ objects' = [objects EXCEPT ![Head(puts)] = "temp"]
  /\ pc' = "rename"
  /\ UNCHANGED <<log, tables, artifacts, memo, ledger, stats, next, recon, hand,
                 lost, fate, bounds>>

\* ... until it is renamed onto the blob.
RenameBlob ==
  /\ pc = "rename"
  /\ objects' = [objects EXCEPT ![Head(puts)] = "whole"]
  /\ pc' = "row"
  /\ UNCHANGED <<log, tables, artifacts, memo, ledger, stats, next, recon, hand,
                 lost, fate, bounds>>

ArtifactRow ==
  /\ pc = "row"
  /\ artifacts' = artifacts \cup {Head(puts)}
  /\ NextBlob
  /\ UNCHANGED <<log, tables, objects, memo, ledger, stats, next, recon, lost, fate, bounds>>

\* memo.put: the first row of a memo key stays.
PutCall ==
  /\ pc = "memo"
  /\ calls' = [calls EXCEPT ![node] =
       IF @ # NoCall THEN @
       ELSE [id |-> wave, ref |-> IF Fails(node, wave) THEN NoBlob ELSE Response(node)]]
  /\ pc' = "link"
  /\ UNCHANGED <<log, tables, content, items, ledger, stats, next, recon, hand,
                 lost, fate, bounds>>

\* The id the item goes by: its own when it failed, else that of the row.
\* Mutant: its own in both cases.
CallId_Own(n) == wave

CallId(n) == IF Fails(n, wave) THEN wave ELSE calls[n].id

\* memo.add_call_item.
LinkItem ==
  /\ pc = "link"
  /\ items' = items \cup {<<CallId(node), node>>}
  /\ pc' = "returned"
  /\ UNCHANGED <<log, tables, content, calls, ledger, stats, next, recon, hand,
                 lost, fate, bounds>>

ItemReturned ==
  /\ pc = "returned"
  /\ IF Fails(node, wave)
     THEN Emit(Ev("ITEM_RETURNED", {node}, CallId(node), "failed"), "requeue")
     ELSE Emit(Ev("ITEM_RETURNED", {node}, CallId(node), "completed"), "judge")
  /\ UNCHANGED hand

ReEnqueue ==
  /\ pc = "requeue"
  /\ Emit(Ev("NODE_STATE_CHANGED", {node}, NoWave, "RE_ENQUEUED"), "fetch")
  /\ UNCHANGED hand

-----------------------------------------------------------------------------
(* _validate_and_apply.                                                    *)

\* _record_stats, then what follows it.
CountItem(then) ==
  /\ stats' = [stats EXCEPT ![node] = @ + 1]
  /\ pc' = then
  /\ UNCHANGED <<log, tables, content, memo, ledger, next, recon, hand, lost, fate, bounds>>

\* A crash between the two leaves a node counted and not judged; it is counted
\* again when the wave is processed again.
\* Mutant: judged first, counted after.
RefuseItem_JudgedFirst ==
  /\ pc = "judge"
  /\ fate[node] = "bad"
  /\ IF log[Len(log)].type = "CONTRACT_RESULT"
       THEN CountItem("fetch")
       ELSE Emit(Ev("CONTRACT_RESULT", {node}, NoWave, "failed"), "judge") /\ UNCHANGED hand

RefuseItem ==
  /\ pc = "judge"
  /\ fate[node] = "bad"
  /\ CountItem("refuse")

Refused ==
  /\ pc = "refuse"
  /\ Emit(Ev("CONTRACT_RESULT", {node}, NoWave, "failed"), "fetch")
  /\ UNCHANGED hand

AcceptItem ==
  /\ pc = "judge"
  /\ fate[node] # "bad"
  /\ Emit(Ev("CONTRACT_RESULT", {node}, NoWave, "passed"), "apply")
  /\ UNCHANGED hand

AlreadyApplied ==
  /\ pc = "apply"
  /\ Answer[node] \in ledger
  /\ CountItem("done")

\* record_intent: in the log only.
RecordIntent ==
  /\ pc = "apply"
  /\ Answer[node] \notin ledger
  /\ Record(NodeEv("ARTIFACT_APPLY_INTENT", node))
  /\ pc' = "land"
  /\ UNCHANGED <<content, memo, ledger, stats, next, recon, hand, lost, fate, bounds>>

\* apply_diff fails ...
Conflict ==
  /\ pc = "land"
  /\ CountItem("giveup")

NeedsHuman ==
  /\ pc = "giveup"
  /\ Emit(NodeEv("NODE_NEEDS_HUMAN", node), "fetch")
  /\ UNCHANGED hand

\* ... or it lands.
DiffLands ==
  /\ ledger' = ledger \cup {Answer[node]}
  /\ Record(NodeEv("ARTIFACT_APPLIED", node))
  /\ pc' = "project"
  /\ next' = "count"
  /\ UNCHANGED <<content, memo, stats, recon, hand, lost, fate, bounds>>

\* Mutant: row and event in transactions of their own.
RecordApplied_Apart ==
  /\ pc = "land"
  /\ \/ DiffLands
     \/ /\ crashes < MaxCrashes
        /\ crashes' = crashes + 1
        /\ Record(NodeEv("ARTIFACT_APPLIED", node))
        /\ Leave
        /\ UNCHANGED <<content, memo, ledger, stats, fate, doctors>>

\* record_applied: ledger row and event in one transaction.
RecordApplied == pc = "land" /\ DiffLands

CountApplied ==
  /\ pc = "count"
  /\ CountItem("done")

NodeDone ==
  /\ pc = "done"
  /\ Emit(NodeEv("NODE_DONE", node), "fetch")
  /\ UNCHANGED hand

-----------------------------------------------------------------------------
Starting == CreateJob \/ Acquire \/ Resume \/ Project \/ Heartbeat
Recovering ==
  EnterLoop \/ Unharvest \/ \E w \in Logged("WAVE_FORMED") : TakeUp(w) \/ Adopt(w) \/ GiveUp(w)
Looping ==
  \/ MarkReady \/ FanOut \/ TemplateDone \/ StartVerify \/ FinishVerify \/ NextIteration
  \/ FormWave \/ Harvest \/ Submit \/ CompleteWave \/ JobDone \/ Blocked
Storing == PutBlob \/ WriteBlob \/ RenameBlob \/ ArtifactRow
Returning == (\E n \in Diff : TakeItem(n)) \/ PutCall \/ LinkItem \/ ItemReturned \/ ReEnqueue
Judging ==
  \/ RefuseItem \/ Refused \/ AcceptItem \/ AlreadyApplied \/ RecordIntent
  \/ Conflict \/ NeedsHuman \/ RecordApplied \/ CountApplied \/ NodeDone

Next == Starting \/ Recovering \/ Looping \/ Storing \/ Returning \/ Judging
        \/ Crash \/ Doctor

Spec == Init /\ [][Next]_vars

-----------------------------------------------------------------------------
(* Properties.                                                             *)

Place == {"create", "down", "resume", "waves", "unharvest", "top", "loop", "final", "project",
          "fanout", "verify", "harvest", "poll", "fetch", "put", "write", "rename", "row", "memo",
          "link", "returned", "requeue", "judge", "refuse", "apply", "land", "giveup", "count",
          "done"}

\* Types, with the two foreign keys a step of the loop could break: the call of
\* a call_items row, and the blob of an llm_calls row.
TypeOK ==
  /\ DOMAIN tables.wave \subseteq WaveId
  /\ tables.node \in [Node -> Row \cup {NoRow}]
  /\ artifacts \subseteq Digest
  /\ ledger \subseteq {Answer[n] : n \in Diff}
  /\ stats \in [Diff -> Nat]
  /\ items \subseteq WaveId \X Diff
  /\ \A i \in items : calls[i[2]].id = i[1]
  /\ pc \in Place

\* Event i is the last that tells the tables anything.
LastTold(i) == \A j \in (i + 1)..Len(log) : log[j].type \in Silent

\* jobs, nodes and waves are what a replay of the log gives; after a crash
\* between an event and its projection they miss that one event and no other,
\* whatever crashes and rebuilds came before (projections.apply, rebuild).
TablesAreTheLog ==
  \/ tables = NoTables /\ pc \in {"create", "down", "resume"}
  \/ tables = Replay(log, items)
  \/ /\ pc \in {"down", "resume", "project"}
     /\ \E i \in 1..Len(log) :
          LastTold(i) /\ tables = Replay(SubSeq(log, 1, i - 1), items)

\* A blob that has a row is complete, and a cached answer has its blob: no
\* crash makes a half-written file the answer of a call (cas.put, memo.put).
BlobsAreWhole ==
  /\ \A d \in artifacts : objects[d] = "whole"
  /\ \A n \in Diff : calls[n].ref \in Digest => calls[n].ref \in artifacts

Applied(a) == {i \in 1..Len(log) : log[i].type = "ARTIFACT_APPLIED"
                                   /\ \E n \in log[i].nodes : Answer[n] = a}

\* A diff is in the ledger if and only if its ARTIFACT_APPLIED is in the log,
\* and it is there once (ledger.record_applied).
LedgerIsLogged ==
  \A n \in Diff : Cardinality(Applied(Answer[n])) = IF Answer[n] \in ledger THEN 1 ELSE 0

\* A diff node whose row says it was judged is in the statistics, at most once
\* for every run_job that may have processed it: crashes can only add to the
\* averages, never lose a call (_record_stats, stats.record).
JudgedIsCounted ==
  \A n \in Diff :
    /\ tables.node[n].status \in {"DONE", "NEEDS_HUMAN"} => stats[n] >= 1
    /\ stats[n] <= 1 + crashes

=============================================================================
