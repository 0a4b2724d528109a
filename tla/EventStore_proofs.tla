------------------------- MODULE EventStore_proofs -------------------------
(***************************************************************************)
(* What the store promises for any plan, any answers and any number of     *)
(* crashes, runs and rebuilds.  In the order of the module:                *)
(*                                                                         *)
(*   the applied-diff ledger says what the event log says;                 *)
(*   no blob with a row is half-written;                                   *)
(*   the tables are the replay of the log: replay is append by append, and *)
(*     an event applied twice does what it does once;                      *)
(*   the rows refer to rows that are there: one wave is in flight at a     *)
(*     time, so the row of a call is of the first wave its node was in;    *)
(*   a judged node is counted, at most once for every run: what a node is  *)
(*     still owed never grows but by a crash.                              *)
(***************************************************************************)
EXTENDS EventStore, FiniteSetTheorems, WellFoundedInduction, TLAPS

USE DEF content, memo, store, hand, driver, bounds

\* Where the driver stores a blob, and where it holds an item of the wave.
PutPcs == {"put", "write", "rename", "row"}
ItemPcs == {"requeue", "judge", "refuse", "apply", "giveup", "count", "done"}
NodePcs == PutPcs \cup ItemPcs \cup {"memo", "link", "returned", "land"}

\* The log is a sequence, whatever its events.
LogInv == \E S : log \in Seq(S)

\* What is projected next, and that the item at hand is a diff node.
HandInv ==
  /\ next \notin PutPcs \cup {"create", "resume", "memo", "link", "returned", "land", "project"}
  /\ pc \in NodePcs \/ (pc = "project" /\ next \in ItemPcs) => node \in Diff

LoopInv == LogInv /\ HandInv

-----------------------------------------------------------------------------
(* The steps of the driver.                                                *)

\* The type of an event is the type it was made with.
LEMMA EventType ==
  /\ \A type, S, w, arg : Ev(type, S, w, arg).type = type
  /\ \A type : JobEv(type).type = type
  /\ \A type, w : WaveEv(type, w).type = type
  /\ \A type, n : NodeEv(type, n).type = type
  BY DEF Ev, JobEv, WaveEv, NodeEv

\* A step that records another event than a landing.
Logs(e) == e.type # "ARTIFACT_APPLIED" /\ log' = Append(log, e)

Writes == UNCHANGED log \/ \E e : Logs(e)

\* An event of the plan lands no diff.
LEMMA PlanIsNoLanding ==
  ASSUME LogInv, CreateJob
  PROVE  \E e : Logs(e)
<1>1. Len(log) \in Nat
  BY DEF LogInv
<1>2. Len(PlanLog) = 6
  BY DEF PlanLog
<1>3. Len(log) + 1 \in 1..6 /\ log' = Append(log, PlanLog[Len(log) + 1])
  BY <1>1, <1>2 DEF CreateJob
<1>4. /\ PlanLog[1] = JobEv("JOB_CREATED")
      /\ PlanLog[2] = NodeEv("NODE_ADDED", Template)
      /\ PlanLog[3] = NodeEv("NODE_ADDED", Check)
      /\ PlanLog[4] = Ev("NODE_ADDED", Planned, NoWave, "")
      /\ PlanLog[5] = JobEv("PLAN_PROPOSED")
      /\ PlanLog[6] = JobEv("PLAN_APPROVED")
  BY DEF PlanLog
<1>5. /\ PlanLog[1].type # "ARTIFACT_APPLIED" /\ PlanLog[2].type # "ARTIFACT_APPLIED"
      /\ PlanLog[3].type # "ARTIFACT_APPLIED" /\ PlanLog[4].type # "ARTIFACT_APPLIED"
      /\ PlanLog[5].type # "ARTIFACT_APPLIED" /\ PlanLog[6].type # "ARTIFACT_APPLIED"
  <2>1. /\ JobEv("JOB_CREATED").type # "ARTIFACT_APPLIED"
        /\ JobEv("PLAN_PROPOSED").type # "ARTIFACT_APPLIED"
        /\ JobEv("PLAN_APPROVED").type # "ARTIFACT_APPLIED"
    BY EventType
  <2>2. \A n : NodeEv("NODE_ADDED", n).type # "ARTIFACT_APPLIED"
    BY EventType
  <2>3. Ev("NODE_ADDED", Planned, NoWave, "").type # "ARTIFACT_APPLIED"
    BY DEF Ev
  <2> QED
    BY <1>4, <2>1, <2>2, <2>3
<1>6. \A i \in 1..6 : PlanLog[i].type # "ARTIFACT_APPLIED"
  BY <1>5
<1> QED
  BY <1>3, <1>6 DEF Logs

\* The ledger changes in one step only, together with the log.
LEMMA OneWriter ==
  ASSUME LogInv, [Next]_vars
  PROVE  \/ Writes /\ UNCHANGED ledger
         \/ RecordApplied
<1> USE DEF Writes, Logs
<1>1. CASE CreateJob
  BY <1>1, PlanIsNoLanding DEF CreateJob
<1>2. CASE Acquire
  BY <1>2, EventType DEF Acquire, Record
<1>3. CASE Recovering
  <2>1. CASE Unharvest
    <3>1. \/ UNCHANGED store
          \/ \E n : Emit(Ev("NODE_STATE_CHANGED", {n}, NoWave, "RE_ENQUEUED"), "unharvest")
      BY <2>1 DEF Unharvest
    <3> QED
      BY <3>1 DEF Ev, Emit, Log, Record
  <2>2. ASSUME NEW w, Adopt(w)
        PROVE  Writes /\ UNCHANGED ledger
    <3>1. Logs(WaveEv("WAVE_SUBMITTED", w)) /\ UNCHANGED ledger
      BY <2>2 DEF Adopt, Log, Record, WaveEv, Ev
    <3> QED
      BY <3>1
  <2>3. CASE EnterLoop \/ \E w \in Logged("WAVE_FORMED") : TakeUp(w) \/ GiveUp(w)
    BY <2>3 DEF EnterLoop, TakeUp, GiveUp
  <2> QED
    BY <1>3, <2>1, <2>2, <2>3 DEF Recovering
<1>4. CASE MarkReady \/ FanOut \/ TemplateDone \/ StartVerify \/ FinishVerify
  BY <1>4
  DEF NodeEv, Ev, MarkReady, FanOut, TemplateDone, StartVerify, FinishVerify, Local, Emit, Log,
      Record
<1>5. CASE FormWave \/ Harvest \/ Submit \/ CompleteWave \/ JobDone
  BY <1>5, EventType DEF FormWave, Harvest, Submit, CompleteWave, JobDone, Emit, Log, Record
<1>6. CASE ItemReturned \/ ReEnqueue
  BY <1>6, EventType DEF ItemReturned, ReEnqueue, Emit, Log, Record
<1>7. CASE Refused \/ AcceptItem \/ RecordIntent \/ NeedsHuman \/ NodeDone
  BY <1>7, EventType DEF Refused, AcceptItem, RecordIntent, NeedsHuman, NodeDone, Emit, Log, Record
<1>8. CASE \/ UNCHANGED vars \/ Resume \/ Project \/ Heartbeat \/ NextIteration \/ Blocked
           \/ Storing \/ (\E n \in Diff : TakeItem(n)) \/ PutCall \/ LinkItem \/ RefuseItem
           \/ AlreadyApplied \/ Conflict \/ CountApplied \/ Crash \/ Doctor
  BY <1>8
  DEF vars, Resume, Project, Heartbeat, NextIteration, Blocked, Storing, PutBlob, WriteBlob,
      RenameBlob, ArtifactRow, TakeItem, PutCall, LinkItem, RefuseItem, AlreadyApplied, Conflict,
      CountApplied, CountItem, Crash, Doctor
<1> QED
  BY <1>1, <1>2, <1>3, <1>4, <1>5, <1>6, <1>7, <1>8
  DEF Next, Starting, Looping, Returning, Judging

\* A landing records its event.
LEMMA LandingIsLogged ==
  ASSUME RecordApplied
  PROVE  /\ pc = "land"
         /\ ledger' = ledger \cup {Answer[node]}
         /\ log' = Append(log, NodeEv("ARTIFACT_APPLIED", node))
  BY DEF RecordApplied, DiffLands, Record

\* Every step leaves the log a sequence.
LEMMA LogStep ==
  ASSUME LogInv, [Next]_vars
  PROVE  LogInv'
<1>1. CASE UNCHANGED log
  BY <1>1 DEF LogInv
<1>2. ASSUME NEW e, log' = Append(log, e)
      PROVE  LogInv'
  <2>1. PICK S : log \in Seq(S)
    BY DEF LogInv
  <2>2. log \in Seq(S \cup {e}) /\ e \in S \cup {e}
    BY <2>1
  <2>3. log' \in Seq(S \cup {e})
    BY <1>2, <2>2
  <2> QED
    BY <2>3 DEF LogInv
<1> QED
  BY <1>1, <1>2, OneWriter, LandingIsLogged DEF Writes, Logs

\* The driver holds a node of the wave while it works on an item.
LEMMA HandStep ==
  ASSUME HandInv, [Next]_vars
  PROVE  HandInv'
<1> USE DEF HandInv, NodePcs, PutPcs, ItemPcs
<1>1. CASE Starting \/ Doctor \/ Crash \/ UNCHANGED vars
  BY <1>1 DEF Starting, CreateJob, Acquire, Resume, Project, Heartbeat, Record, Doctor, Crash,
              Leave, vars
<1>3. CASE Recovering
  BY <1>3 DEF Recovering, EnterLoop, Unharvest, TakeUp, Adopt, GiveUp, Emit, Log
<1>4. CASE Looping
  BY <1>4 DEF Looping, MarkReady, FanOut, TemplateDone, StartVerify, FinishVerify, Local, Emit,
              Log, NextIteration, FormWave, Harvest, Submit, CompleteWave, JobDone, Blocked, Leave
<1>5. CASE Storing
  BY <1>5 DEF Storing, PutBlob, WriteBlob, RenameBlob, ArtifactRow, NextBlob
<1>6. CASE Returning
  BY <1>6 DEF Returning, TakeItem, PutCall, LinkItem, ItemReturned, ReEnqueue, Emit, Log
<1>7. CASE Judging
  BY <1>7 DEF Judging, RefuseItem, Refused, AcceptItem, AlreadyApplied, RecordIntent, Conflict,
              NeedsHuman, RecordApplied, DiffLands, CountApplied, CountItem, NodeDone, Emit, Log
<1> QED
  BY <1>1, <1>3, <1>4, <1>5, <1>6, <1>7 DEF Next

\* The driver starts with an empty log and no item.
LEMMA LoopInit == Init => LoopInv
<1> SUFFICES ASSUME Init PROVE LoopInv
  OBVIOUS
<1>1. log \in Seq({})
  BY DEF Init
<1> QED
  BY <1>1 DEF Init, LoopInv, LogInv, HandInv, NodePcs, PutPcs, ItemPcs

\* Every step keeps the log a sequence and the node at hand a diff node.
LEMMA LoopStep == LoopInv /\ [Next]_vars => LoopInv'
  BY LogStep, HandStep DEF LoopInv

-----------------------------------------------------------------------------
(* The ledger and the log.                                                 *)

\* A diff that is on its way is not in the ledger.
FreshInv == pc = "land" => Answer[node] \notin ledger

LandInv == LoopInv /\ FreshInv /\ LedgerIsLogged

\* What an event adds to the landings of an answer.
LEMMA AppliedGrows ==
  ASSUME LogInv, NEW e, log' = Append(log, e), NEW a
  PROVE  /\ Len(log) \in Nat
         /\ Applied(a)' = Applied(a) \cup
              {i \in {Len(log) + 1} : e.type = "ARTIFACT_APPLIED"
                                     /\ \E n \in e.nodes : Answer[n] = a}
<1>1. PICK S : log \in Seq(S)
  BY DEF LogInv
<1>2. /\ Len(log) \in Nat /\ Len(log') = Len(log) + 1
      /\ log'[Len(log) + 1] = e
      /\ \A i \in 1..Len(log) : log'[i] = log[i]
  BY <1>1
<1>3. 1..Len(log') = (1..Len(log)) \cup {Len(log) + 1}
  BY <1>2
<1> QED
  BY <1>2, <1>3 DEF Applied

\* The landings of an answer are finitely many, and none is in the future.
LEMMA AppliedIsFinite ==
  ASSUME LogInv, NEW a
  PROVE  IsFiniteSet(Applied(a)) /\ Len(log) + 1 \notin Applied(a)
<1>1. Len(log) \in Nat
  BY DEF LogInv
<1>2. IsFiniteSet(1..Len(log))
  BY <1>1, FS_Interval
<1>3. Applied(a) \in SUBSET (1..Len(log))
  BY DEF Applied
<1> QED
  BY <1>1, <1>2, <1>3, FS_Subset

\* Only an answer that is not in the ledger gets as far as landing.
LEMMA FreshStep ==
  ASSUME LoopInv, FreshInv, [Next]_vars
  PROVE  FreshInv'
<1> SUFFICES ASSUME pc' = "land" PROVE Answer[node'] \notin ledger'
  BY DEF FreshInv
<1>1. CASE RecordIntent
  BY <1>1 DEF RecordIntent
<1>2. CASE ~RecordIntent
  <2>1. pc = "land" /\ UNCHANGED <<node, ledger>>
    <3>1. CASE Starting \/ Doctor \/ Crash \/ UNCHANGED vars
      BY <3>1 DEF Starting, CreateJob, Acquire, Resume, Project, Heartbeat, Record, Doctor, Crash,
                  Leave, vars, LoopInv, HandInv
    <3>2. CASE Recovering
      BY <3>2 DEF Recovering, EnterLoop, Unharvest, TakeUp, Adopt, GiveUp, Emit, Log
    <3>3. CASE Looping
      BY <3>3 DEF Looping, MarkReady, FanOut, TemplateDone, StartVerify, FinishVerify, Local,
                  Emit, Log, NextIteration, FormWave, Harvest, Submit, CompleteWave, JobDone,
                  Blocked, Leave
    <3>4. CASE Storing
      BY <3>4 DEF Storing, PutBlob, WriteBlob, RenameBlob, ArtifactRow, NextBlob
    <3>5. CASE Returning
      BY <3>5 DEF Returning, TakeItem, PutCall, LinkItem, ItemReturned, ReEnqueue, Emit, Log
    <3>6. CASE Judging
      BY <1>2, <3>6 DEF Judging, RefuseItem, Refused, AcceptItem, AlreadyApplied, Conflict,
                  NeedsHuman, RecordApplied, DiffLands, CountApplied, CountItem, NodeDone, Emit,
                  Log
    <3> QED
      BY <3>1, <3>2, <3>3, <3>4, <3>5, <3>6 DEF Next
  <2> QED
    BY <2>1 DEF FreshInv
<1> QED
  BY <1>1, <1>2

\* A landing is the first of its answer, and leaves the other answers alone.
LEMMA LedgerStep ==
  ASSUME LandInv, [Next]_vars
  PROVE  LedgerIsLogged'
<1> USE DEF LandInv, LoopInv
<1> SUFFICES ASSUME NEW n \in Diff, NEW a, a = Answer[n]
             PROVE  Cardinality(Applied(a)') = IF a \in ledger' THEN 1 ELSE 0
  BY DEF LedgerIsLogged
<1>1. Cardinality(Applied(a)) = IF a \in ledger THEN 1 ELSE 0
  BY DEF LedgerIsLogged
<1>2. CASE UNCHANGED <<log, ledger>>
  <2>1. Applied(a)' = Applied(a)
    BY <1>2 DEF Applied
  <2> QED
    BY <1>1, <1>2, <2>1
<1>3. ASSUME NEW e, Logs(e), UNCHANGED ledger
      PROVE  Cardinality(Applied(a)') = IF a \in ledger' THEN 1 ELSE 0
  <2>1. Applied(a)' = Applied(a) \cup {i \in {Len(log) + 1} : e.type = "ARTIFACT_APPLIED"
                                     /\ \E m \in e.nodes : Answer[m] = a}
    BY <1>3, AppliedGrows DEF Logs
  <2>2. Applied(a)' = Applied(a)
    BY <1>3, <2>1 DEF Logs
  <2> QED
    BY <1>1, <1>3, <2>2
<1>4. CASE RecordApplied
  <2> DEFINE e == NodeEv("ARTIFACT_APPLIED", node)
  <2>1. /\ ledger' = ledger \cup {Answer[node]} /\ log' = Append(log, e)
        /\ Answer[node] \notin ledger
    BY <1>4, LandingIsLogged DEF FreshInv
  <2>2. e.type = "ARTIFACT_APPLIED" /\ e.nodes = {node}
    BY DEF NodeEv, Ev
  <2> HIDE DEF e
  <2>3. Applied(a)' = Applied(a) \cup {i \in {Len(log) + 1} : e.type = "ARTIFACT_APPLIED"
                                     /\ \E m \in e.nodes : Answer[m] = a}
    BY <2>1, AppliedGrows
  <2>4. CASE a = Answer[node]
    <3>1. Cardinality(Applied(a)) = 0
      BY <1>1, <2>1, <2>4
    <3>2. Applied(a) = {}
      BY <3>1, AppliedIsFinite, FS_EmptySet
    <3>3. Applied(a)' = {Len(log) + 1}
      BY <2>2, <2>3, <2>4, <3>2
    <3> QED
      BY <2>1, <2>4, <3>3, FS_Singleton
  <2>5. CASE a # Answer[node]
    <3>1. Applied(a)' = Applied(a)
      BY <2>2, <2>3, <2>5
    <3> QED
      BY <1>1, <2>1, <2>5, <3>1
  <2> QED
    BY <2>4, <2>5
<1> QED
  BY <1>2, <1>3, <1>4, OneWriter DEF Writes

(***************************************************************************)
(* A diff is in applied_diffs if and only if its ARTIFACT_APPLIED is in    *)
(* the log, once, after any number of crashes and re-runs: the row and the *)
(* event are one transaction, and no answer is landed a second time.       *)
(***************************************************************************)
THEOREM LedgerAlwaysLogged == Spec => []LedgerIsLogged
<1>1. ASSUME Init
      PROVE  LandInv
  <2>1. \A a : Applied(a) = {}
    BY <1>1 DEF Init, Applied
  <2>2. LedgerIsLogged
    BY <1>1, <2>1, FS_EmptySet DEF Init, LedgerIsLogged
  <2> QED
    BY <1>1, <2>2, LoopInit DEF LandInv, FreshInv, Init
<1>2. LandInv /\ [Next]_vars => LandInv'
  BY LoopStep, FreshStep, LedgerStep DEF LandInv
<1>3. LandInv => LedgerIsLogged
  BY DEF LandInv
<1> QED
  BY <1>1, <1>2, <1>3, PTL DEF Spec

-----------------------------------------------------------------------------
(* The blobs and the calls.                                                *)

\* The blobs of the node at hand are stored one by one: its response, then its
\* request.  A blob is written only while it has no row.
PutsInv ==
  /\ pc \in PutPcs =>
       \/ puts = <<Response(node), Request(node)>>
       \/ puts = <<Request(node)>> /\ Response(node) \in artifacts
  /\ pc = "write" => Head(puts) \notin artifacts
  /\ pc = "rename" => Head(puts) \notin artifacts
  /\ pc = "row" => objects[Head(puts)] = "whole"
  /\ pc = "memo" => Fails(node, wave) \/ Response(node) \in artifacts

ContentInv ==
  /\ objects \in [Digest -> {"none", "temp", "whole"}]
  /\ artifacts \subseteq Digest
  /\ calls = [n \in Diff |-> calls[n]]

BlobInv == HandInv /\ ContentInv /\ PutsInv /\ BlobsAreWhole

\* The digests of a node are digests, unlike what stands for no blob.
LEMMA Digests ==
  /\ \A n \in Diff : Response(n) \in Digest /\ Request(n) \in Digest
  /\ <<>> \notin Digest /\ NoBlob \notin Digest
<1>1. \A n \in Diff : Response(n) \in Digest /\ Request(n) \in Digest
  BY DEF Digest, Response, Request
<1>2. <<>> \notin Digest
  BY DEF Digest
<1>3. NoBlob \notin Digest
  BY DEF Digest, NoBlob
<1> QED
  BY <1>1, <1>2, <1>3

\* What the driver is storing is a digest.
LEMMA HeadIsDigest ==
  ASSUME HandInv, PutsInv, pc \in PutPcs
  PROVE  /\ node \in Diff
         /\ Head(puts) \in Digest
         /\ \/ Head(puts) = Response(node) /\ Tail(puts) = <<Request(node)>> /\ Len(puts) = 2
            \/ Head(puts) = Request(node) /\ Response(node) \in artifacts /\ Len(puts) = 1
<1>1. node \in Diff
  BY DEF HandInv, NodePcs
<1>2. CASE puts = <<Response(node), Request(node)>>
  <2>1. Head(puts) = Response(node) /\ Tail(puts) = <<Request(node)>> /\ Len(puts) = 2
    BY <1>2
  <2> QED
    BY <1>1, <2>1, Digests
<1>3. CASE puts = <<Request(node)>> /\ Response(node) \in artifacts
  <2>1. Head(puts) = Request(node) /\ Len(puts) = 1
    BY <1>3
  <2> QED
    BY <1>1, <1>3, <2>1, Digests
<1> QED
  BY <1>2, <1>3 DEF PutsInv

\* The steps that leave the content and the calls alone.
LEMMA ContentKept ==
  ASSUME [Next]_vars, ~Storing, ~PutCall
  PROVE  UNCHANGED <<objects, artifacts, calls>>
<1>1. CASE Starting \/ Doctor \/ Crash \/ UNCHANGED vars
  BY <1>1 DEF Starting, CreateJob, Acquire, Resume, Project, Heartbeat, Record, Doctor, Crash,
              Leave, vars
<1>2. CASE Recovering
  BY <1>2 DEF Recovering, EnterLoop, Unharvest, TakeUp, Adopt, GiveUp, Emit, Log
<1>3. CASE Looping
  BY <1>3 DEF Looping, MarkReady, FanOut, TemplateDone, StartVerify, FinishVerify, Local, Emit,
              Log, NextIteration, FormWave, Harvest, Submit, CompleteWave, JobDone, Blocked, Leave
<1>4. CASE Returning
  BY <1>4 DEF Returning, TakeItem, LinkItem, ItemReturned, ReEnqueue, Emit, Log
<1>5. CASE Judging
  BY <1>5 DEF Judging, RefuseItem, Refused, AcceptItem, AlreadyApplied, RecordIntent, Conflict,
              NeedsHuman, RecordApplied, DiffLands, CountApplied, CountItem, NodeDone, Emit, Log
<1> QED
  BY <1>1, <1>2, <1>3, <1>4, <1>5 DEF Next

\* The steps that go on storing, or on to the memo, from outside.
LEMMA StoringKept ==
  ASSUME HandInv, [Next]_vars, ~Storing, pc' \in PutPcs \cup {"memo"}
  PROVE  \/ UNCHANGED <<pc, puts, node, wave, log, fate>>
         \/ \E n \in Diff : TakeItem(n)
<1> USE DEF PutPcs
<1>1. CASE Starting \/ Doctor \/ Crash \/ UNCHANGED vars
  BY <1>1 DEF Starting, CreateJob, Acquire, Resume, Project, Heartbeat, Record, Doctor, Crash,
              Leave, vars, HandInv
<1>2. CASE Recovering
  BY <1>2 DEF Recovering, EnterLoop, Unharvest, TakeUp, Adopt, GiveUp, Emit, Log
<1>3. CASE Looping
  BY <1>3 DEF Looping, MarkReady, FanOut, TemplateDone, StartVerify, FinishVerify, Local, Emit,
              Log, NextIteration, FormWave, Harvest, Submit, CompleteWave, JobDone, Blocked, Leave
<1>4. CASE Returning
  BY <1>4 DEF Returning, PutCall, LinkItem, ItemReturned, ReEnqueue, Emit, Log
<1>5. CASE Judging
  BY <1>5 DEF Judging, RefuseItem, Refused, AcceptItem, AlreadyApplied, RecordIntent, Conflict,
              NeedsHuman, RecordApplied, DiffLands, CountApplied, CountItem, NodeDone, Emit, Log
<1> QED
  BY <1>1, <1>2, <1>3, <1>4, <1>5 DEF Next

\* No step gives a row to a blob that is not whole, or a cached answer no blob.
LEMMA BlobStep ==
  ASSUME BlobInv, [Next]_vars
  PROVE  ContentInv' /\ PutsInv' /\ BlobsAreWhole'
<1> USE DEF BlobInv
<1>1. CASE PutBlob
  <2>0. pc = "put" /\ UNCHANGED <<objects, artifacts, calls, node, wave, log, fate>>
    BY <1>1 DEF PutBlob, NextBlob
  <2>1. /\ node \in Diff /\ Head(puts) \in Digest
        /\ \/ Head(puts) = Response(node) /\ Tail(puts) = <<Request(node)>> /\ Len(puts) = 2
           \/ Head(puts) = Request(node) /\ Response(node) \in artifacts /\ Len(puts) = 1
    BY <2>0, HeadIsDigest DEF PutPcs
  <2>2. CASE Head(puts) \in artifacts
    <3>1. puts' = Tail(puts) /\ pc' = IF Len(puts) = 1 THEN "memo" ELSE "put"
      BY <1>1, <2>2 DEF PutBlob, NextBlob
    <3>2. PutsInv'
      BY <2>0, <2>1, <2>2, <3>1 DEF PutsInv, PutPcs, Response, Request
    <3> QED
      BY <2>0, <3>2 DEF ContentInv, BlobsAreWhole
  <2>3. CASE Head(puts) \notin artifacts
    <3>1. puts' = puts /\ pc' = IF objects[Head(puts)] \in {"part", "whole"} THEN "row" ELSE "write"
      BY <1>1, <2>3 DEF PutBlob
    <3>2. objects[Head(puts)] # "part"
      BY <2>1 DEF ContentInv
    <3>3. PutsInv'
      BY <2>0, <2>3, <3>1, <3>2 DEF PutsInv, PutPcs, Response, Request
    <3> QED
      BY <2>0, <3>3 DEF ContentInv, BlobsAreWhole
  <2> QED
    BY <2>2, <2>3
<1>2. CASE WriteBlob \/ RenameBlob
  <2>1. /\ UNCHANGED <<artifacts, calls, puts, node>>
        /\ pc \in {"write", "rename"} /\ pc' \in {"rename", "row"}
    BY <1>2 DEF WriteBlob, RenameBlob
  <2>2. Head(puts) \in Digest /\ Head(puts) \notin artifacts
    BY <2>1, HeadIsDigest DEF PutsInv, PutPcs
  <2>3. /\ objects' \in [Digest -> {"none", "temp", "whole"}]
        /\ \A d \in Digest : d # Head(puts) => objects'[d] = objects[d]
        /\ pc' = "row" => objects'[Head(puts)] = "whole"
    <3>1. CASE WriteBlob
      BY <2>2, <3>1 DEF WriteBlob, ContentInv
    <3>2. CASE RenameBlob
      BY <2>2, <3>2 DEF RenameBlob, ContentInv
    <3> QED
      BY <1>2, <3>1, <3>2
  <2>4. ContentInv'
    BY <2>1, <2>3 DEF ContentInv
  <2>5. PutsInv'
    BY <2>1, <2>2, <2>3 DEF PutsInv, PutPcs, Response, Request
  <2>6. BlobsAreWhole'
    BY <2>1, <2>2, <2>3 DEF BlobsAreWhole, ContentInv
  <2> QED
    BY <2>4, <2>5, <2>6
<1>3. CASE ArtifactRow
  <2>0. /\ pc = "row" /\ artifacts' = artifacts \cup {Head(puts)}
        /\ puts' = Tail(puts) /\ pc' = (IF Len(puts) = 1 THEN "memo" ELSE "put")
        /\ UNCHANGED <<objects, calls, node, wave, log, fate>>
    BY <1>3 DEF ArtifactRow, NextBlob
  <2>1. /\ node \in Diff /\ Head(puts) \in Digest
        /\ \/ Head(puts) = Response(node) /\ Tail(puts) = <<Request(node)>> /\ Len(puts) = 2
           \/ Head(puts) = Request(node) /\ Response(node) \in artifacts /\ Len(puts) = 1
    BY <2>0, HeadIsDigest DEF PutPcs
  <2>2. objects[Head(puts)] = "whole"
    BY <2>0 DEF PutsInv
  <2>3. PutsInv'
    BY <2>0, <2>1 DEF PutsInv, PutPcs, Response, Request
  <2>4. ContentInv' /\ BlobsAreWhole'
    BY <2>0, <2>1, <2>2 DEF ContentInv, BlobsAreWhole
  <2> QED
    BY <2>3, <2>4
<1>4. CASE PutCall
  <2>0. /\ pc = "memo" /\ pc' = "link" /\ UNCHANGED <<objects, artifacts>>
        /\ calls' = [calls EXCEPT ![node] =
             IF @ # NoCall THEN @
             ELSE [id |-> wave, ref |-> IF Fails(node, wave) THEN NoBlob ELSE Response(node)]]
    BY <1>4 DEF PutCall
  <2>1. node \in Diff
    BY <2>0 DEF HandInv, NodePcs
  <2>2. PutsInv'
    BY <2>0 DEF PutsInv, PutPcs
  <2>3. ContentInv'
    BY <2>0 DEF ContentInv
  <2>4. \/ calls'[node] = calls[node]
        \/ calls'[node].ref = NoBlob
        \/ calls'[node].ref = Response(node) /\ Response(node) \in artifacts
    BY <2>0, <2>1 DEF ContentInv, PutsInv
  <2>5. \A n \in Diff : n # node => calls'[n] = calls[n]
    BY <2>0, <2>1 DEF ContentInv
  <2>6. BlobsAreWhole'
    BY <2>0, <2>4, <2>5, Digests DEF BlobsAreWhole
  <2> QED
    BY <2>2, <2>3, <2>6
<1>5. CASE ~Storing /\ ~PutCall
  <2>0. UNCHANGED <<objects, artifacts, calls>>
    BY <1>5, ContentKept
  <2>1. ContentInv' /\ BlobsAreWhole'
    BY <2>0 DEF ContentInv, BlobsAreWhole
  <2>2. CASE pc' \notin PutPcs \cup {"memo"}
    BY <2>1, <2>2 DEF PutsInv, PutPcs
  <2>3. CASE UNCHANGED <<pc, puts, node, wave, log, fate>>
    <3>1. Fails(node, wave)' <=> Fails(node, wave)
      BY <2>3 DEF Fails
    <3> QED
      BY <2>0, <2>1, <2>3, <3>1 DEF PutsInv, Response, Request
  <2>4. ASSUME NEW n \in Diff, TakeItem(n)
        PROVE  PutsInv'
    <3>1. node' = n /\ UNCHANGED <<wave, log, fate>>
          /\ puts' = (IF Fails(n, wave) THEN <<>> ELSE <<Response(n), Request(n)>>)
          /\ pc' = (IF Fails(n, wave) THEN "memo" ELSE "put")
      BY <2>4 DEF TakeItem
    <3>2. Fails(node, wave)' <=> Fails(n, wave)
      BY <3>1 DEF Fails
    <3> QED
      BY <3>1, <3>2 DEF PutsInv, PutPcs, Response, Request
  <2> QED
    BY <1>5, <2>1, <2>2, <2>3, <2>4, StoringKept
<1> QED
  BY <1>1, <1>2, <1>3, <1>4, <1>5 DEF Storing

\* Nothing is stored to begin with.
LEMMA BlobInit == Init => BlobInv
<1> SUFFICES ASSUME Init PROVE BlobInv
  OBVIOUS
<1>1. HandInv
  BY LoopInit DEF LoopInv
<1>2. ContentInv
  BY DEF Init, ContentInv
<1>3. PutsInv
  BY DEF Init, PutsInv, PutPcs
<1>4. BlobsAreWhole
  BY Digests DEF Init, BlobsAreWhole, NoCall
<1> QED
  BY <1>1, <1>2, <1>3, <1>4 DEF BlobInv

(***************************************************************************)
(* Every blob with an artifacts row is complete, and every cached answer   *)
(* has its blob, after any number of crashes between the steps of cas.put  *)
(* and memo.put.                                                           *)
(***************************************************************************)
THEOREM BlobsAlwaysWhole == Spec => []BlobsAreWhole
<1>1. BlobInv /\ [Next]_vars => BlobInv'
  BY HandStep, BlobStep DEF BlobInv
<1>2. BlobInv => BlobsAreWhole
  BY DEF BlobInv
<1> QED
  BY <1>1, <1>2, BlobInit, PTL DEF Spec

-----------------------------------------------------------------------------
(* The replay of a history, event by event.                                *)

\* Induction over data, as a least counterexample.
LEMMA Least ==
  ASSUME NEW T \in SUBSET Nat, T # {}
  PROVE  \E x \in T : \A y \in T : x <= y
<1>1. IsWellFoundedOn(OpToRel(<, Nat), Nat)
  BY NatLessThanWellFounded
<1>2. PICK x \in T : \A y \in T : ~(<<y, x>> \in OpToRel(<, Nat))
  BY <1>1, WFMin
<1>3. \A y \in T : ~(y < x)
  BY <1>2 DEF OpToRel
<1> QED
  BY <1>3

\* The tables after each of the first n events of a history.
Course(f, n, h, links) ==
  f = [i \in 0..n |-> IF i = 0 THEN NoTables ELSE Apply(f[i - 1], h[i], links)]

\* There is such a course of tables, of any length.
LEMMA CourseExists ==
  ASSUME NEW h, NEW links, NEW n \in Nat
  PROVE  \E f : Course(f, n, h, links)
<1> DEFINE T == {k \in Nat : ~\E f : Course(f, k, h, links)}
<1> SUFFICES ASSUME T # {} PROVE FALSE
  OBVIOUS
<1>1. PICK k \in T : \A j \in T : k <= j
  BY Least
<1>2. CASE k = 0
  <2>1. Course([i \in 0..0 |-> NoTables], 0, h, links)
    BY DEF Course
  <2> QED
    BY <1>1, <1>2, <2>1
<1>3. CASE k # 0
  <2>1. k - 1 \in Nat /\ k - 1 \notin T
    BY <1>1, <1>3
  <2>2. PICK f : Course(f, k - 1, h, links)
    BY <2>1
  <2> DEFINE g == [i \in 0..k |-> IF i = k THEN Apply(f[k - 1], h[k], links) ELSE f[i]]
  <2>3. \A i \in 0..k : g[i] = IF i = 0 THEN NoTables ELSE Apply(g[i - 1], h[i], links)
    <3> SUFFICES ASSUME NEW i \in 0..k
                 PROVE  g[i] = IF i = 0 THEN NoTables ELSE Apply(g[i - 1], h[i], links)
      OBVIOUS
    <3>1. CASE i = k
      BY <1>1, <1>3, <3>1
    <3>2. CASE i # k
      <4>1. i \in 0..(k - 1)
        BY <1>1, <3>2
      <4>2. f[i] = IF i = 0 THEN NoTables ELSE Apply(f[i - 1], h[i], links)
        BY <2>2, <4>1 DEF Course
      <4>3. g[i] = f[i]
        BY <3>2
      <4>4. i # 0 => g[i - 1] = f[i - 1]
        BY <1>1, <3>2
      <4> QED
        BY <4>2, <4>3, <4>4
    <3> QED
      BY <3>1, <3>2
  <2>4. Course(g, k, h, links)
    BY <2>3 DEF Course
  <2> QED
    BY <1>1, <2>4
<1> QED
  BY <1>2, <1>3

\* Replay is the end of such a course.
LEMMA ReplayCourse ==
  ASSUME NEW S, NEW h \in Seq(S), NEW links
  PROVE  \E f : Course(f, Len(h), h, links) /\ Replay(h, links) = f[Len(h)]
<1> DEFINE after == CHOOSE f : f = [i \in 0..Len(h) |->
                                      IF i = 0 THEN NoTables ELSE Apply(f[i - 1], h[i], links)]
<1>1. Replay(h, links) = after[Len(h)]
  BY DEF Replay
<1>2. \E f : Course(f, Len(h), h, links)
  <2>1. Len(h) \in Nat
    OBVIOUS
  <2> QED
    BY <2>1, CourseExists
<1>3. Course(after, Len(h), h, links)
  BY <1>2 DEF Course
<1> QED
  BY <1>1, <1>3

\* The first j events of two histories do the same to all tables.
Alike(j, h, K, k, L) == \A i \in 1..j : \A t : Apply(t, h[i], K) = Apply(t, k[i], L)

\* Such histories have the same course.
LEMMA CoursesAgree ==
  ASSUME NEW f, NEW h, NEW K, NEW g, NEW k, NEW L, NEW n \in Nat, NEW m \in Nat,
         Course(f, n, h, K), Course(g, m, k, L),
         NEW j \in Nat, j <= n, j <= m, Alike(j, h, K, k, L)
  PROVE  f[j] = g[j]
<1> DEFINE T == {i \in 0..j : f[i] # g[i]}
<1> SUFFICES ASSUME T # {} PROVE FALSE
  OBVIOUS
<1>1. PICK i \in T : \A b \in T : i <= b
  <2>1. T \in SUBSET Nat
    OBVIOUS
  <2> QED
    BY <2>1, Least
<1>2. /\ f[i] = IF i = 0 THEN NoTables ELSE Apply(f[i - 1], h[i], K)
      /\ g[i] = IF i = 0 THEN NoTables ELSE Apply(g[i - 1], k[i], L)
  <2>1. i \in 0..n /\ i \in 0..m
    BY <1>1
  <2>2. f[i] = IF i = 0 THEN NoTables ELSE Apply(f[i - 1], h[i], K)
    BY <2>1 DEF Course
  <2>3. g[i] = IF i = 0 THEN NoTables ELSE Apply(g[i - 1], k[i], L)
    BY <2>1 DEF Course
  <2> QED
    BY <2>2, <2>3
<1>3. i # 0
  BY <1>1, <1>2
<1>4. i - 1 \notin T /\ i - 1 \in 0..j /\ i \in 1..j
  BY <1>1, <1>3
<1>5. f[i - 1] = g[i - 1]
  BY <1>4
<1>6. Apply(f[i - 1], h[i], K) = Apply(f[i - 1], k[i], L)
  BY <1>4 DEF Alike
<1> QED
  BY <1>1, <1>2, <1>3, <1>5, <1>6

\* An empty history gives empty tables.
LEMMA ReplayEmpty == \A links : Replay(<<>>, links) = NoTables
<1> SUFFICES ASSUME NEW links PROVE Replay(<<>>, links) = NoTables
  OBVIOUS
<1>1. PICK f : Course(f, Len(<<>>), <<>>, links) /\ Replay(<<>>, links) = f[Len(<<>>)]
  <2>1. <<>> \in Seq({})
    OBVIOUS
  <2> QED
    BY <2>1, ReplayCourse
<1>2. Len(<<>>) = 0
  OBVIOUS
<1>3. f[0] = NoTables
  BY <1>1, <1>2 DEF Course
<1> QED
  BY <1>1, <1>2, <1>3

\* A history one event longer gives the tables of the shorter one, and then the event.
LEMMA ReplayAppend ==
  ASSUME NEW S, NEW h \in Seq(S), NEW e \in S, NEW links
  PROVE  Replay(Append(h, e), links) = Apply(Replay(h, links), e, links)
<1> DEFINE k == Append(h, e)
           n == Len(h)
<1>0. k \in Seq(S) /\ n \in Nat /\ Len(k) = n + 1 /\ k[n + 1] = e /\ \A i \in 1..n : k[i] = h[i]
  OBVIOUS
<1> HIDE DEF k
<1>1. PICK f : Course(f, n, h, links) /\ Replay(h, links) = f[n]
  BY ReplayCourse
<1>2. PICK g : Course(g, n + 1, k, links) /\ Replay(k, links) = g[n + 1]
  BY <1>0, ReplayCourse
<1> HIDE DEF n
<1>3. g[n + 1] = Apply(g[n], e, links)
  <2>1. n + 1 \in 0..(n + 1) /\ n + 1 # 0 /\ (n + 1) - 1 = n
    BY <1>0
  <2> QED
    BY <1>0, <1>2, <2>1 DEF Course
<1>4. f[n] = g[n]
  <2>1. n + 1 \in Nat /\ n <= n + 1 /\ n <= n
    BY <1>0
  <2>2. Alike(n, h, links, k, links)
    BY <1>0 DEF Alike
  <2> QED
    BY <1>0, <1>1, <1>2, <2>1, <2>2, CoursesAgree
<1> QED
  BY <1>1, <1>2, <1>3, <1>4 DEF k

\* Histories that do the same to all tables are replayed to the same tables.
LEMMA ReplaySame ==
  ASSUME NEW S, NEW h \in Seq(S), NEW k \in Seq(S), NEW K, NEW L, Len(h) = Len(k),
         Alike(Len(h), h, K, k, L)
  PROVE  Replay(h, K) = Replay(k, L)
<1>1. PICK f : Course(f, Len(h), h, K) /\ Replay(h, K) = f[Len(h)]
  BY ReplayCourse
<1>2. PICK g : Course(g, Len(k), k, L) /\ Replay(k, L) = g[Len(k)]
  BY ReplayCourse
<1>3. Len(h) \in Nat /\ Len(h) <= Len(h) /\ Course(g, Len(h), k, L)
  BY <1>2
<1> QED
  BY <1>1, <1>2, <1>3, CoursesAgree

-----------------------------------------------------------------------------
(* Events and tables.                                                      *)

\* The events that are projected.
Told == {"JOB_CREATED", "PLAN_APPROVED", "JOB_DONE", "NODE_ADDED", "FANOUT_RESOLVED",
         "NODE_READY", "NODE_HARVESTED", "NODE_STATE_CHANGED", "ITEM_RETURNED",
         "CONTRACT_RESULT", "ARTIFACT_APPLIED", "VERIFY_RESULT", "NODE_DONE",
         "NODE_NEEDS_HUMAN", "WAVE_FORMED", "WAVE_SUBMITTED", "WAVE_COMPLETED"}

\* What an event may carry.
Arg == Status \cup {"", "completed", "failed", "passed"}

\* The events of the job: a new state is a status.
Event ==
  {e \in [type : Told \cup Silent, nodes : SUBSET Node, wave : WaveId, arg : Arg] :
     e.type = "NODE_STATE_CHANGED" => e.arg \in Status}

\* What the tables may hold.
Tables ==
  {t \in [job : {"none", "PENDING", "RUNNING", "DONE"}, node : [Node -> Row \cup {NoRow}],
          wave : UNION {[W -> {"FORMED", "SUBMITTED", "COMPLETED"}] : W \in SUBSET WaveId}] : TRUE}

\* Tables are records of three functions.
LEMMA TablesRecord ==
  ASSUME NEW t \in Tables
  PROVE  /\ t = [job |-> t.job, node |-> t.node, wave |-> t.wave]
         /\ t.node \in [Node -> Row \cup {NoRow}]
         /\ t.job \in {"none", "PENDING", "RUNNING", "DONE"}
         /\ DOMAIN t.wave \in SUBSET WaveId
         /\ t.wave \in [DOMAIN t.wave -> {"FORMED", "SUBMITTED", "COMPLETED"}]
BY DEF Tables

\* Tables are the same when all their rows are.
LEMMA SameTables ==
  ASSUME NEW t \in Tables, NEW u \in Tables, t.job = u.job, t.wave = u.wave,
         \A n \in Node : t.node[n] = u.node[n]
  PROVE  t = u
<1>1. t.node = u.node
  BY DEF Tables
<1> QED
  BY <1>1 DEF Tables

\* Rows and their absence are told apart.
LEMMA RowType ==
  /\ NoRow \notin Row
  /\ \A r \in Row : \A s \in Status : [r EXCEPT !.status = s] \in Row
  /\ \A r \in Row : [r EXCEPT !.parent = Template] \in Row
  /\ \A r \in Row : \A w \in WaveId : [r EXCEPT !.wave = w] \in Row
  /\ \A p \in {NoNode, Template} : NewRow(p) \in Row
  /\ NoWave \in WaveId
<1>1. NoWave \in WaveId
  BY DEF NoWave, WaveId
<1>2. "absent" \notin Status /\ "PENDING" \in Status
  BY DEF Status
<1> QED
  BY <1>1, <1>2 DEF Row, NoRow, NewRow

\* A node without a row has no status.
LEMMA AbsentRow ==
  /\ NoRow.status = "absent"
  /\ \A r \in Row : r # NoRow /\ r.status # "absent" /\ r.status \in Status
BY DEF NoRow, Row, Status

\* A row with one field replaced.
LEMMA RowFields ==
  ASSUME NEW r \in Row
  PROVE  /\ \A s : [r EXCEPT !.status = s] = [status |-> s, parent |-> r.parent, wave |-> r.wave]
         /\ \A p : [r EXCEPT !.parent = p] = [status |-> r.status, parent |-> p, wave |-> r.wave]
         /\ \A w : [r EXCEPT !.wave = w] = [status |-> r.status, parent |-> r.parent, wave |-> w]
         /\ r = [status |-> r.status, parent |-> r.parent, wave |-> r.wave]
BY DEF Row

\* SetStatus, SetWave and OnWaveFormed give tables.
LEMMA SetStatusType ==
  ASSUME NEW t \in Tables, NEW S, NEW s \in Status
  PROVE  SetStatus(t, S, s) \in Tables
<1> DEFINE f == [n \in Node |-> IF n \in S /\ t.node[n] # NoRow
                                THEN [t.node[n] EXCEPT !.status = s] ELSE t.node[n]]
<1>1. f \in [Node -> Row \cup {NoRow}]
  BY TablesRecord, RowType
<1>2. SetStatus(t, S, s) = [t EXCEPT !.node = f]
  BY DEF SetStatus
<1> HIDE DEF f
<1> QED
  BY <1>1, <1>2 DEF Tables

\* SetWave gives tables.
LEMMA SetWaveType ==
  ASSUME NEW t \in Tables, NEW w \in WaveId, NEW s \in {"FORMED", "SUBMITTED", "COMPLETED"}
  PROVE  SetWave(t, w, s) \in Tables
<1> DEFINE f == [v \in DOMAIN t.wave \cup {w} |-> IF v = w THEN s ELSE t.wave[v]]
           W == DOMAIN t.wave \cup {w}
<1>1. W \in SUBSET WaveId /\ f \in [W -> {"FORMED", "SUBMITTED", "COMPLETED"}]
  BY TablesRecord
<1>2. SetWave(t, w, s) = [t EXCEPT !.wave = f]
  BY DEF SetWave
<1> HIDE DEF f, W
<1> QED
  BY <1>1, <1>2 DEF Tables

\* OnWaveFormed gives tables.
LEMMA WaveFormedType ==
  ASSUME NEW t \in Tables, NEW e \in Event
  PROVE  OnWaveFormed(t, e) \in Tables
<1> DEFINE row == IF e.wave \in DOMAIN t.wave THEN t ELSE SetWave(t, e.wave, "FORMED")
           f == [n \in Node |-> IF n \in e.nodes /\ t.node[n] # NoRow
                                THEN [t.node[n] EXCEPT !.wave = e.wave] ELSE t.node[n]]
<1>0. e.wave \in WaveId
  BY DEF Event
<1>1. row \in Tables
  BY <1>0, SetWaveType
<1>2. f \in [Node -> Row \cup {NoRow}]
  BY <1>0, TablesRecord, RowType
<1>3. OnWaveFormed(t, e) = [row EXCEPT !.node = f]
  BY DEF OnWaveFormed
<1> HIDE DEF f, row
<1> QED
  BY <1>1, <1>2, <1>3 DEF Tables

\* The status an event gives its nodes, where it gives one.
Given(e) ==
  CASE e.type = "NODE_READY"         -> "READY"
    [] e.type = "NODE_HARVESTED"     -> "HARVESTED"
    [] e.type = "NODE_STATE_CHANGED" -> e.arg
    [] e.type = "ITEM_RETURNED"      -> IF e.arg = "completed" THEN "RETURNED" ELSE "EXPIRED"
    [] e.type = "CONTRACT_RESULT"    -> "NEEDS_HUMAN"
    [] e.type = "ARTIFACT_APPLIED"   -> "APPLIED"
    [] e.type = "VERIFY_RESULT"      -> IF e.arg = "passed" THEN "DONE" ELSE "NEEDS_HUMAN"
    [] e.type = "NODE_DONE"          -> "DONE"
    [] e.type = "NODE_NEEDS_HUMAN"   -> "NEEDS_HUMAN"

\* Events that do nothing but set a status.
StatusTypes ==
  {"NODE_READY", "NODE_HARVESTED", "NODE_STATE_CHANGED", "CONTRACT_RESULT", "ARTIFACT_APPLIED",
   "VERIFY_RESULT", "NODE_DONE", "NODE_NEEDS_HUMAN"}

\* Events that tell the tables nothing: a passed contract, and those of the log only.
Idle(e) == e.type \in Silent \/ (e.type = "CONTRACT_RESULT" /\ e.arg # "failed")

\* What apply does with the events that set the status of their nodes ...
LEMMA ApplyStatus ==
  ASSUME NEW t, NEW e \in Event, NEW L, e.type \in StatusTypes, ~Idle(e)
  PROVE  Apply(t, e, L) = SetStatus(t, e.nodes, Given(e)) /\ Given(e) \in Status
<1>0. e.type = "NODE_STATE_CHANGED" => e.arg \in Status
  BY DEF Event
<1> USE DEF Apply, Given, Silent, Status
<1>1. CASE e.type = "NODE_READY"
  BY <1>1
<1>2. CASE e.type = "NODE_HARVESTED"
  BY <1>2
<1>3. CASE e.type = "NODE_STATE_CHANGED"
  BY <1>0, <1>3
<1>4. CASE e.type = "CONTRACT_RESULT"
  BY <1>4 DEF Idle, OnContractResult
<1>5. CASE e.type = "ARTIFACT_APPLIED"
  BY <1>5
<1>6. CASE e.type = "VERIFY_RESULT"
  BY <1>6 DEF OnVerifyResult
<1>7. CASE e.type \in {"NODE_DONE", "NODE_NEEDS_HUMAN"}
  BY <1>7
<1> QED
  BY <1>1, <1>2, <1>3, <1>4, <1>5, <1>6, <1>7 DEF StatusTypes

\* ... of the nodes found through call_items ...
LEMMA ApplyReturned ==
  ASSUME NEW t, NEW e \in Event, NEW L, e.type = "ITEM_RETURNED"
  PROVE  /\ Apply(t, e, L) = SetStatus(t, {n \in e.nodes : <<e.wave, n>> \in L}, Given(e))
         /\ Given(e) \in Status
BY DEF Apply, Given, OnItemReturned, Status, Silent

\* ... of none ...
LEMMA ApplyIdle ==
  ASSUME NEW t, NEW e, NEW L, Idle(e)
  PROVE  Apply(t, e, L) = t
BY DEF Apply, Idle, Silent, OnContractResult

\* ... and with the others, one handler each.
LEMMA ApplyOther ==
  ASSUME NEW t, NEW e, NEW L
  PROVE  /\ e.type = "JOB_CREATED" => Apply(t, e, L) = OnJobCreated(t)
         /\ e.type = "PLAN_APPROVED" => Apply(t, e, L) = SetJob(t, "RUNNING")
         /\ e.type = "JOB_DONE" => Apply(t, e, L) = SetJob(t, "DONE")
         /\ e.type = "NODE_ADDED" => Apply(t, e, L) = OnNodeAdded(t, e)
         /\ e.type = "FANOUT_RESOLVED" => Apply(t, e, L) = OnFanoutResolved(t, e)
         /\ e.type = "WAVE_FORMED" => Apply(t, e, L) = OnWaveFormed(t, e)
         /\ e.type = "WAVE_SUBMITTED" => Apply(t, e, L) = OnWaveSubmitted(t, e)
         /\ e.type = "WAVE_COMPLETED" => Apply(t, e, L) = OnWaveCompleted(t, e)
BY DEF Apply, Silent

\* An event that tells the tables something is of one of these types.
LEMMA EventCases ==
  ASSUME NEW e \in Event, ~Idle(e)
  PROVE  e.type \in StatusTypes \cup {"ITEM_RETURNED", "JOB_CREATED", "PLAN_APPROVED", "JOB_DONE",
           "NODE_ADDED", "FANOUT_RESOLVED", "WAVE_FORMED", "WAVE_SUBMITTED", "WAVE_COMPLETED"}
BY DEF Event, Told, Idle, StatusTypes

\* The handlers of the job, of new nodes and of a fan-out give tables.
LEMMA JobType ==
  ASSUME NEW t \in Tables, NEW s \in {"PENDING", "RUNNING", "DONE"}
  PROVE  OnJobCreated(t) \in Tables /\ SetJob(t, s) \in Tables
BY DEF OnJobCreated, SetJob, Tables

\* OnNodeAdded gives tables.
LEMMA NodeAddedType ==
  ASSUME NEW t \in Tables, NEW e
  PROVE  OnNodeAdded(t, e) \in Tables
<1> DEFINE f == [n \in Node |-> IF n \in e.nodes /\ t.node[n] = NoRow THEN NewRow(NoNode)
                                ELSE t.node[n]]
<1>1. f \in [Node -> Row \cup {NoRow}]
  BY TablesRecord, RowType
<1>2. OnNodeAdded(t, e) = [t EXCEPT !.node = f]
  BY DEF OnNodeAdded
<1> HIDE DEF f
<1> QED
  BY <1>1, <1>2 DEF Tables

\* OnFanoutResolved gives tables.
LEMMA FanoutType ==
  ASSUME NEW t \in Tables, NEW e
  PROVE  OnFanoutResolved(t, e) \in Tables
<1> DEFINE f == [n \in Node |->
     IF n \notin e.nodes THEN t.node[n]
     ELSE IF t.node[n] = NoRow THEN NewRow(Template)
     ELSE [t.node[n] EXCEPT !.parent = Template]]
<1>1. f \in [Node -> Row \cup {NoRow}]
  BY TablesRecord, RowType
<1>2. OnFanoutResolved(t, e) = [t EXCEPT !.node = f]
  BY DEF OnFanoutResolved
<1> HIDE DEF f
<1> QED
  BY <1>1, <1>2 DEF Tables

\* An event keeps the tables tables.
LEMMA ApplyType ==
  ASSUME NEW t \in Tables, NEW e \in Event, NEW L
  PROVE  Apply(t, e, L) \in Tables
<1>1. CASE Idle(e)
  BY <1>1, ApplyIdle
<1>2. CASE ~Idle(e) /\ e.type \in StatusTypes
  BY <1>2, ApplyStatus, SetStatusType
<1>3. CASE e.type = "ITEM_RETURNED"
  <2>1. \E S : Apply(t, e, L) = SetStatus(t, S, Given(e))
    BY <1>3, ApplyReturned
  <2> QED
    BY <1>3, <2>1, ApplyReturned, SetStatusType
<1>4. CASE e.type \in {"JOB_CREATED", "PLAN_APPROVED", "JOB_DONE"}
  BY <1>4, ApplyOther, JobType
<1>5. CASE e.type \in {"NODE_ADDED", "FANOUT_RESOLVED"}
  BY <1>5, ApplyOther, NodeAddedType, FanoutType
<1>6. CASE e.type = "WAVE_FORMED"
  BY <1>6, ApplyOther, WaveFormedType
<1>7. e.wave \in WaveId /\ "SUBMITTED" \in Status
  BY DEF Event, Status
<1>8. CASE e.type = "WAVE_SUBMITTED"
  BY <1>7, <1>8, ApplyOther, WaveFormedType, SetStatusType, SetWaveType DEF OnWaveSubmitted
<1>9. CASE e.type = "WAVE_COMPLETED"
  BY <1>7, <1>9, ApplyOther, SetWaveType DEF OnWaveCompleted
<1> QED
  BY <1>1, <1>2, <1>3, <1>4, <1>5, <1>6, <1>8, <1>9, EventCases

\* An event that has been projected may be projected again.
LEMMA SetStatusTwice ==
  ASSUME NEW t \in Tables, NEW S, NEW s \in Status
  PROVE  SetStatus(SetStatus(t, S, s), S, s) = SetStatus(t, S, s)
<1> DEFINE u == SetStatus(t, S, s)
<1>1. u \in Tables
  BY SetStatusType
<1>2. \A n \in Node : u.node[n] = IF n \in S /\ t.node[n] # NoRow
                                  THEN [t.node[n] EXCEPT !.status = s] ELSE t.node[n]
  BY DEF SetStatus, Tables
<1>3. SetStatus(u, S, s) \in Tables
  BY <1>1, SetStatusType
<1>4. /\ \A n \in Node : SetStatus(u, S, s).node[n] =
           IF n \in S /\ u.node[n] # NoRow THEN [u.node[n] EXCEPT !.status = s] ELSE u.node[n]
      /\ SetStatus(u, S, s).job = u.job /\ SetStatus(u, S, s).wave = u.wave
  BY <1>1 DEF SetStatus, Tables
<1> HIDE DEF u
<1>5. \A n \in Node : SetStatus(u, S, s).node[n] = u.node[n]
  <2> SUFFICES ASSUME NEW n \in Node PROVE SetStatus(u, S, s).node[n] = u.node[n]
    OBVIOUS
  <2>1. t.node[n] \in Row \cup {NoRow}
    BY DEF Tables
  <2>2. CASE n \in S /\ t.node[n] # NoRow
    <3>1. u.node[n] = [t.node[n] EXCEPT !.status = s] /\ u.node[n] \in Row
      BY <1>2, <2>1, <2>2, RowType
    <3>2. [u.node[n] EXCEPT !.status = s] = u.node[n]
      BY <2>1, <2>2, <3>1 DEF Row
    <3> QED
      BY <1>4, <2>2, <3>1, <3>2, RowType
  <2>3. CASE ~(n \in S /\ t.node[n] # NoRow)
    BY <1>2, <1>4, <2>3
  <2> QED
    BY <2>2, <2>3
<1>6. SetStatus(u, S, s) = u
  BY <1>1, <1>3, <1>4, <1>5, SameTables
<1> QED
  BY <1>6 DEF u

\* The rows SetStatus and WAVE_FORMED leave.
LEMMA SetStatusIs ==
  ASSUME NEW t \in Tables, NEW S, NEW s \in Status
  PROVE  /\ \A n \in Node : SetStatus(t, S, s).node[n] =
              IF n \in S /\ t.node[n] # NoRow THEN [t.node[n] EXCEPT !.status = s] ELSE t.node[n]
         /\ SetStatus(t, S, s).job = t.job /\ SetStatus(t, S, s).wave = t.wave
BY DEF SetStatus, Tables

\* SetWave, wave by wave.
LEMMA SetWaveIs ==
  ASSUME NEW t \in Tables, NEW w \in WaveId, NEW s
  PROVE  /\ SetWave(t, w, s).node = t.node /\ SetWave(t, w, s).job = t.job
         /\ DOMAIN SetWave(t, w, s).wave = DOMAIN t.wave \cup {w}
         /\ \A v \in DOMAIN t.wave \cup {w} :
              SetWave(t, w, s).wave[v] = IF v = w THEN s ELSE t.wave[v]
BY DEF SetWave, Tables

\* OnWaveFormed, row by row.
LEMMA WaveFormedIs ==
  ASSUME NEW t \in Tables, NEW e \in Event
  PROVE  LET u == OnWaveFormed(t, e)
         IN  /\ u.job = t.job
             /\ \A n \in Node : u.node[n] = IF n \in e.nodes /\ t.node[n] # NoRow
                                            THEN [t.node[n] EXCEPT !.wave = e.wave] ELSE t.node[n]
             /\ DOMAIN u.wave = DOMAIN t.wave \cup {e.wave}
             /\ \A v \in DOMAIN u.wave :
                  u.wave[v] = IF v \in DOMAIN t.wave THEN t.wave[v] ELSE "FORMED"
<1> DEFINE row == IF e.wave \in DOMAIN t.wave THEN t ELSE SetWave(t, e.wave, "FORMED")
           u == OnWaveFormed(t, e)
<1>0. e.wave \in WaveId
  BY DEF Event
<1>1. /\ row \in Tables /\ row.node = t.node /\ row.job = t.job
      /\ DOMAIN row.wave = DOMAIN t.wave \cup {e.wave}
      /\ \A v \in DOMAIN row.wave :
           row.wave[v] = IF v \in DOMAIN t.wave THEN t.wave[v] ELSE "FORMED"
  <2>1. CASE e.wave \in DOMAIN t.wave
    BY <2>1
  <2>2. CASE e.wave \notin DOMAIN t.wave
    BY <1>0, <2>2, SetWaveIs, SetWaveType
  <2> QED
    BY <2>1, <2>2
<1>2. u = [row EXCEPT !.node = [n \in Node |->
              IF n \in e.nodes /\ t.node[n] # NoRow THEN [t.node[n] EXCEPT !.wave = e.wave]
              ELSE t.node[n]]]
  BY DEF OnWaveFormed
<1> HIDE DEF row
<1>3. u.job = row.job /\ u.wave = row.wave
  BY <1>1, <1>2 DEF Tables
<1>4. \A n \in Node : u.node[n] = IF n \in e.nodes /\ t.node[n] # NoRow
                                  THEN [t.node[n] EXCEPT !.wave = e.wave] ELSE t.node[n]
  BY <1>1, <1>2 DEF Tables
<1> QED
  BY <1>1, <1>3, <1>4

\* OnWaveSubmitted, row by row.
LEMMA WaveSubmittedIs ==
  ASSUME NEW t \in Tables, NEW e \in Event
  PROVE  LET u == OnWaveSubmitted(t, e)
         IN  /\ u \in Tables /\ u.job = t.job
             /\ \A n \in Node : u.node[n] =
                  IF n \in e.nodes /\ t.node[n] # NoRow
                  THEN [status |-> "SUBMITTED", parent |-> t.node[n].parent, wave |-> e.wave]
                  ELSE t.node[n]
             /\ DOMAIN u.wave = DOMAIN t.wave \cup {e.wave}
             /\ \A v \in DOMAIN u.wave : u.wave[v] = IF v = e.wave THEN "SUBMITTED" ELSE t.wave[v]
<1> DEFINE f == OnWaveFormed(t, e)
           g == SetStatus(f, e.nodes, "SUBMITTED")
           u == OnWaveSubmitted(t, e)
<1>0. e.wave \in WaveId /\ "SUBMITTED" \in Status
  BY DEF Event, Status
<1>1. f \in Tables /\ g \in Tables
  BY <1>0, WaveFormedType, SetStatusType
<1>2. u = SetWave(g, e.wave, "SUBMITTED")
  BY DEF OnWaveSubmitted
<1>3. /\ f.job = t.job
      /\ \A n \in Node : f.node[n] = IF n \in e.nodes /\ t.node[n] # NoRow
                                     THEN [t.node[n] EXCEPT !.wave = e.wave] ELSE t.node[n]
      /\ DOMAIN f.wave = DOMAIN t.wave \cup {e.wave}
      /\ \A v \in DOMAIN f.wave : f.wave[v] = IF v \in DOMAIN t.wave THEN t.wave[v] ELSE "FORMED"
  BY WaveFormedIs
<1> HIDE DEF f
<1>4. /\ \A n \in Node : g.node[n] = IF n \in e.nodes /\ f.node[n] # NoRow
                                     THEN [f.node[n] EXCEPT !.status = "SUBMITTED"] ELSE f.node[n]
      /\ g.job = f.job /\ g.wave = f.wave
  BY <1>0, <1>1, SetStatusIs
<1> HIDE DEF g
<1>5. /\ u \in Tables /\ u.node = g.node /\ u.job = g.job
      /\ DOMAIN u.wave = DOMAIN g.wave \cup {e.wave}
      /\ \A v \in DOMAIN u.wave : u.wave[v] = IF v = e.wave THEN "SUBMITTED" ELSE g.wave[v]
  BY <1>0, <1>1, <1>2, SetWaveIs, SetWaveType
<1> HIDE DEF u
<1>6. \A n \in Node : u.node[n] =
                  IF n \in e.nodes /\ t.node[n] # NoRow
                  THEN [status |-> "SUBMITTED", parent |-> t.node[n].parent, wave |-> e.wave]
                  ELSE t.node[n]
  <2> SUFFICES ASSUME NEW n \in Node
               PROVE  u.node[n] = IF n \in e.nodes /\ t.node[n] # NoRow
                  THEN [status |-> "SUBMITTED", parent |-> t.node[n].parent, wave |-> e.wave]
                  ELSE t.node[n]
    OBVIOUS
  <2>1. t.node[n] \in Row \cup {NoRow}
    BY DEF Tables
  <2>2. CASE n \in e.nodes /\ t.node[n] # NoRow
    <3>1. f.node[n] = [t.node[n] EXCEPT !.wave = e.wave] /\ f.node[n] # NoRow
      BY <1>0, <1>3, <2>1, <2>2, RowType
    <3>2. g.node[n] = [f.node[n] EXCEPT !.status = "SUBMITTED"]
      BY <1>4, <2>2, <3>1
    <3>3. f.node[n] \in Row /\ t.node[n] \in Row
      BY <1>0, <2>1, <2>2, <3>1, RowType
    <3>4. f.node[n] = [status |-> t.node[n].status, parent |-> t.node[n].parent, wave |-> e.wave]
      BY <3>1, <3>3, RowFields
    <3>5. g.node[n] = [status |-> "SUBMITTED", parent |-> f.node[n].parent, wave |-> f.node[n].wave]
      BY <3>2, <3>3, RowFields
    <3>6. f.node[n].parent = t.node[n].parent /\ f.node[n].wave = e.wave
      BY <3>4
    <3>7. g.node[n] = [status |-> "SUBMITTED", parent |-> t.node[n].parent, wave |-> e.wave]
      BY <3>5, <3>6
    <3> QED
      BY <1>5, <2>2, <3>7
  <2>3. CASE ~(n \in e.nodes /\ t.node[n] # NoRow)
    BY <1>3, <1>4, <1>5, <2>3
  <2> QED
    BY <2>2, <2>3
<1>7. /\ DOMAIN u.wave = DOMAIN t.wave \cup {e.wave}
      /\ \A v \in DOMAIN u.wave : u.wave[v] = IF v = e.wave THEN "SUBMITTED" ELSE t.wave[v]
  BY <1>3, <1>4, <1>5
<1> QED
  BY <1>3, <1>4, <1>5, <1>6, <1>7 DEF u

\* An event that is applied twice does what it does once: Project after a crash or a
\* rebuild that already replayed the event changes nothing.
LEMMA Idempotent ==
  ASSUME NEW t \in Tables, NEW e \in Event, NEW L
  PROVE  Apply(Apply(t, e, L), e, L) = Apply(t, e, L)
<1> DEFINE u == Apply(t, e, L)
<1>0. u \in Tables /\ e.wave \in WaveId
  BY ApplyType DEF Event
<1>1. CASE Idle(e)
  BY <1>1, ApplyIdle
<1>2. CASE ~Idle(e) /\ e.type \in StatusTypes
  BY <1>0, <1>2, ApplyStatus, SetStatusTwice
<1>3. CASE e.type = "ITEM_RETURNED"
  <2> DEFINE S == {n \in e.nodes : <<e.wave, n>> \in L}
  <2>1. Given(e) \in Status /\ \A v \in {t, u} : Apply(v, e, L) = SetStatus(v, S, Given(e))
    BY <1>3, ApplyReturned
  <2> HIDE DEF S
  <2> QED
    BY <2>1, SetStatusTwice
<1>4. CASE e.type \in {"JOB_CREATED", "PLAN_APPROVED", "JOB_DONE"}
  BY <1>4, ApplyOther DEF OnJobCreated, SetJob, Tables
<1>5. CASE e.type = "NODE_ADDED"
  <2> DEFINE v == OnNodeAdded(u, e)
  <2>1. /\ \A n \in Node :
             u.node[n] = IF n \in e.nodes /\ t.node[n] = NoRow THEN NewRow(NoNode) ELSE t.node[n]
        /\ u = OnNodeAdded(t, e)
    BY <1>5, ApplyOther DEF OnNodeAdded, Tables
  <2>2. v \in Tables /\ v = Apply(u, e, L)
    BY <1>0, <1>5, NodeAddedType, ApplyOther
  <2> HIDE DEF u
  <2>3. /\ \A n \in Node :
             v.node[n] = IF n \in e.nodes /\ u.node[n] = NoRow THEN NewRow(NoNode) ELSE u.node[n]
        /\ v.job = u.job /\ v.wave = u.wave
    BY <1>0 DEF OnNodeAdded, Tables
  <2> HIDE DEF v
  <2>4. \A n \in Node : v.node[n] = u.node[n]
    BY <2>1, <2>3, RowType
  <2>5. v = u
    BY <1>0, <2>2, <2>3, <2>4, SameTables
  <2> QED
    BY <2>2, <2>5 DEF u
<1>6. CASE e.type = "FANOUT_RESOLVED"
  <2> DEFINE v == OnFanoutResolved(u, e)
  <2>1. \A n \in Node : u.node[n] =
           IF n \notin e.nodes THEN t.node[n]
           ELSE IF t.node[n] = NoRow THEN NewRow(Template)
           ELSE [t.node[n] EXCEPT !.parent = Template]
    BY <1>6, ApplyOther DEF OnFanoutResolved, Tables
  <2>2. v \in Tables /\ v = Apply(u, e, L)
    BY <1>0, <1>6, FanoutType, ApplyOther
  <2> HIDE DEF u
  <2>3. /\ \A n \in Node : v.node[n] =
             IF n \notin e.nodes THEN u.node[n]
             ELSE IF u.node[n] = NoRow THEN NewRow(Template)
             ELSE [u.node[n] EXCEPT !.parent = Template]
        /\ v.job = u.job /\ v.wave = u.wave
    BY <1>0 DEF OnFanoutResolved, Tables
  <2> HIDE DEF v
  <2>4. ASSUME NEW n \in Node PROVE v.node[n] = u.node[n]
    <3>1. t.node[n] \in Row \cup {NoRow} /\ NewRow(Template) \in Row
      BY RowType DEF Tables
    <3>2. CASE n \in e.nodes
      <4>1. u.node[n] \in Row /\ u.node[n].parent = Template
        <5>1. CASE t.node[n] = NoRow
          <6>1. u.node[n] = NewRow(Template)
            BY <2>1, <3>2, <5>1
          <6> QED
            BY <3>1, <6>1 DEF NewRow
        <5>2. CASE t.node[n] \in Row
          <6>1. u.node[n] = [t.node[n] EXCEPT !.parent = Template]
            BY <2>1, <3>2, <5>2, RowType
          <6> QED
            BY <5>2, <6>1, RowType, RowFields
        <5> QED
          BY <3>1, <5>1, <5>2
      <4>2. v.node[n] = [u.node[n] EXCEPT !.parent = Template]
        BY <2>3, <3>2, <4>1, RowType
      <4> QED
        BY <4>1, <4>2 DEF Row
    <3> QED
      BY <2>3, <3>2
  <2>5. v = u
    BY <1>0, <2>2, <2>3, <2>4, SameTables
  <2> QED
    BY <2>2, <2>5 DEF u
<1>7. CASE e.type = "WAVE_FORMED"
  <2> DEFINE v == OnWaveFormed(u, e)
  <2>1. u = OnWaveFormed(t, e)
    BY <1>7, ApplyOther
  <2>2. /\ \A n \in Node : u.node[n] = IF n \in e.nodes /\ t.node[n] # NoRow
                                       THEN [t.node[n] EXCEPT !.wave = e.wave] ELSE t.node[n]
        /\ DOMAIN u.wave = DOMAIN t.wave \cup {e.wave}
    BY <2>1, WaveFormedIs
  <2>3. v \in Tables /\ v = Apply(u, e, L)
    BY <1>0, <1>7, WaveFormedType, ApplyOther
  <2> HIDE DEF u
  <2>4. /\ v.job = u.job
        /\ \A n \in Node : v.node[n] = IF n \in e.nodes /\ u.node[n] # NoRow
                                       THEN [u.node[n] EXCEPT !.wave = e.wave] ELSE u.node[n]
        /\ DOMAIN v.wave = DOMAIN u.wave \cup {e.wave}
        /\ \A w \in DOMAIN v.wave : v.wave[w] = IF w \in DOMAIN u.wave THEN u.wave[w] ELSE "FORMED"
    BY <1>0, WaveFormedIs
  <2> HIDE DEF v
  <2>5. ASSUME NEW n \in Node PROVE v.node[n] = u.node[n]
    <3>1. t.node[n] \in Row \cup {NoRow}
      BY DEF Tables
    <3>2. CASE n \in e.nodes /\ t.node[n] # NoRow
      <4>1. u.node[n] \in Row /\ u.node[n].wave = e.wave
        <5>1. t.node[n] \in Row /\ u.node[n] = [t.node[n] EXCEPT !.wave = e.wave]
          BY <2>2, <3>1, <3>2
        <5> QED
          BY <1>0, <5>1, RowType, RowFields
      <4>2. v.node[n] = [u.node[n] EXCEPT !.wave = e.wave]
        BY <2>4, <3>2, <4>1, RowType
      <4> QED
        BY <4>1, <4>2 DEF Row
    <3>3. CASE ~(n \in e.nodes /\ t.node[n] # NoRow)
      BY <2>2, <2>4, <3>3
    <3> QED
      BY <3>2, <3>3
  <2>6. DOMAIN v.wave = DOMAIN u.wave /\ \A w \in DOMAIN v.wave : v.wave[w] = u.wave[w]
    BY <2>2, <2>4
  <2>7. v.wave = u.wave
    BY <1>0, <2>3, <2>6 DEF Tables
  <2>8. v = u
    BY <1>0, <2>3, <2>4, <2>5, <2>7, SameTables
  <2> QED
    BY <2>3, <2>8 DEF u
<1>8. CASE e.type = "WAVE_SUBMITTED"
  <2> DEFINE v == OnWaveSubmitted(u, e)
  <2>1. u = OnWaveSubmitted(t, e)
    BY <1>8, ApplyOther
  <2>2. /\ \A n \in Node : u.node[n] =
                  IF n \in e.nodes /\ t.node[n] # NoRow
                  THEN [status |-> "SUBMITTED", parent |-> t.node[n].parent, wave |-> e.wave]
                  ELSE t.node[n]
        /\ DOMAIN u.wave = DOMAIN t.wave \cup {e.wave}
        /\ \A w \in DOMAIN u.wave : u.wave[w] = IF w = e.wave THEN "SUBMITTED" ELSE t.wave[w]
    BY <2>1, WaveSubmittedIs
  <2>3. v = Apply(u, e, L)
    BY <1>0, <1>8, ApplyOther
  <2> HIDE DEF u
  <2>4. /\ v.job = u.job /\ v \in Tables
        /\ \A n \in Node : v.node[n] =
                  IF n \in e.nodes /\ u.node[n] # NoRow
                  THEN [status |-> "SUBMITTED", parent |-> u.node[n].parent, wave |-> e.wave]
                  ELSE u.node[n]
        /\ DOMAIN v.wave = DOMAIN u.wave \cup {e.wave}
        /\ \A w \in DOMAIN v.wave : v.wave[w] = IF w = e.wave THEN "SUBMITTED" ELSE u.wave[w]
    BY <1>0, WaveSubmittedIs
  <2> HIDE DEF v
  <2>5. ASSUME NEW n \in Node PROVE v.node[n] = u.node[n]
    <3>1. CASE n \in e.nodes /\ t.node[n] # NoRow
      <4>1. u.node[n] = [status |-> "SUBMITTED", parent |-> t.node[n].parent, wave |-> e.wave]
        BY <2>2, <3>1
      <4>2. "SUBMITTED" # "absent"
        OBVIOUS
      <4>3. u.node[n] # NoRow /\ u.node[n].parent = t.node[n].parent
        BY <4>1, <4>2 DEF NoRow
      <4>4. v.node[n] = [status |-> "SUBMITTED", parent |-> u.node[n].parent, wave |-> e.wave]
        BY <2>4, <3>1, <4>3
      <4> QED
        BY <4>1, <4>3, <4>4
    <3>2. CASE ~(n \in e.nodes /\ t.node[n] # NoRow)
      BY <2>2, <2>4, <3>2
    <3> QED
      BY <3>1, <3>2
  <2>6. DOMAIN v.wave = DOMAIN u.wave /\ \A w \in DOMAIN v.wave : v.wave[w] = u.wave[w]
    BY <2>2, <2>4
  <2>7. v.wave = u.wave
    BY <1>0, <2>4, <2>6 DEF Tables
  <2>8. v = u
    BY <1>0, <2>4, <2>5, <2>7, SameTables
  <2> QED
    BY <2>3, <2>8 DEF u
<1>9. CASE e.type = "WAVE_COMPLETED"
  <2> DEFINE v == Apply(u, e, L)
  <2>1. CASE e.wave \in DOMAIN t.wave
    <3>1. u = SetWave(t, e.wave, "COMPLETED")
      BY <1>9, <2>1, ApplyOther DEF OnWaveCompleted
    <3>2. e.wave \in DOMAIN u.wave /\ u.wave[e.wave] = "COMPLETED"
      BY <1>0, <2>1, <3>1, SetWaveIs
    <3> HIDE DEF u
    <3>3. v = SetWave(u, e.wave, "COMPLETED")
      BY <1>9, <3>2, ApplyOther DEF OnWaveCompleted
    <3>4. /\ v.node = u.node /\ v.job = u.job /\ v \in Tables
          /\ DOMAIN v.wave = DOMAIN u.wave \cup {e.wave}
          /\ \A w \in DOMAIN u.wave \cup {e.wave} :
               v.wave[w] = IF w = e.wave THEN "COMPLETED" ELSE u.wave[w]
      BY <1>0, <3>3, SetWaveIs, SetWaveType
    <3> HIDE DEF v
    <3>5. v.wave = u.wave
      BY <1>0, <3>2, <3>4 DEF Tables
    <3>6. v = u
      BY <1>0, <3>4, <3>5, SameTables
    <3> QED
      BY <3>6 DEF u, v
  <2>2. CASE e.wave \notin DOMAIN t.wave
    BY <1>9, <2>2, ApplyOther DEF OnWaveCompleted
  <2> QED
    BY <2>1, <2>2
<1> QED
  BY <1>1, <1>2, <1>3, <1>4, <1>5, <1>6, <1>7, <1>8, <1>9, EventCases

-----------------------------------------------------------------------------
(* What the store and the driver hold.                                     *)

\* Empty tables are tables.
LEMMA NoTablesType == NoTables \in Tables
<1>1. [n \in Node |-> NoRow] \in [Node -> Row \cup {NoRow}]
  OBVIOUS
<1>2. /\ [w \in {} |-> "FORMED"] \in [{} -> {"FORMED", "SUBMITTED", "COMPLETED"}]
      /\ {} \in SUBSET WaveId
  OBVIOUS
<1> QED
  BY <1>1, <1>2 DEF NoTables, Tables

\* A replay gives tables.
LEMMA ReplayType ==
  ASSUME NEW h \in Seq(Event), NEW L
  PROVE  Replay(h, L) \in Tables
<1>1. PICK f : Course(f, Len(h), h, L) /\ Replay(h, L) = f[Len(h)]
  BY ReplayCourse
<1> DEFINE T == {i \in 0..Len(h) : f[i] \notin Tables}
<1> SUFFICES ASSUME T # {} PROVE FALSE
  BY <1>1
<1>2. PICK i \in T : \A j \in T : i <= j
  <2>1. T \in SUBSET Nat
    OBVIOUS
  <2> QED
    BY <2>1, Least
<1>3. f[i] = IF i = 0 THEN NoTables ELSE Apply(f[i - 1], h[i], L)
  BY <1>1, <1>2 DEF Course
<1>4. i # 0
  BY <1>2, <1>3, NoTablesType
<1>5. f[i - 1] \in Tables /\ h[i] \in Event
  BY <1>2, <1>4
<1> QED
  BY <1>2, <1>3, <1>4, <1>5, ApplyType

\* What the driver records are events.
LEMMA PlainIs ==
  ASSUME NEW type \in (Told \cup Silent) \ {"NODE_STATE_CHANGED"}
  PROVE  /\ JobEv(type) \in Event /\ JobEv(type).type = type
         /\ \A n \in Node : /\ NodeEv(type, n) \in Event
                            /\ NodeEv(type, n).type = type /\ NodeEv(type, n).nodes = {n}
         /\ \A w \in WaveId : /\ WaveEv(type, w) \in Event /\ WaveEv(type, w).type = type
                              /\ WaveEv(type, w).wave = w /\ WaveEv(type, w).nodes = w.items
<1>1. "" \in Arg /\ NoWave \in WaveId
  BY RowType DEF Arg
<1>2. \A w \in WaveId : w.items \in SUBSET Node
  BY DEF WaveId, Node
<1> QED
  BY <1>1, <1>2 DEF JobEv, NodeEv, WaveEv, Ev, Event

\* What the log, the links, the calls and the driver hold.
TypeInv ==
  /\ log \in Seq(Event)
  /\ items \subseteq WaveId \X Diff
  /\ calls = [n \in Diff |-> calls[n]]
  /\ \A n \in Diff : calls[n].id \in WaveId
  /\ recon \subseteq WaveId
  /\ wave \in WaveId
  /\ todo \subseteq Node

\* Places in which the tables need not be the replay of the log.
Outside == {"create", "down", "resume", "project"}

\* The events of the waves and those that judge a node.
WaveTypes == {"WAVE_FORMED", "WAVE_SUBMITTED", "WAVE_COMPLETED"}
JudgeTypes == {"CONTRACT_RESULT", "VERIFY_RESULT", "NODE_DONE", "NODE_NEEDS_HUMAN"}

\* The steps that record an event of a wave.
WaveWrites == FormWave \/ Submit \/ CompleteWave \/ \E w \in Logged("WAVE_FORMED") : Adopt(w)

\* Who records an event of some types.
Writer(e) ==
  /\ e.type = "ITEM_RETURNED" => /\ pc = "returned"
                                 /\ e.wave = CallId(node) /\ e.nodes = {node}
  /\ e.type \in WaveTypes => WaveWrites
  /\ e.type = "NODE_READY" => MarkReady
  /\ e.type = "NODE_HARVESTED" => Harvest
  /\ e.type = "NODE_STATE_CHANGED" => Unharvest \/ StartVerify \/ ReEnqueue
  /\ e.type \in JudgeTypes /\ ~Idle(e) => \/ e.nodes \cap Diff = {}
                                          \/ e.nodes = {node} /\ pc \in {"refuse", "giveup", "done"}

\* Steps that record an event for Project, and an event that is not projected.
Tells(e) ==
  /\ log' = Append(log, e) /\ e.type \in Told
  /\ UNCHANGED <<tables, items>>
  /\ pc \notin Outside /\ pc' = "project"
  /\ Writer(e)

\* A step that records an event of the log only.
Mentions(e) ==
  /\ log' = Append(log, e) /\ e.type \in Silent
  /\ UNCHANGED <<tables, items>>
  /\ \/ pc \in {"create", "down"} /\ pc' = "resume"
     \/ pc = "apply" /\ pc' = "land"

\* Steps that touch neither log nor tables.
Quiet ==
  /\ UNCHANGED <<log, tables, items>>
  /\ pc' \notin {"create", "resume", "project", "returned"}
  /\ pc \notin Outside \/ pc' = "down"

\* An event of the plan.
PlanTypes == {"JOB_CREATED", "NODE_ADDED", "PLAN_PROPOSED", "PLAN_APPROVED"}

\* A step of create_job.
Plans ==
  /\ pc = "create" /\ UNCHANGED <<pc, tables, items>>
  /\ \E e \in Event : log' = Append(log, e) /\ e.type \in PlanTypes

\* create_job records an event of the plan.
LEMMA PlanStep ==
  ASSUME log \in Seq(Event), CreateJob
  PROVE  Plans
<1>1. Len(log) \in Nat
  OBVIOUS
<1>2. Len(PlanLog) = 6
  BY DEF PlanLog
<1>3. Len(log) + 1 \in 1..6 /\ log' = Append(log, PlanLog[Len(log) + 1])
  BY <1>1, <1>2 DEF CreateJob
<1>4. /\ PlanLog[1] = JobEv("JOB_CREATED")
      /\ PlanLog[2] = NodeEv("NODE_ADDED", Template)
      /\ PlanLog[3] = NodeEv("NODE_ADDED", Check)
      /\ PlanLog[4] = Ev("NODE_ADDED", Planned, NoWave, "")
      /\ PlanLog[5] = JobEv("PLAN_PROPOSED")
      /\ PlanLog[6] = JobEv("PLAN_APPROVED")
  BY DEF PlanLog
<1>5. {"JOB_CREATED", "NODE_ADDED", "PLAN_PROPOSED", "PLAN_APPROVED"}
        \subseteq (Told \cup Silent) \ {"NODE_STATE_CHANGED", "ITEM_RETURNED"}
  BY DEF Told, Silent
<1>6. /\ "" \in Arg /\ NoWave \in WaveId /\ Planned \in SUBSET Node
      /\ Template \in Node /\ Check \in Node
  BY RowType DEF Arg, Node, Diff
<1>7. /\ PlanLog[1] \in Event /\ PlanLog[1].type = "JOB_CREATED"
      /\ PlanLog[2] \in Event /\ PlanLog[2].type = "NODE_ADDED"
      /\ PlanLog[3] \in Event /\ PlanLog[3].type = "NODE_ADDED"
      /\ PlanLog[4] \in Event /\ PlanLog[4].type = "NODE_ADDED"
      /\ PlanLog[5] \in Event /\ PlanLog[5].type = "PLAN_PROPOSED"
      /\ PlanLog[6] \in Event /\ PlanLog[6].type = "PLAN_APPROVED"
  <2>1. /\ JobEv("JOB_CREATED") \in Event /\ JobEv("JOB_CREATED").type = "JOB_CREATED"
        /\ JobEv("PLAN_PROPOSED") \in Event /\ JobEv("PLAN_PROPOSED").type = "PLAN_PROPOSED"
        /\ JobEv("PLAN_APPROVED") \in Event /\ JobEv("PLAN_APPROVED").type = "PLAN_APPROVED"
    BY <1>5, PlainIs
  <2>2. \A n \in Node :
          NodeEv("NODE_ADDED", n) \in Event /\ NodeEv("NODE_ADDED", n).type = "NODE_ADDED"
    BY <1>5, PlainIs
  <2>3. /\ Ev("NODE_ADDED", Planned, NoWave, "") \in Event
        /\ Ev("NODE_ADDED", Planned, NoWave, "").type = "NODE_ADDED"
    BY <1>5, <1>6 DEF Ev, Event
  <2> QED
    BY <1>4, <1>6, <2>1, <2>2, <2>3
<1>8. \A i \in 1..6 : PlanLog[i] \in Event /\ PlanLog[i].type \in PlanTypes
  BY <1>7 DEF PlanTypes
<1> QED
  BY <1>3, <1>8 DEF Plans, CreateJob

\* The waves of the log.
LEMMA LoggedType ==
  ASSUME log \in Seq(Event)
  PROVE  \A type : Logged(type) \subseteq WaveId
BY DEF Logged, Event

\* The number of submits is a number.
LEMMA SubmitsType ==
  ASSUME log \in Seq(Event), NEW S
  PROVE  Submits(S) \in Nat
<1>1. Len(log) \in Nat
  OBVIOUS
<1>2. IsFiniteSet(1..Len(log))
  BY <1>1, FS_Interval
<1>3. {i \in 1..Len(log) : log[i].type = "WAVE_SUBMITTED" /\ log[i].nodes = S}
         \in SUBSET (1..Len(log))
  OBVIOUS
<1> QED
  BY <1>2, <1>3, FS_Subset, FS_CardinalityType DEF Submits

\* _emit records an event for Project.
LEMMA EmitTells ==
  ASSUME NEW e, NEW then, Log(e, then), e.type \in Told, Writer(e), pc \notin Outside
  PROVE  Tells(e)
BY DEF Log, Record, Tells

\* Every step is of one of these kinds.
LEMMA StepKind ==
  ASSUME TypeInv, HandInv, [Next]_vars
  PROVE  \/ \E e \in Event : Tells(e) \/ Mentions(e)
         \/ Plans \/ Quiet \/ Project \/ Resume \/ Doctor \/ LinkItem \/ UNCHANGED vars
<1> USE DEF TypeInv
<1>0. /\ Template \in Node /\ Check \in Node /\ Child \in SUBSET Node /\ Diff \subseteq Node
      /\ NoWave \in WaveId
  BY RowType DEF Node, Diff
<1>1. CASE CreateJob
  BY <1>1, PlanStep
<1>2. CASE Acquire
  <2>1. JobEv("LEASE_ACQUIRED") \in Event /\ JobEv("LEASE_ACQUIRED").type = "LEASE_ACQUIRED"
    BY PlainIs DEF Told, Silent
  <2>2. Mentions(JobEv("LEASE_ACQUIRED"))
    BY <1>2, <2>1 DEF Acquire, Record, Mentions, Silent
  <2> QED
    BY <2>1, <2>2
<1>3. CASE Unharvest
  <2>1. CASE todo = {}
    BY <1>3, <2>1 DEF Unharvest, Quiet, Outside
  <2>2. CASE todo # {}
    <3> DEFINE n == CHOOSE n \in todo : TRUE
               e == Ev("NODE_STATE_CHANGED", {n}, NoWave, "RE_ENQUEUED")
    <3>1. {n} \in SUBSET Node /\ "RE_ENQUEUED" \in Arg \cap Status
      BY <2>2 DEF Arg, Status
    <3>2. e \in Event /\ e.type = "NODE_STATE_CHANGED"
      BY <1>0, <3>1 DEF Ev, Event, Told
    <3>3. Log(e, "unharvest") /\ pc = "unharvest"
      BY <1>3, <2>2 DEF Unharvest, Emit
    <3>4. Writer(e)
      BY <1>3, <3>2 DEF Writer, WaveTypes, JudgeTypes
    <3> HIDE DEF e
    <3> QED
      BY <3>2, <3>3, <3>4, EmitTells DEF Told, Outside
  <2> QED
    BY <2>1, <2>2
<1>4. ASSUME NEW w \in Logged("WAVE_FORMED"), Adopt(w)
      PROVE  \E e \in Event : Tells(e)
  <2> DEFINE e == WaveEv("WAVE_SUBMITTED", w)
  <2>1. e \in Event /\ e.type = "WAVE_SUBMITTED"
    BY LoggedType, PlainIs DEF Told
  <2>2. Log(e, "waves") /\ pc = "waves"
    BY <1>4 DEF Adopt
  <2>3. Writer(e)
    BY <1>4, <2>1 DEF Writer, WaveWrites, WaveTypes, JudgeTypes
  <2> HIDE DEF e
  <2> QED
    BY <2>1, <2>2, <2>3, EmitTells DEF Told, Outside
<1>5. CASE \E w \in Logged("WAVE_FORMED") : TakeUp(w) \/ GiveUp(w)
  BY <1>5 DEF TakeUp, GiveUp, Quiet, Outside
<1>6. CASE EnterLoop \/ NextIteration \/ Blocked \/ Heartbeat \/ Crash
  BY <1>6 DEF EnterLoop, NextIteration, Blocked, Heartbeat, Crash, Leave, Quiet, Outside
<1>7. ASSUME NEW e, NEW then, Emit(e, then), e \in Event, e.type \in Told, Writer(e),
             pc \notin Outside
      PROVE  \E d \in Event : Tells(d)
  BY <1>7, EmitTells DEF Emit
<1>8. CASE MarkReady
  <2>1. PICK n \in Node : Emit(NodeEv("NODE_READY", n), "loop")
    BY <1>8 DEF MarkReady
  <2>2. NodeEv("NODE_READY", n) \in Event /\ NodeEv("NODE_READY", n).type = "NODE_READY"
    BY PlainIs DEF Told
  <2>3. pc = "loop"
    BY <1>8 DEF MarkReady
  <2> QED
    BY <1>7, <1>8, <2>1, <2>2, <2>3 DEF Told, Outside, Writer, WaveTypes, JudgeTypes
<1>9. CASE FanOut
  <2>1. /\ Ev("FANOUT_RESOLVED", Child, NoWave, "") \in Event
        /\ Ev("FANOUT_RESOLVED", Child, NoWave, "").type = "FANOUT_RESOLVED"
    BY <1>0 DEF Ev, Event, Told, Arg
  <2>2. /\ NodeEv("NODE_NEEDS_HUMAN", Template) \in Event
        /\ NodeEv("NODE_NEEDS_HUMAN", Template).type = "NODE_NEEDS_HUMAN"
    BY <1>0, PlainIs DEF Told
  <2>3. pc = "loop"
    BY <1>9 DEF FanOut, Local
  <2>4. \/ Emit(Ev("FANOUT_RESOLVED", Child, NoWave, ""), "fanout")
        \/ Emit(NodeEv("NODE_NEEDS_HUMAN", Template), "loop")
    BY <1>9 DEF FanOut
  <2>5. NodeEv("NODE_NEEDS_HUMAN", Template).nodes \cap Diff = {}
    BY StoreAssumption DEF NodeEv, Ev
  <2>6. /\ Writer(Ev("FANOUT_RESOLVED", Child, NoWave, ""))
        /\ Writer(NodeEv("NODE_NEEDS_HUMAN", Template))
    BY <2>1, <2>2, <2>5 DEF Writer, WaveTypes, JudgeTypes
  <2> QED
    BY <1>7, <2>1, <2>2, <2>3, <2>4, <2>6 DEF Told, Outside
<1>10. CASE TemplateDone
  <2>1. NodeEv("NODE_DONE", Template) \in Event /\ NodeEv("NODE_DONE", Template).type = "NODE_DONE"
    BY <1>0, PlainIs DEF Told
  <2>2. NodeEv("NODE_DONE", Template).nodes \cap Diff = {}
    BY StoreAssumption DEF NodeEv, Ev
  <2>3. Writer(NodeEv("NODE_DONE", Template))
    BY <2>1, <2>2 DEF Writer, WaveTypes, JudgeTypes
  <2> QED
    BY <1>7, <1>10, <2>1, <2>3 DEF TemplateDone, Told, Outside
<1>11. CASE StartVerify
  <2> DEFINE e == Ev("NODE_STATE_CHANGED", {Check}, NoWave, "EXECUTING_LOCAL")
  <2>1. e \in Event /\ e.type = "NODE_STATE_CHANGED"
    BY <1>0 DEF Ev, Event, Told, Arg, Status
  <2>2. Emit(e, "verify") /\ pc = "loop"
    BY <1>11 DEF StartVerify, Local
  <2>3. Writer(e)
    BY <1>11, <2>1 DEF Writer, WaveTypes, JudgeTypes
  <2> HIDE DEF e
  <2> QED
    BY <1>7, <2>1, <2>2, <2>3 DEF Told, Outside
<1>12. CASE FinishVerify
  <2>1. PICK verdict \in {"passed", "failed"} :
          Emit(Ev("VERIFY_RESULT", {Check}, NoWave, verdict), "loop")
    BY <1>12 DEF FinishVerify
  <2> DEFINE e == Ev("VERIFY_RESULT", {Check}, NoWave, verdict)
  <2>2. e \in Event /\ e.type = "VERIFY_RESULT"
    BY <1>0 DEF Ev, Event, Told, Arg
  <2>3. Emit(e, "loop") /\ pc = "verify"
    BY <1>12, <2>1 DEF FinishVerify
  <2>4. e.nodes \cap Diff = {}
    BY StoreAssumption DEF Ev
  <2>5. Writer(e)
    BY <2>2, <2>4 DEF Writer, WaveTypes, JudgeTypes
  <2> HIDE DEF e
  <2> QED
    BY <1>7, <2>2, <2>3, <2>5 DEF Told, Outside
<1>13. CASE FormWave
  <2> DEFINE w == [items |-> todo, ord |-> Submits(todo)]
  <2>1. w \in WaveId
    BY <1>13, SubmitsType DEF FormWave, WaveId
  <2>2. Emit(WaveEv("WAVE_FORMED", w), "harvest") /\ pc = "loop"
    BY <1>13 DEF FormWave
  <2> HIDE DEF w
  <2>3. WaveEv("WAVE_FORMED", w) \in Event /\ WaveEv("WAVE_FORMED", w).type = "WAVE_FORMED"
    BY <2>1, PlainIs DEF Told
  <2>4. Writer(WaveEv("WAVE_FORMED", w))
    BY <1>13, <2>3 DEF Writer, WaveTypes, JudgeTypes, WaveWrites
  <2> QED
    BY <1>7, <2>2, <2>3, <2>4 DEF Told, Outside
<1>14. CASE Harvest
  <2>1. PICK n \in Node : Emit(NodeEv("NODE_HARVESTED", n), "harvest")
    BY <1>14 DEF Harvest
  <2>2. NodeEv("NODE_HARVESTED", n) \in Event /\ NodeEv("NODE_HARVESTED", n).type = "NODE_HARVESTED"
    BY PlainIs DEF Told
  <2>3. pc = "harvest"
    BY <1>14 DEF Harvest
  <2> QED
    BY <1>7, <1>14, <2>1, <2>2, <2>3 DEF Told, Outside, Writer, WaveTypes, JudgeTypes
<1>15. CASE Submit \/ CompleteWave
  <2>1. \A t \in {"WAVE_SUBMITTED", "WAVE_COMPLETED"} :
          WaveEv(t, wave) \in Event /\ WaveEv(t, wave).type = t
    BY PlainIs DEF Told
  <2>2. \A t \in {"WAVE_SUBMITTED", "WAVE_COMPLETED"} : Writer(WaveEv(t, wave))
    BY <1>15, <2>1 DEF Writer, WaveTypes, JudgeTypes, WaveWrites
  <2> QED
    BY <1>7, <1>15, <2>1, <2>2 DEF Submit, CompleteWave, Told, Outside
<1>16. CASE JobDone
  <2>1. JobEv("JOB_DONE") \in Event /\ JobEv("JOB_DONE").type = "JOB_DONE"
    BY PlainIs DEF Told
  <2> QED
    BY <1>7, <1>16, <2>1 DEF JobDone, Told, Outside, Writer, WaveTypes, JudgeTypes
<1>17. CASE Storing \/ (\E n \in Diff : TakeItem(n)) \/ PutCall
  BY <1>17 DEF Storing, PutBlob, WriteBlob, RenameBlob, ArtifactRow, NextBlob, TakeItem, PutCall,
               Quiet, Outside
<1>18. CASE ItemReturned
  <2>1. PICK r \in {"failed", "completed"}, then \in {"requeue", "judge"} :
          Emit(Ev("ITEM_RETURNED", {node}, CallId(node), r), then)
    BY <1>18 DEF ItemReturned
  <2> DEFINE e == Ev("ITEM_RETURNED", {node}, CallId(node), r)
  <2>2. node \in Diff /\ pc = "returned"
    BY <1>18 DEF ItemReturned, HandInv, NodePcs
  <2>3. CallId(node) \in WaveId /\ {node} \in SUBSET Node
    BY <1>0, <2>2 DEF CallId
  <2>4. e \in Event /\ e.type = "ITEM_RETURNED" /\ e.wave = CallId(node) /\ e.nodes = {node}
    BY <2>3 DEF Ev, Event, Told, Arg
  <2>5. Emit(e, then)
    BY <2>1
  <2> HIDE DEF e
  <2>6. Tells(e)
    BY <2>2, <2>4, <2>5
    DEF Tells, Emit, Log, Record, Told, Outside, Writer, WaveTypes, JudgeTypes
  <2> QED
    BY <2>4, <2>6
<1>19. CASE ReEnqueue
  <2> DEFINE e == Ev("NODE_STATE_CHANGED", {node}, NoWave, "RE_ENQUEUED")
  <2>1. pc = "requeue" /\ {node} \in SUBSET Node
    BY <1>0, <1>19 DEF ReEnqueue, HandInv, NodePcs, ItemPcs
  <2>2. e \in Event /\ e.type = "NODE_STATE_CHANGED"
    BY <1>0, <2>1 DEF Ev, Event, Told, Arg, Status
  <2>3. Emit(e, "fetch")
    BY <1>19 DEF ReEnqueue
  <2>4. Writer(e)
    BY <1>19, <2>2 DEF Writer, WaveTypes, JudgeTypes
  <2> HIDE DEF e
  <2> QED
    BY <1>7, <2>1, <2>2, <2>3, <2>4 DEF Told, Outside
<1>20. CASE Refused \/ AcceptItem
  <2>1. PICK r \in {"passed", "failed"}, then \in {"fetch", "apply"} :
          /\ Emit(Ev("CONTRACT_RESULT", {node}, NoWave, r), then)
          /\ r = "failed" => pc = "refuse"
    BY <1>20 DEF Refused, AcceptItem
  <2> DEFINE e == Ev("CONTRACT_RESULT", {node}, NoWave, r)
  <2>2. pc \in {"judge", "refuse"} /\ {node} \in SUBSET Node
    BY <1>0, <1>20 DEF Refused, AcceptItem, HandInv, NodePcs, ItemPcs
  <2>3. e \in Event /\ e.type = "CONTRACT_RESULT"
    BY <1>0, <2>2 DEF Ev, Event, Told, Arg
  <2>4. Emit(e, then)
    BY <2>1
  <2>5. Writer(e)
    BY <2>1, <2>3 DEF Writer, WaveTypes, JudgeTypes, Idle, Silent, Ev
  <2> HIDE DEF e
  <2> QED
    BY <1>7, <2>2, <2>3, <2>4, <2>5 DEF Told, Outside
<1>21. CASE RefuseItem \/ AlreadyApplied \/ Conflict \/ CountApplied
  BY <1>21 DEF RefuseItem, AlreadyApplied, Conflict, CountApplied, CountItem, Quiet, Outside
<1>22. CASE RecordIntent
  <2>1. node \in Node /\ pc = "apply"
    BY <1>0, <1>22 DEF RecordIntent, HandInv, NodePcs, ItemPcs
  <2>2. /\ NodeEv("ARTIFACT_APPLY_INTENT", node) \in Event
        /\ NodeEv("ARTIFACT_APPLY_INTENT", node).type = "ARTIFACT_APPLY_INTENT"
    BY <2>1, PlainIs DEF Told, Silent
  <2>3. Mentions(NodeEv("ARTIFACT_APPLY_INTENT", node))
    BY <1>22, <2>2 DEF RecordIntent, Record, Mentions, Silent
  <2> QED
    BY <2>2, <2>3
<1>23. CASE NeedsHuman \/ NodeDone
  <2>1. PICK t \in {"NODE_NEEDS_HUMAN", "NODE_DONE"} : Emit(NodeEv(t, node), "fetch")
    BY <1>23 DEF NeedsHuman, NodeDone
  <2>2. node \in Node /\ pc \in {"giveup", "done"}
    BY <1>0, <1>23 DEF NeedsHuman, NodeDone, HandInv, NodePcs, ItemPcs
  <2>3. NodeEv(t, node) \in Event /\ NodeEv(t, node).type = t
    BY <2>2, PlainIs DEF Told
  <2>4. Writer(NodeEv(t, node))
    BY <2>2, <2>3 DEF Writer, WaveTypes, JudgeTypes, NodeEv, Ev
  <2> QED
    BY <1>7, <2>1, <2>2, <2>3, <2>4 DEF Told, Outside
<1>24. CASE RecordApplied
  <2>1. node \in Node /\ pc = "land"
    BY <1>0, <1>24 DEF RecordApplied, HandInv, NodePcs
  <2>2. /\ NodeEv("ARTIFACT_APPLIED", node) \in Event
        /\ NodeEv("ARTIFACT_APPLIED", node).type = "ARTIFACT_APPLIED"
    BY <2>1, PlainIs DEF Told
  <2>3. Tells(NodeEv("ARTIFACT_APPLIED", node))
    BY <1>24, <2>1, <2>2
    DEF RecordApplied, DiffLands, Record, Tells, Told, Outside, Writer, WaveTypes, JudgeTypes
  <2> QED
    BY <2>2, <2>3
<1> QED
  BY <1>1, <1>2, <1>3, <1>4, <1>5, <1>6, <1>8, <1>9, <1>10, <1>11, <1>12, <1>13, <1>14, <1>15,
     <1>16, <1>17, <1>18, <1>19, <1>20, <1>21, <1>22, <1>23, <1>24
  DEF Next, Starting, Recovering, Looping, Returning, Judging

\* The first events of a log that grew are those of the log.
LEMMA SubSeqAppend ==
  ASSUME NEW S, NEW s \in Seq(S), NEW e \in S
  PROVE  /\ SubSeq(Append(s, e), 1, Len(s)) = s
         /\ \A i \in 0..Len(s) : SubSeq(Append(s, e), 1, i) = SubSeq(s, 1, i)
         /\ SubSeq(s, 1, Len(s)) = s
         /\ \A i \in 0..Len(s) : SubSeq(s, 1, i) \in Seq(S) /\ Len(SubSeq(s, 1, i)) = i
OBVIOUS

\* A log that is not empty is its last event after the others.
LEMMA LastSplits ==
  ASSUME NEW S, NEW s \in Seq(S), Len(s) >= 1
  PROVE  s = Append(SubSeq(s, 1, Len(s) - 1), s[Len(s)])
OBVIOUS

\* The log stays a sequence of events.
LEMMA LogTypeStep ==
  ASSUME TypeInv, HandInv, [Next]_vars
  PROVE  log' \in Seq(Event)
<1>1. ASSUME NEW e \in Event, log' = Append(log, e)
      PROVE  log' \in Seq(Event)
  BY <1>1 DEF TypeInv
<1>2. CASE UNCHANGED log
  BY <1>2 DEF TypeInv
<1> QED
  BY <1>1, <1>2, StepKind DEF Tells, Mentions, Plans, Quiet, Project, Resume, Doctor, LinkItem, vars

\* Who writes what the driver goes by.
LEMMA RowsKept ==
  ASSUME [Next]_vars
  PROVE  /\ LinkItem \/ UNCHANGED items
         /\ PutCall \/ UNCHANGED calls
         /\ Resume \/ recon' \subseteq recon
<1>1. CASE Starting \/ Doctor \/ Crash \/ UNCHANGED vars
  BY <1>1 DEF Starting, CreateJob, Acquire, Resume, Project, Heartbeat, Record, Doctor, Crash,
              Leave, vars
<1>2. CASE Recovering
  BY <1>2 DEF Recovering, EnterLoop, Unharvest, TakeUp, Adopt, GiveUp, Emit, Log, Record
<1>3. CASE Looping
  BY <1>3 DEF Looping, MarkReady, FanOut, TemplateDone, StartVerify, FinishVerify, Local, Emit,
              Log, Record, NextIteration, FormWave, Harvest, Submit, CompleteWave, JobDone, Blocked,
              Leave
<1>4. CASE Storing
  BY <1>4 DEF Storing, PutBlob, WriteBlob, RenameBlob, ArtifactRow, NextBlob
<1>5. CASE Returning
  BY <1>5 DEF Returning, TakeItem, PutCall, LinkItem, ItemReturned, ReEnqueue, Emit, Log, Record
<1>6. CASE Judging
  BY <1>6 DEF Judging, RefuseItem, Refused, AcceptItem, AlreadyApplied, RecordIntent, Conflict,
              NeedsHuman, RecordApplied, DiffLands, CountApplied, CountItem, NodeDone, Emit, Log,
              Record
<1> QED
  BY <1>1, <1>2, <1>3, <1>4, <1>5, <1>6 DEF Next

\* Who changes the wave at hand, and the fates.
LEMMA WaveKept ==
  ASSUME [Next]_vars
  PROVE  \/ wave' \in {wave, NoWave} /\ fate' = fate
         \/ (\E w \in Logged("WAVE_FORMED") : TakeUp(w)) \/ FormWave
<1>1. CASE Starting \/ Doctor \/ Crash \/ UNCHANGED vars
  BY <1>1 DEF Starting, CreateJob, Acquire, Resume, Project, Heartbeat, Record, Doctor, Crash,
              Leave, vars
<1>2. CASE Recovering
  BY <1>2 DEF Recovering, EnterLoop, Unharvest, TakeUp, Adopt, GiveUp, Emit, Log, Record
<1>3. CASE Looping
  BY <1>3 DEF Looping, MarkReady, FanOut, TemplateDone, StartVerify, FinishVerify, Local, Emit,
              Log, Record, NextIteration, FormWave, Harvest, Submit, CompleteWave, JobDone, Blocked,
              Leave
<1>4. CASE Storing
  BY <1>4 DEF Storing, PutBlob, WriteBlob, RenameBlob, ArtifactRow, NextBlob
<1>5. CASE Returning
  BY <1>5 DEF Returning, TakeItem, PutCall, LinkItem, ItemReturned, ReEnqueue, Emit, Log, Record
<1>6. CASE Judging
  BY <1>6 DEF Judging, RefuseItem, Refused, AcceptItem, AlreadyApplied, RecordIntent, Conflict,
              NeedsHuman, RecordApplied, DiffLands, CountApplied, CountItem, NodeDone, Emit, Log,
              Record
<1> QED
  BY <1>1, <1>2, <1>3, <1>4, <1>5, <1>6 DEF Next

\* Who adds to what is to do.
LEMMA TodoKept ==
  ASSUME [Next]_vars
  PROVE  \/ todo' \subseteq todo
         \/ Heartbeat
         \/ \E w \in Logged("WAVE_FORMED") : GiveUp(w) /\ todo' \subseteq w.items
<1>1. CASE Starting \/ Doctor \/ Crash \/ UNCHANGED vars
  BY <1>1 DEF Starting, CreateJob, Acquire, Resume, Project, Heartbeat, Record, Doctor, Crash,
              Leave, vars
<1>2. CASE Recovering
  BY <1>2 DEF Recovering, EnterLoop, Unharvest, TakeUp, Adopt, GiveUp, Emit, Log, Record
<1>3. CASE Looping
  BY <1>3 DEF Looping, MarkReady, FanOut, TemplateDone, StartVerify, FinishVerify, Local, Emit,
              Log, Record, NextIteration, FormWave, Harvest, Submit, CompleteWave, JobDone, Blocked,
              Leave
<1>4. CASE Storing
  BY <1>4 DEF Storing, PutBlob, WriteBlob, RenameBlob, ArtifactRow, NextBlob
<1>5. CASE Returning
  BY <1>5 DEF Returning, TakeItem, PutCall, LinkItem, ItemReturned, ReEnqueue, Emit, Log, Record
<1>6. CASE Judging
  BY <1>6 DEF Judging, RefuseItem, Refused, AcceptItem, AlreadyApplied, RecordIntent, Conflict,
              NeedsHuman, RecordApplied, DiffLands, CountApplied, CountItem, NodeDone, Emit, Log,
              Record
<1> QED
  BY <1>1, <1>2, <1>3, <1>4, <1>5, <1>6 DEF Next

\* The wave at hand stays a wave, and what is to do a set of nodes.
LEMMA HandTypeStep ==
  ASSUME TypeInv, [Next]_vars
  PROVE  wave' \in WaveId /\ todo' \subseteq Node
<1> USE DEF TypeInv
<1>0. NoWave \in WaveId /\ Logged("WAVE_FORMED") \subseteq WaveId
  BY RowType, LoggedType
<1>1. wave' \in WaveId
  <2>1. CASE FormWave
    BY <2>1, SubmitsType DEF FormWave, WaveId
  <2>2. ASSUME NEW w \in Logged("WAVE_FORMED"), TakeUp(w)
        PROVE  wave' \in WaveId
    BY <1>0, <2>2 DEF TakeUp
  <2> QED
    BY <1>0, <2>1, <2>2, WaveKept
<1>2. todo' \subseteq Node
  <2>0. \A w \in WaveId : w.items \subseteq Node
    BY DEF WaveId, Node
  <2>1. CASE Heartbeat
    BY <2>0, <2>1 DEF Heartbeat, Leave, Frontier
  <2> QED
    BY <1>0, <2>0, <2>1, TodoKept
<1> QED
  BY <1>1, <1>2

\* Every step keeps the types.
LEMMA TypeStep ==
  ASSUME TypeInv, HandInv, [Next]_vars
  PROVE  TypeInv'
<1>0. log' \in Seq(Event)
  BY LogTypeStep
<1> USE DEF TypeInv
<1>1. items' \subseteq WaveId \X Diff
  <2>1. CASE LinkItem
    <3>1. node \in Diff
      BY <2>1 DEF LinkItem, HandInv, NodePcs
    <3>2. CallId(node) \in WaveId
      BY <3>1 DEF CallId
    <3>3. items' = items \cup {<<CallId(node), node>>}
      BY <2>1 DEF LinkItem
    <3> QED
      BY <3>1, <3>2, <3>3
  <2> QED
    BY <2>1, RowsKept
<1>2. calls' = [n \in Diff |-> calls'[n]] /\ \A n \in Diff : calls'[n].id \in WaveId
  <2>1. CASE PutCall
    <3>1. calls' = [calls EXCEPT ![node] =
             IF @ # NoCall THEN @
             ELSE [id |-> wave, ref |-> IF Fails(node, wave) THEN NoBlob ELSE Response(node)]]
      BY <2>1 DEF PutCall
    <3>2. \A n \in Diff : \/ calls'[n] = calls[n]
                          \/ calls'[n] = [id |-> wave,
                                          ref |-> IF Fails(node, wave) THEN NoBlob
                                                  ELSE Response(node)]
      BY <3>1
    <3> QED
      BY <3>1, <3>2
  <2> QED
    BY <2>1, RowsKept
<1>3. recon' \subseteq WaveId
  <2>1. CASE Resume
    BY <2>1, LoggedType DEF Resume, Unsubmitted
  <2> QED
    BY <2>1, RowsKept
<1>4. wave' \in WaveId /\ todo' \subseteq Node
  BY HandTypeStep
<1> QED
  BY <1>0, <1>1, <1>2, <1>3, <1>4

-----------------------------------------------------------------------------
(* The tables and the log.                                                 *)

\* The call_items row of an item is there before the item is said to be back.
LinkedInv ==
  /\ \A i \in 1..Len(log) : log[i].type = "ITEM_RETURNED" =>
       \A n \in log[i].nodes : <<log[i].wave, n>> \in items
  /\ pc = "returned" => <<CallId(node), node>> \in items

\* Project has an event to project, and create_job projects none.
ProjectInv ==
  /\ pc = "project" => Len(log) >= 1 /\ log[Len(log)].type \notin Silent
  /\ pc = "create" => tables = NoTables

\* The call_items row of the item at hand stays until its event is recorded.
LEMMA ReturnedKept ==
  ASSUME HandInv, [Next]_vars, pc' = "returned"
  PROVE  LinkItem \/ UNCHANGED <<pc, node, wave, log, fate, calls, items>>
<1> USE DEF HandInv
<1>1. CASE Starting \/ Doctor \/ Crash \/ UNCHANGED vars
  BY <1>1 DEF Starting, CreateJob, Acquire, Resume, Project, Heartbeat, Record, Doctor, Crash,
              Leave, vars
<1>2. CASE Recovering
  BY <1>2 DEF Recovering, EnterLoop, Unharvest, TakeUp, Adopt, GiveUp, Emit, Log, Record
<1>3. CASE Looping
  BY <1>3 DEF Looping, MarkReady, FanOut, TemplateDone, StartVerify, FinishVerify, Local, Emit,
              Log, Record, NextIteration, FormWave, Harvest, Submit, CompleteWave, JobDone, Blocked,
              Leave
<1>4. CASE Storing
  BY <1>4 DEF Storing, PutBlob, WriteBlob, RenameBlob, ArtifactRow, NextBlob
<1>5. CASE Returning
  BY <1>5 DEF Returning, TakeItem, PutCall, LinkItem, ItemReturned, ReEnqueue, Emit, Log, Record
<1>6. CASE Judging
  BY <1>6 DEF Judging, RefuseItem, Refused, AcceptItem, AlreadyApplied, RecordIntent, Conflict,
              NeedsHuman, RecordApplied, DiffLands, CountApplied, CountItem, NodeDone, Emit, Log,
              Record
<1> QED
  BY <1>1, <1>2, <1>3, <1>4, <1>5, <1>6 DEF Next

\* Every step keeps the rows of the items that are back.
LEMMA LinkedStep ==
  ASSUME TypeInv, HandInv, LinkedInv, [Next]_vars
  PROVE  LinkedInv'
<1>1. items \subseteq items'
  <2>1. CASE LinkItem
    BY <2>1 DEF LinkItem
  <2> QED
    BY <2>1, RowsKept
<1>2. ASSUME pc' = "returned"
      PROVE  <<CallId(node), node>>' \in items'
  <2>1. CASE LinkItem
    BY <2>1 DEF LinkItem, CallId, Fails
  <2>2. CASE UNCHANGED <<pc, node, wave, log, fate, calls, items>>
    BY <1>2, <2>2 DEF LinkedInv, CallId, Fails
  <2> QED
    BY <1>2, <2>1, <2>2, ReturnedKept
<1>3. ASSUME NEW e \in Event, log' = Append(log, e),
             e.type = "ITEM_RETURNED" => \A n \in e.nodes : <<e.wave, n>> \in items
      PROVE  \A i \in 1..Len(log') : log'[i].type = "ITEM_RETURNED" =>
               \A n \in log'[i].nodes : <<log'[i].wave, n>> \in items'
  <2>1. /\ Len(log) \in Nat /\ Len(log') = Len(log) + 1
        /\ log'[Len(log) + 1] = e
        /\ \A i \in 1..Len(log) : log'[i] = log[i]
    BY <1>3 DEF TypeInv
  <2>2. \A i \in 1..Len(log') : i \in 1..Len(log) \/ i = Len(log) + 1
    BY <2>1
  <2> QED
    BY <1>1, <1>3, <2>1, <2>2 DEF LinkedInv
<1>4. CASE UNCHANGED log
  BY <1>1, <1>2, <1>4 DEF LinkedInv
<1>5. ASSUME NEW e \in Event, Tells(e) \/ Mentions(e)
      PROVE  /\ log' = Append(log, e)
             /\ e.type = "ITEM_RETURNED" => \A n \in e.nodes : <<e.wave, n>> \in items
  BY <1>5 DEF Tells, Writer, Mentions, Silent, LinkedInv
<1> QED
  <2>1. CASE \E e \in Event : Tells(e) \/ Mentions(e)
    BY <1>2, <1>3, <1>5, <2>1 DEF LinkedInv
  <2>2. CASE Plans
    BY <1>2, <1>3, <2>2 DEF LinkedInv, Plans, PlanTypes
  <2> QED
    BY <1>4, <2>1, <2>2, StepKind DEF Quiet, Project, Resume, Doctor, LinkItem, vars

\* An event is projected or it is in the log only.
LEMMA ToldIsNotSilent == Told \cap Silent = {}
BY DEF Told, Silent

\* Every step leaves Project an event to project.
LEMMA ProjectStep ==
  ASSUME TypeInv, HandInv, ProjectInv, [Next]_vars
  PROVE  ProjectInv'
<1>1. ASSUME NEW e \in Event, Tells(e)
      PROVE  ProjectInv'
  <2>1. Len(log') >= 1 /\ log'[Len(log')] = e
    BY <1>1 DEF Tells, TypeInv
  <2> QED
    BY <1>1, <2>1, ToldIsNotSilent DEF Tells, ProjectInv, Outside
<1>2. ASSUME NEW e \in Event, Mentions(e)
      PROVE  ProjectInv'
  BY <1>2 DEF Mentions, ProjectInv
<1>3. CASE Project
  BY <1>3 DEF Project, ProjectInv, HandInv
<1>4. CASE Plans \/ Quiet
  BY <1>4 DEF Plans, Quiet, ProjectInv
<1>5. CASE Resume \/ Doctor \/ LinkItem \/ UNCHANGED vars
  BY <1>5 DEF Resume, Doctor, LinkItem, vars, ProjectInv
<1> QED
  BY <1>1, <1>2, <1>3, <1>4, <1>5, StepKind

\* Links that both have the items of an event do the same for it.
LEMMA SameLinks ==
  ASSUME NEW t, NEW e \in Event, NEW K, NEW L,
         e.type = "ITEM_RETURNED" => \A n \in e.nodes : <<e.wave, n>> \in K /\ <<e.wave, n>> \in L
  PROVE  Apply(t, e, K) = Apply(t, e, L)
<1>1. CASE e.type = "ITEM_RETURNED"
  <2>1. {n \in e.nodes : <<e.wave, n>> \in K} = {n \in e.nodes : <<e.wave, n>> \in L}
    BY <1>1
  <2> QED
    BY <1>1, <2>1, ApplyReturned
<1>2. CASE Idle(e)
  BY <1>2, ApplyIdle
<1>3. CASE ~Idle(e) /\ e.type \in StatusTypes
  BY <1>3, ApplyStatus
<1>4. CASE e.type \in {"JOB_CREATED", "PLAN_APPROVED", "JOB_DONE", "NODE_ADDED"}
  BY <1>4, ApplyOther
<1>5. CASE e.type \in {"FANOUT_RESOLVED", "WAVE_FORMED", "WAVE_SUBMITTED", "WAVE_COMPLETED"}
  BY <1>5, ApplyOther
<1> QED
  BY <1>1, <1>2, <1>3, <1>4, <1>5, EventCases

\* A row of call_items more tells the log's returned items nothing new.
LEMMA LinksGrow ==
  ASSUME TypeInv, LinkedInv, NEW L, items \subseteq L
  PROVE  Replay(log, L) = Replay(log, items)
<1> USE DEF TypeInv
<1>1. ASSUME NEW i \in 1..Len(log), NEW t
      PROVE  Apply(t, log[i], items) = Apply(t, log[i], L)
  <2>1. PICK e \in Event : e = log[i]
    OBVIOUS
  <2>2. e.type = "ITEM_RETURNED" =>
          \A n \in e.nodes : <<e.wave, n>> \in items /\ <<e.wave, n>> \in L
    BY <2>1 DEF LinkedInv
  <2> QED
    BY <2>1, <2>2, SameLinks
<1>2. Alike(Len(log), log, items, log, L)
  BY <1>1 DEF Alike
<1> QED
  BY <1>2, ReplaySame

\* The inductive invariant behind TablesAreTheLog.
TablesInv == TypeInv /\ HandInv /\ LinkedInv /\ ProjectInv /\ TablesAreTheLog

\* An event that tells the tables nothing leaves the replay as it is.
LEMMA SilentReplay ==
  ASSUME log \in Seq(Event), NEW e \in Event, log' = Append(log, e), e.type \in Silent, NEW L
  PROVE  Replay(log', L) = Replay(log, L)
<1>1. Replay(log', L) = Apply(Replay(log, L), e, L)
  BY ReplayAppend
<1> QED
  BY <1>1, ApplyIdle DEF Idle

\* The projection of the last event completes the replay, done before or not.
LEMMA ProjectReplays ==
  ASSUME TypeInv, ProjectInv, Project, NEW h, h = SubSeq(log, 1, Len(log) - 1),
         tables = Replay(log, items) \/ tables = Replay(h, items)
  PROVE  tables' = Replay(log, items)
<1> USE DEF TypeInv
<1>1. Len(log) >= 1 /\ tables' = Apply(tables, log[Len(log)], items)
  BY DEF Project, ProjectInv
<1>2. PICK e \in Event : e = log[Len(log)]
  BY <1>1
<1>3. h \in Seq(Event) /\ log = Append(h, e)
  BY <1>1, <1>2, LastSplits, SubSeqAppend
<1>4. Replay(log, items) = Apply(Replay(h, items), e, items)
  BY <1>3, ReplayAppend
<1>5. Replay(h, items) \in Tables
  BY <1>3, ReplayType
<1>6. Apply(Replay(log, items), e, items) = Replay(log, items)
  BY <1>4, <1>5, Idempotent
<1> QED
  BY <1>1, <1>2, <1>4, <1>6

\* Project makes the tables the replay of the log, also when they were already.
LEMMA ProjectCompletes ==
  ASSUME TablesInv, Project
  PROVE  tables' = Replay(log, items)
<1> USE DEF TablesInv
<1>0. Len(log) \in Nat /\ pc = "project"
  BY DEF TypeInv, Project
<1>1. CASE tables = Replay(log, items)
  BY <1>1, ProjectReplays
<1>2. CASE \E i \in 1..Len(log) :
             LastTold(i) /\ tables = Replay(SubSeq(log, 1, i - 1), items)
  <2>1. PICK i \in 1..Len(log) : LastTold(i) /\ tables = Replay(SubSeq(log, 1, i - 1), items)
    BY <1>2
  <2>2. log[Len(log)].type \notin Silent
    BY <1>0 DEF ProjectInv
  <2>3. i = Len(log)
    BY <1>0, <2>1, <2>2 DEF LastTold
  <2> QED
    BY <2>1, <2>3, ProjectReplays
<1> QED
  BY <1>0, <1>1, <1>2 DEF TablesAreTheLog

\* Every step keeps the tables what the log says.
LEMMA TablesStep ==
  ASSUME TablesInv, [Next]_vars
  PROVE  TablesAreTheLog'
<1> USE DEF TablesInv, TypeInv
<1>0. Len(log) \in Nat
  OBVIOUS
<1>1. ASSUME NEW e \in Event, Tells(e)
      PROVE  TablesAreTheLog'
  <2>1. tables = Replay(log, items)
    BY <1>1 DEF Tells, Outside, TablesAreTheLog
  <2>2. Len(log') = Len(log) + 1 /\ SubSeq(log', 1, Len(log)) = log
    BY <1>0, <1>1, SubSeqAppend DEF Tells
  <2>3. PICK k \in 1..Len(log') : k - 1 = Len(log) /\ k = Len(log')
    BY <1>0, <2>2
  <2>4. tables' = Replay(SubSeq(log', 1, k - 1), items')
    BY <1>1, <2>1, <2>2, <2>3 DEF Tells
  <2>5. \A j \in (k + 1)..Len(log') : log'[j].type \in Silent
    BY <1>0, <2>2, <2>3
  <2> QED
    BY <1>1, <2>3, <2>4, <2>5 DEF TablesAreTheLog, LastTold, Tells
<1>2. ASSUME NEW e \in Event, Mentions(e)
      PROVE  TablesAreTheLog'
  <2>0. log' = Append(log, e) /\ e.type \in Silent /\ UNCHANGED <<tables, items>>
    BY <1>2 DEF Mentions
  <2>1. CASE tables = NoTables /\ pc \in {"create", "down", "resume"}
    BY <1>2, <2>1 DEF Mentions, TablesAreTheLog
  <2>2. CASE tables = Replay(log, items)
    <3>1. Replay(log', items) = Replay(log, items)
      BY <2>0, SilentReplay
    <3>2. tables' = Replay(log', items')
      BY <2>0, <2>2, <3>1
    <3> QED
      BY <3>2 DEF TablesAreTheLog
  <2>3. CASE pc \in {"down", "resume", "project"}
             /\ \E i \in 1..Len(log) :
                  LastTold(i) /\ tables = Replay(SubSeq(log, 1, i - 1), items)
    <3>1. PICK i \in 1..Len(log) : LastTold(i) /\ tables = Replay(SubSeq(log, 1, i - 1), items)
      BY <2>3
    <3>2. /\ Len(log') = Len(log) + 1 /\ log'[Len(log) + 1] = e
          /\ \A j \in 1..Len(log) : log'[j] = log[j]
      BY <2>0
    <3>3. \A j \in (i + 1)..Len(log') : log'[j].type \in Silent
      <4> SUFFICES ASSUME NEW j \in (i + 1)..Len(log') PROVE log'[j].type \in Silent
        OBVIOUS
      <4>1. j = Len(log) + 1 \/ (j \in (i + 1)..Len(log) /\ j \in 1..Len(log))
        BY <1>0, <3>2
      <4> QED
        BY <2>0, <3>1, <3>2, <4>1 DEF LastTold
    <3>4. i - 1 \in 0..Len(log)
      BY <1>0
    <3>5. SubSeq(log', 1, i - 1) = SubSeq(log, 1, i - 1)
      BY <2>0, <3>4, SubSeqAppend
    <3>6. pc' = "resume" /\ i \in 1..Len(log')
      BY <1>0, <1>2, <2>3, <3>2 DEF Mentions
    <3> QED
      BY <2>0, <3>1, <3>3, <3>5, <3>6 DEF TablesAreTheLog, LastTold
  <2> QED
    BY <2>1, <2>2, <2>3 DEF TablesAreTheLog
<1>3. CASE Plans
  BY <1>3 DEF Plans, ProjectInv, TablesAreTheLog
<1>4. CASE Quiet
  BY <1>4 DEF Quiet, Outside, TablesAreTheLog, LastTold
<1>5. CASE Project
  <2>1. tables' = Replay(log, items)
    BY <1>5, ProjectCompletes
  <2> QED
    BY <1>5, <2>1 DEF Project, TablesAreTheLog
<1>6. CASE Resume \/ Doctor
  BY <1>6 DEF Resume, Rebuilt, Doctor, TablesAreTheLog
<1>7. CASE LinkItem
  <2>1. UNCHANGED <<log, tables>> /\ items \subseteq items' /\ pc = "link"
    BY <1>7 DEF LinkItem
  <2>2. tables = Replay(log, items)
    BY <2>1 DEF TablesAreTheLog
  <2>3. Replay(log, items') = Replay(log, items)
    BY <2>1, LinksGrow
  <2> QED
    BY <2>1, <2>2, <2>3 DEF TablesAreTheLog
<1>8. CASE UNCHANGED vars
  BY <1>8 DEF vars, TablesAreTheLog, LastTold
<1> QED
  BY <1>1, <1>2, <1>3, <1>4, <1>5, <1>6, <1>7, <1>8, StepKind

\* The types hold at the start.
LEMMA TypeInit == Init => TypeInv
<1> SUFFICES ASSUME Init PROVE TypeInv
  OBVIOUS
<1>1. NoWave \in WaveId
  BY RowType
<1>2. calls = [n \in Diff |-> NoCall] /\ NoCall.id = NoWave
  BY DEF Init, NoCall
<1>3. log \in Seq(Event) /\ items = {} /\ recon = {} /\ wave = NoWave /\ todo = {}
  BY DEF Init
<1> QED
  BY <1>1, <1>2, <1>3 DEF TypeInv

\* The tables of a new job are empty.
LEMMA TablesInvInit == Init => TablesInv
<1> SUFFICES ASSUME Init PROVE TablesInv
  OBVIOUS
<1>1. TypeInv /\ HandInv
  BY TypeInit, LoopInit DEF LoopInv
<1>2. LinkedInv /\ ProjectInv /\ TablesAreTheLog
  BY DEF Init, LinkedInv, ProjectInv, TablesAreTheLog
<1> QED
  BY <1>1, <1>2 DEF TablesInv

\* Every step keeps the invariant of the tables.
LEMMA TablesInvStep == TablesInv /\ [Next]_vars => TablesInv'
  BY TypeStep, HandStep, LinkedStep, ProjectStep, TablesStep DEF TablesInv

\* After every step the tables are the replay of the log, or they miss the one event
\* that a crash kept from its projection (projections.apply, rebuild).
THEOREM TablesAlwaysTheLog == Spec => []TablesAreTheLog
<1>1. TablesInv => TablesAreTheLog
  BY DEF TablesInv
<1> QED
  BY <1>1, TablesInvInit, TablesInvStep, PTL DEF Spec

-----------------------------------------------------------------------------
(* The waves of the log: one is in flight at a time.                       *)

\* Where the driver is, or will be once the event at hand is projected.
At == IF pc = "project" THEN next ELSE pc

\* Places with a wave in flight, places of the loop, and places without a wave in flight.
BusyPcs == NodePcs \cup {"poll", "fetch"}
LoopPcs == {"top", "loop", "final", "fanout", "verify", "harvest"}
FreePcs == LoopPcs \cup {"unharvest"}

\* One wave at most is in flight: the one at hand, and none while the next is formed.
FlightInv ==
  /\ \A v, w \in InFlight : v = w
  /\ At \in BusyPcs => InFlight = {wave}
  /\ At \in FreePcs => InFlight = {}
  /\ At \in LoopPcs => recon = {}

\* A wave is formed, submitted and completed in this order; its ordinal is not above the
\* number of submits of its items, so a new wave is not one that was submitted.
OrdInv ==
  /\ \A i \in 1..Len(log) : log[i].type \in WaveTypes => log[i].nodes = log[i].wave.items
  /\ \A w \in Logged("WAVE_FORMED") : w.ord <= Submits(w.items)
  /\ \A w \in Logged("WAVE_SUBMITTED") : w.ord < Submits(w.items)
  /\ Logged("WAVE_SUBMITTED") \subseteq Logged("WAVE_FORMED")
  /\ Logged("WAVE_COMPLETED") \subseteq Logged("WAVE_SUBMITTED")
  /\ recon \subseteq Logged("WAVE_FORMED") \ Logged("WAVE_SUBMITTED")
  /\ At = "harvest" => wave \in Logged("WAVE_FORMED") \ Logged("WAVE_SUBMITTED")

\* What an event adds to the waves of the log, and to the submits.
LEMMA LoggedGrows ==
  ASSUME log \in Seq(Event), NEW e \in Event, log' = Append(log, e)
  PROVE  \A type : Logged(type)' = Logged(type) \cup (IF e.type = type THEN {e.wave} ELSE {})
<1>1. /\ Len(log) \in Nat /\ Len(log') = Len(log) + 1
      /\ log'[Len(log) + 1] = e
      /\ \A i \in 1..Len(log) : log'[i] = log[i]
  OBVIOUS
<1>2. 1..Len(log') = (1..Len(log)) \cup {Len(log) + 1}
  BY <1>1
<1> SUFFICES ASSUME NEW type
             PROVE  Logged(type)' = Logged(type) \cup (IF e.type = type THEN {e.wave} ELSE {})
  OBVIOUS
<1>3. Logged(type)' = {log'[i].wave : i \in {j \in 1..Len(log') : log'[j].type = type}}
  BY DEF Logged
<1> QED
  BY <1>1, <1>2, <1>3 DEF Logged

\* A submit of the same items is one submit more.
LEMMA SubmitsGrow ==
  ASSUME log \in Seq(Event), NEW e \in Event, log' = Append(log, e), NEW S
  PROVE  /\ Submits(S) \in Nat
         /\ Submits(S)' = Submits(S) + IF e.type = "WAVE_SUBMITTED" /\ e.nodes = S THEN 1 ELSE 0
<1> DEFINE I == {i \in 1..Len(log) : log[i].type = "WAVE_SUBMITTED" /\ log[i].nodes = S}
           J == {i \in 1..Len(log') : log'[i].type = "WAVE_SUBMITTED" /\ log'[i].nodes = S}
<1>1. /\ Len(log) \in Nat /\ Len(log') = Len(log) + 1
      /\ log'[Len(log) + 1] = e
      /\ \A i \in 1..Len(log) : log'[i] = log[i]
  OBVIOUS
<1>2. 1..Len(log') = (1..Len(log)) \cup {Len(log) + 1}
  BY <1>1
<1>3. J = I \cup (IF e.type = "WAVE_SUBMITTED" /\ e.nodes = S THEN {Len(log) + 1} ELSE {})
  BY <1>1, <1>2
<1>4. Len(log) + 1 \notin I
  BY <1>1
<1>5. IsFiniteSet(1..Len(log)) /\ I \in SUBSET (1..Len(log))
  BY <1>1, FS_Interval
<1>6. IsFiniteSet(I)
  BY <1>5, FS_Subset
<1>7. Submits(S) = Cardinality(I) /\ Submits(S)' = Cardinality(J)
  BY DEF Submits
<1> HIDE DEF I, J
<1>8. Cardinality(I) \in Nat
  BY <1>6, FS_CardinalityType
<1>9. Cardinality(I \cup {Len(log) + 1}) = Cardinality(I) + 1
  BY <1>4, <1>6, FS_AddElement
<1>10. CASE e.type = "WAVE_SUBMITTED" /\ e.nodes = S
  BY <1>3, <1>7, <1>8, <1>9, <1>10
<1>11. CASE ~(e.type = "WAVE_SUBMITTED" /\ e.nodes = S)
  <2>1. J = I
    BY <1>3, <1>11
  <2> QED
    BY <1>7, <1>8, <1>11, <2>1
<1> QED
  BY <1>10, <1>11

\* A step beside the course of the waves leaves them as they are.
Aside == UNCHANGED log \/ \E e \in Event : log' = Append(log, e) /\ e.type \notin WaveTypes

\* A step beside the course of the waves keeps their sets and the submits.
LEMMA AsideKeeps ==
  ASSUME log \in Seq(Event), Aside
  PROVE  /\ \A type \in WaveTypes : Logged(type)' = Logged(type)
         /\ InFlight' = InFlight /\ Unsubmitted' = Unsubmitted
         /\ \A S : Submits(S)' = Submits(S)
<1>1. CASE UNCHANGED log
  BY <1>1 DEF Logged, InFlight, Unsubmitted, Submits
<1>2. ASSUME NEW e \in Event, log' = Append(log, e), e.type \notin WaveTypes
      PROVE  /\ \A type \in WaveTypes : Logged(type)' = Logged(type)
             /\ InFlight' = InFlight /\ Unsubmitted' = Unsubmitted
             /\ \A S : Submits(S)' = Submits(S)
  <2>1. \A type \in WaveTypes : Logged(type)' = Logged(type)
    BY <1>2, LoggedGrows
  <2>2. \A S : Submits(S)' = Submits(S)
    BY <1>2, SubmitsGrow DEF WaveTypes
  <2> QED
    BY <2>1, <2>2 DEF InFlight, Unsubmitted, WaveTypes
<1> QED
  BY <1>1, <1>2 DEF Aside

\* A step is beside the course of the waves or one of four.
LEMMA WaveWriters ==
  ASSUME TypeInv, HandInv, [Next]_vars
  PROVE  Aside \/ WaveWrites
<1>1. ASSUME NEW e \in Event, Tells(e) \/ Mentions(e)
      PROVE  Aside \/ WaveWrites
  BY <1>1 DEF Tells, Writer, Mentions, Aside, Silent, WaveTypes
<1>2. CASE Plans
  BY <1>2 DEF Plans, PlanTypes, Aside, WaveTypes
<1> QED
  BY <1>1, <1>2, StepKind DEF Quiet, Project, Resume, Doctor, LinkItem, vars, Aside

\* What the four steps record.
LEMMA FormWaveIs ==
  ASSUME TypeInv, FormWave
  PROVE  LET w == [items |-> todo, ord |-> Submits(todo)]
         IN  /\ w \in WaveId /\ wave' = w /\ recon' = recon /\ todo' = todo
             /\ \E e \in Event : /\ log' = Append(log, e) /\ e.type = "WAVE_FORMED"
                                 /\ e.wave = w /\ e.nodes = w.items
             /\ At = "loop" /\ At' = "harvest"
<1> DEFINE w == [items |-> todo, ord |-> Submits(todo)]
<1>1. w \in WaveId
  BY SubmitsType DEF FormWave, WaveId, TypeInv
<1>2. /\ log' = Append(log, WaveEv("WAVE_FORMED", w)) /\ wave' = w /\ recon' = recon /\ todo' = todo
      /\ At = "loop" /\ At' = "harvest"
  BY DEF FormWave, Emit, Log, Record, At
<1> HIDE DEF w
<1>3. /\ WaveEv("WAVE_FORMED", w) \in Event /\ WaveEv("WAVE_FORMED", w).type = "WAVE_FORMED"
      /\ WaveEv("WAVE_FORMED", w).wave = w /\ WaveEv("WAVE_FORMED", w).nodes = w.items
  BY <1>1, PlainIs DEF Told
<1> QED
  BY <1>1, <1>2, <1>3 DEF w

\* Submit records the submit of the wave at hand.
LEMMA SubmitIs ==
  ASSUME TypeInv, Submit
  PROVE  /\ UNCHANGED <<wave, recon, todo, node>>
         /\ \E e \in Event : /\ log' = Append(log, e) /\ e.type = "WAVE_SUBMITTED"
                             /\ e.wave = wave /\ e.nodes = wave.items
         /\ At = "harvest" /\ At' = "poll"
<1>1. log' = Append(log, WaveEv("WAVE_SUBMITTED", wave))
  BY DEF Submit, Emit, Log, Record
<1>2. /\ WaveEv("WAVE_SUBMITTED", wave) \in Event
      /\ WaveEv("WAVE_SUBMITTED", wave).type = "WAVE_SUBMITTED"
      /\ WaveEv("WAVE_SUBMITTED", wave).wave = wave
      /\ WaveEv("WAVE_SUBMITTED", wave).nodes = wave.items
  BY PlainIs DEF Told, TypeInv
<1> QED
  BY <1>1, <1>2 DEF Submit, Emit, Log, At

\* CompleteWave completes the wave at hand, with nothing left to do.
LEMMA CompleteWaveIs ==
  ASSUME TypeInv, CompleteWave
  PROVE  /\ UNCHANGED <<wave, recon, todo, node>>
         /\ \E e \in Event : /\ log' = Append(log, e) /\ e.type = "WAVE_COMPLETED"
                             /\ e.wave = wave /\ e.nodes = wave.items
         /\ At = "fetch" /\ At' = "waves" /\ todo = {}
<1>1. log' = Append(log, WaveEv("WAVE_COMPLETED", wave))
  BY DEF CompleteWave, Emit, Log, Record
<1> QED
  BY <1>1, PlainIs DEF Told, CompleteWave, Emit, Log, At, TypeInv

\* Adopt records the submit of a wave that was formed before a crash.
LEMMA AdoptIs ==
  ASSUME TypeInv, NEW w \in Logged("WAVE_FORMED"), Adopt(w)
  PROVE  /\ UNCHANGED <<wave, todo, node>>
         /\ \E e \in Event : /\ log' = Append(log, e) /\ e.type = "WAVE_SUBMITTED"
                             /\ e.wave = w /\ e.nodes = w.items
         /\ w \in recon /\ recon' = recon \ {w}
         /\ At = "waves" /\ At' = "waves" /\ InFlight = {} /\ w \in WaveId
<1>1. log' = Append(log, WaveEv("WAVE_SUBMITTED", w)) /\ w \in WaveId
  BY LoggedType DEF Adopt, Log, Record, TypeInv
<1> QED
  BY <1>1, PlainIs DEF Told, Adopt, Log, At

\* How the other steps move the driver.
LEMMA Moves ==
  ASSUME HandInv, [Next]_vars, ~WaveWrites
  PROVE  /\ At' \in BusyPcs => (At \in BusyPcs /\ wave' = wave) \/ wave' \in InFlight
         /\ At' \in FreePcs => At \in FreePcs \/ InFlight = {}
         /\ At' \in LoopPcs => (At \in LoopPcs /\ recon' = recon) \/ recon' = {}
         /\ At' = "harvest" => At = "harvest" /\ wave' = wave
<1> USE DEF HandInv, At, BusyPcs, FreePcs, LoopPcs, NodePcs, PutPcs, ItemPcs, WaveWrites
<1>1. CASE Starting \/ Doctor \/ Crash \/ UNCHANGED vars
  BY <1>1 DEF Starting, CreateJob, Acquire, Resume, Project, Heartbeat, Record, Doctor, Crash,
              Leave, vars
<1>2. CASE Recovering
  BY <1>2 DEF Recovering, EnterLoop, Unharvest, TakeUp, Adopt, GiveUp, Emit, Log, Record
<1>3. CASE Looping
  BY <1>3 DEF Looping, MarkReady, FanOut, TemplateDone, StartVerify, FinishVerify, Local, Emit,
              Log, Record, NextIteration, FormWave, Harvest, Submit, CompleteWave, JobDone, Blocked,
              Leave
<1>4. CASE Storing
  BY <1>4 DEF Storing, PutBlob, WriteBlob, RenameBlob, ArtifactRow, NextBlob
<1>5. CASE Returning
  BY <1>5 DEF Returning, TakeItem, PutCall, LinkItem, ItemReturned, ReEnqueue, Emit, Log, Record
<1>6. CASE Judging
  BY <1>6 DEF Judging, RefuseItem, Refused, AcceptItem, AlreadyApplied, RecordIntent, Conflict,
              NeedsHuman, RecordApplied, DiffLands, CountApplied, CountItem, NodeDone, Emit, Log,
              Record
<1> QED
  BY <1>1, <1>2, <1>3, <1>4, <1>5, <1>6 DEF Next

\* Every step keeps one wave in flight.
LEMMA FlightStep ==
  ASSUME TypeInv, HandInv, OrdInv, FlightInv, [Next]_vars
  PROVE  FlightInv'
<1> USE DEF FlightInv
<1>1. CASE ~WaveWrites
  <2>1. InFlight' = InFlight
    BY <1>1, WaveWriters, AsideKeeps DEF TypeInv
  <2>2. /\ At' \in BusyPcs => (At \in BusyPcs /\ wave' = wave) \/ wave' \in InFlight
        /\ At' \in FreePcs => At \in FreePcs \/ InFlight = {}
        /\ At' \in LoopPcs => (At \in LoopPcs /\ recon' = recon) \/ recon' = {}
    BY <1>1, Moves
  <2>3. At' \in BusyPcs => InFlight' = {wave'}
    BY <2>1, <2>2
  <2> QED
    BY <2>1, <2>2, <2>3
<1>2. ASSUME NEW e \in Event, log' = Append(log, e), e.type = "WAVE_FORMED"
      PROVE  InFlight' = InFlight
  BY <1>2, LoggedGrows DEF InFlight, TypeInv
<1>3. ASSUME NEW e \in Event, log' = Append(log, e), e.type = "WAVE_SUBMITTED",
             e.wave \notin Logged("WAVE_COMPLETED")
      PROVE  InFlight' = InFlight \cup {e.wave}
  BY <1>3, LoggedGrows DEF InFlight, TypeInv
<1>4. ASSUME NEW e \in Event, log' = Append(log, e), e.type = "WAVE_COMPLETED"
      PROVE  InFlight' = InFlight \ {e.wave}
  BY <1>4, LoggedGrows DEF InFlight, TypeInv
<1> USE DEF At, BusyPcs, FreePcs, LoopPcs, NodePcs, PutPcs, ItemPcs
<1>5. CASE FormWave
  BY <1>2, <1>5, FormWaveIs
<1>6. CASE Submit
  <2>1. wave \notin Logged("WAVE_COMPLETED") /\ InFlight = {}
    BY <1>6, SubmitIs DEF OrdInv
  <2>2. InFlight' = {wave}
    BY <1>3, <1>6, <2>1, SubmitIs
  <2> QED
    BY <1>6, <2>2, SubmitIs
<1>7. CASE CompleteWave
  <2>1. InFlight' = {}
    BY <1>4, <1>7, CompleteWaveIs
  <2> QED
    BY <1>7, <2>1, CompleteWaveIs
<1>8. ASSUME NEW w \in Logged("WAVE_FORMED"), Adopt(w)
      PROVE  FlightInv'
  <2>1. w \notin Logged("WAVE_COMPLETED") /\ InFlight = {}
    BY <1>8, AdoptIs DEF OrdInv
  <2>2. InFlight' = {w}
    BY <1>3, <1>8, <2>1, AdoptIs
  <2> QED
    BY <1>8, <2>2, AdoptIs
<1> QED
  BY <1>1, <1>5, <1>6, <1>7, <1>8 DEF WaveWrites

\* The events of the waves name the items of the wave.
LEMMA NodesStep ==
  ASSUME log \in Seq(Event), NEW e \in Event, log' = Append(log, e),
         e.type \in WaveTypes => e.nodes = e.wave.items,
         \A i \in 1..Len(log) : log[i].type \in WaveTypes => log[i].nodes = log[i].wave.items
  PROVE  \A i \in 1..Len(log') : log'[i].type \in WaveTypes => log'[i].nodes = log'[i].wave.items
<1>1. /\ Len(log) \in Nat /\ Len(log') = Len(log) + 1
      /\ log'[Len(log) + 1] = e
      /\ \A i \in 1..Len(log) : log'[i] = log[i]
  OBVIOUS
<1>2. \A i \in 1..Len(log') : i \in 1..Len(log) \/ i = Len(log) + 1
  BY <1>1
<1> QED
  BY <1>1, <1>2

\* Every step keeps the order of the events of a wave.
LEMMA OrdStep ==
  ASSUME TypeInv, HandInv, OrdInv, FlightInv, [Next]_vars
  PROVE  OrdInv'
<1>0. \A type : Logged(type) \subseteq WaveId
  BY LoggedType DEF TypeInv
<1>w. \A w \in WaveId : w.ord \in Nat
  BY DEF WaveId
<1>s. \A S : Submits(S) \in Nat
  BY SubmitsType DEF TypeInv
<1>1. CASE ~WaveWrites
  <2>0. Aside
    BY <1>1, WaveWriters
  <2>1. /\ \A type \in WaveTypes : Logged(type)' = Logged(type)
        /\ \A S : Submits(S)' = Submits(S)
    BY <2>0, AsideKeeps DEF TypeInv
  <2>2. /\ Logged("WAVE_FORMED")' = Logged("WAVE_FORMED")
        /\ Logged("WAVE_SUBMITTED")' = Logged("WAVE_SUBMITTED")
        /\ Logged("WAVE_COMPLETED")' = Logged("WAVE_COMPLETED")
    BY <2>1 DEF WaveTypes
  <2>3. \A i \in 1..Len(log') : log'[i].type \in WaveTypes => log'[i].nodes = log'[i].wave.items
    BY <2>0, NodesStep DEF Aside, OrdInv, TypeInv
  <2>4. At' = "harvest" => At = "harvest" /\ wave' = wave
    BY <1>1, Moves
  <2>5. recon' \subseteq recon \/ recon' = Unsubmitted
    BY RowsKept DEF Resume
  <2> QED
    BY <2>1, <2>2, <2>3, <2>4, <2>5 DEF OrdInv, Unsubmitted
<1>2. ASSUME NEW e \in Event, log' = Append(log, e), e.type \in WaveTypes, e.nodes = e.wave.items,
             e.type \in {"WAVE_FORMED", "WAVE_SUBMITTED"} => e.wave.ord <= Submits(e.wave.items),
             e.type = "WAVE_SUBMITTED" => e.wave \in Logged("WAVE_FORMED"),
             e.type = "WAVE_COMPLETED" => e.wave \in Logged("WAVE_SUBMITTED"),
             recon' \subseteq recon, e.type = "WAVE_SUBMITTED" => e.wave \notin recon',
             At' = "harvest" => /\ wave' \in Logged("WAVE_FORMED")'
                                /\ wave' \notin Logged("WAVE_SUBMITTED")'
      PROVE  OrdInv'
  <2>1. \A i \in 1..Len(log') : log'[i].type \in WaveTypes => log'[i].nodes = log'[i].wave.items
    BY <1>2, NodesStep DEF OrdInv, TypeInv
  <2>2. \A type : Logged(type)' = Logged(type) \cup (IF e.type = type THEN {e.wave} ELSE {})
    BY <1>2, LoggedGrows DEF TypeInv
  <2>3. \A S : Submits(S)' = Submits(S) + IF e.type = "WAVE_SUBMITTED" /\ e.nodes = S THEN 1 ELSE 0
    BY <1>2, SubmitsGrow DEF TypeInv
  <2>4. \A S : Submits(S) <= Submits(S)' /\ Submits(S)' \in Nat
    BY <1>s, <2>3
  <2>5. e.wave \in WaveId
    BY DEF Event
  <2>6. \A w \in Logged("WAVE_FORMED")' : w.ord <= Submits(w.items)'
    <3> SUFFICES ASSUME NEW w \in Logged("WAVE_FORMED")' PROVE w.ord <= Submits(w.items)'
      OBVIOUS
    <3>1. w \in Logged("WAVE_FORMED") \/ (e.type = "WAVE_FORMED" /\ w = e.wave)
      BY <2>2
    <3>2. w.ord \in Nat /\ w.ord <= Submits(w.items)
      BY <1>0, <1>2, <1>w, <2>5, <3>1 DEF OrdInv
    <3>3. /\ Submits(w.items) <= Submits(w.items)'
          /\ Submits(w.items)' \in Nat /\ Submits(w.items) \in Nat
      BY <1>s, <2>4
    <3> QED
      BY <3>2, <3>3
  <2>7. \A w \in Logged("WAVE_SUBMITTED")' : w.ord < Submits(w.items)'
    <3> SUFFICES ASSUME NEW w \in Logged("WAVE_SUBMITTED")' PROVE w.ord < Submits(w.items)'
      OBVIOUS
    <3>1. CASE w \in Logged("WAVE_SUBMITTED")
      <4>1. w.ord \in Nat /\ w.ord < Submits(w.items)
        BY <1>0, <1>w, <3>1 DEF OrdInv
      <4>2. /\ Submits(w.items) <= Submits(w.items)'
            /\ Submits(w.items)' \in Nat /\ Submits(w.items) \in Nat
        BY <1>s, <2>4
      <4> QED
        BY <4>1, <4>2
    <3>2. CASE e.type = "WAVE_SUBMITTED" /\ w = e.wave
      <4>1. w.ord \in Nat /\ w.ord <= Submits(w.items) /\ Submits(w.items) \in Nat
        BY <1>2, <1>w, <1>s, <2>5, <3>2
      <4>2. Submits(w.items)' = Submits(w.items) + 1
        BY <1>2, <2>3, <3>2
      <4> QED
        BY <4>1, <4>2
    <3> QED
      BY <2>2, <3>1, <3>2
  <2>8. /\ Logged("WAVE_SUBMITTED")' \subseteq Logged("WAVE_FORMED")'
        /\ Logged("WAVE_COMPLETED")' \subseteq Logged("WAVE_SUBMITTED")'
        /\ recon' \subseteq Logged("WAVE_FORMED")' \ Logged("WAVE_SUBMITTED")'
    BY <1>2, <2>2 DEF OrdInv
  <2> QED
    BY <1>2, <2>1, <2>6, <2>7, <2>8 DEF OrdInv
<1> USE DEF WaveTypes
<1>3. CASE FormWave
  <2>1. PICK e \in Event : /\ log' = Append(log, e) /\ e.type = "WAVE_FORMED"
                           /\ e.wave = wave' /\ e.nodes = wave'.items
                           /\ wave' = [items |-> todo, ord |-> Submits(todo)]
                           /\ recon' = recon
    BY <1>3, FormWaveIs
  <2>2. e.wave.ord = Submits(e.wave.items)
    BY <2>1
  <2>3. e.wave \notin Logged("WAVE_SUBMITTED")
    BY <1>s, <2>2 DEF OrdInv
  <2>4. wave' \in Logged("WAVE_FORMED")' /\ wave' \notin Logged("WAVE_SUBMITTED")'
    BY <2>1, <2>3, LoggedGrows DEF TypeInv
  <2> QED
    BY <1>2, <1>s, <2>1, <2>2, <2>4
<1>4. CASE Submit
  <2>1. PICK e \in Event : /\ log' = Append(log, e) /\ e.type = "WAVE_SUBMITTED"
                           /\ e.wave = wave /\ e.nodes = wave.items
    BY <1>4, SubmitIs
  <2>2. /\ recon' = recon /\ recon = {} /\ At' # "harvest"
        /\ wave \in Logged("WAVE_FORMED") /\ wave.ord <= Submits(wave.items)
    BY <1>4, SubmitIs DEF OrdInv, FlightInv, LoopPcs
  <2> QED
    BY <1>2, <2>1, <2>2
<1>5. CASE CompleteWave
  <2>1. PICK e \in Event : /\ log' = Append(log, e) /\ e.type = "WAVE_COMPLETED"
                           /\ e.wave = wave /\ e.nodes = wave.items
    BY <1>5, CompleteWaveIs
  <2>2. recon' = recon /\ At' # "harvest" /\ wave \in InFlight
    BY <1>5, CompleteWaveIs DEF FlightInv, BusyPcs
  <2>3. wave \in Logged("WAVE_SUBMITTED")
    BY <2>2 DEF InFlight
  <2> QED
    BY <1>2, <2>1, <2>2, <2>3
<1>6. ASSUME NEW w \in Logged("WAVE_FORMED"), Adopt(w)
      PROVE  OrdInv'
  <2>1. PICK e \in Event : /\ log' = Append(log, e) /\ e.type = "WAVE_SUBMITTED"
                           /\ e.wave = w /\ e.nodes = w.items
    BY <1>6, AdoptIs
  <2>2. recon' = recon \ {w} /\ At' # "harvest" /\ w.ord <= Submits(w.items)
    BY <1>6, AdoptIs DEF OrdInv
  <2> QED
    BY <1>2, <2>1, <2>2
<1> QED
  BY <1>1, <1>3, <1>4, <1>5, <1>6 DEF WaveWrites

-----------------------------------------------------------------------------
(* The calls and their items.                                              *)

\* Places before the llm_calls row of the item, and places of the fetch.
StorePcs == PutPcs \cup {"memo"}
FetchPcs == NodePcs \cup {"fetch"}

\* w is the first wave submitted with n.
FirstSubmit(w, n) ==
  \E i \in 1..Len(log) :
    /\ log[i].type = "WAVE_SUBMITTED" /\ log[i].wave = w /\ n \in log[i].nodes
    /\ \A j \in 1..Len(log) : log[j].type = "WAVE_SUBMITTED" /\ n \in log[j].nodes => i <= j

\* The row of a call is of the first wave its node was submitted in; a wave
\* is completed when all its nodes have their rows.
CallsInv ==
  /\ \A n \in Diff : calls[n] # NoCall => FirstSubmit(calls[n].id, n)
  /\ \A w \in Logged("WAVE_COMPLETED") : \A n \in w.items : calls[n] # NoCall
  /\ At \in FetchPcs =>
       /\ todo \subseteq wave.items
       /\ \A n \in wave.items \ todo : calls[n] # NoCall \/ (n = node /\ At \in StorePcs)
  /\ At \in NodePcs => node \in wave.items /\ node \notin todo

\* A call_items row has the id of the call of its node.
LinksInv == \A i \in items : calls[i[2]] # NoCall /\ calls[i[2]].id = i[1]

\* How the driver gets to an item of the wave.
LEMMA FetchMoves ==
  ASSUME HandInv, [Next]_vars, At' \in FetchPcs
  PROVE  \/ /\ At \in FetchPcs /\ UNCHANGED <<wave, todo>>
            /\ At' \in NodePcs => At \in NodePcs /\ node' = node
            /\ At \in StorePcs => At' \in StorePcs \/ PutCall
         \/ \E n \in Diff : TakeItem(n)
         \/ At' = "fetch" /\ todo' = wave.items /\ wave' = wave
<1> USE DEF HandInv, At, FetchPcs, StorePcs, NodePcs, PutPcs, ItemPcs
<1>1. CASE Starting \/ Doctor \/ Crash \/ UNCHANGED vars
  BY <1>1 DEF Starting, CreateJob, Acquire, Resume, Project, Heartbeat, Record, Doctor, Crash,
              Leave, vars
<1>2. CASE Recovering
  BY <1>2 DEF Recovering, EnterLoop, Unharvest, TakeUp, Adopt, GiveUp, Emit, Log, Record
<1>3. CASE Looping
  BY <1>3 DEF Looping, MarkReady, FanOut, TemplateDone, StartVerify, FinishVerify, Local, Emit,
              Log, Record, NextIteration, FormWave, Harvest, Submit, CompleteWave, JobDone, Blocked,
              Leave
<1>4. CASE Storing
  BY <1>4 DEF Storing, PutBlob, WriteBlob, RenameBlob, ArtifactRow, NextBlob
<1>5. CASE Returning
  BY <1>5 DEF Returning, TakeItem, PutCall, LinkItem, ItemReturned, ReEnqueue, Emit, Log, Record
<1>6. CASE Judging
  BY <1>6 DEF Judging, RefuseItem, Refused, AcceptItem, AlreadyApplied, RecordIntent, Conflict,
              NeedsHuman, RecordApplied, DiffLands, CountApplied, CountItem, NodeDone, Emit, Log,
              Record
<1> QED
  BY <1>1, <1>2, <1>3, <1>4, <1>5, <1>6 DEF Next

\* A log that grows keeps its first submits.
LEMMA FirstKept ==
  ASSUME TypeInv, HandInv, [Next]_vars, NEW w, NEW n, FirstSubmit(w, n)
  PROVE  FirstSubmit(w, n)'
<1>1. CASE UNCHANGED log
  BY <1>1 DEF FirstSubmit
<1>2. ASSUME NEW e \in Event, log' = Append(log, e)
      PROVE  FirstSubmit(w, n)'
  <2>1. /\ Len(log) \in Nat /\ Len(log') = Len(log) + 1
        /\ \A i \in 1..Len(log) : log'[i] = log[i]
    BY <1>2 DEF TypeInv
  <2>2. PICK i \in 1..Len(log) :
          /\ log[i].type = "WAVE_SUBMITTED" /\ log[i].wave = w /\ n \in log[i].nodes
          /\ \A j \in 1..Len(log) : log[j].type = "WAVE_SUBMITTED" /\ n \in log[j].nodes => i <= j
    BY DEF FirstSubmit
  <2>3. \A j \in 1..Len(log') : j \in 1..Len(log) \/ j = Len(log) + 1
    BY <2>1
  <2>4. \A j \in 1..Len(log') : log'[j].type = "WAVE_SUBMITTED" /\ n \in log'[j].nodes => i <= j
    BY <2>1, <2>2, <2>3
  <2>5. i \in 1..Len(log') /\ log'[i] = log[i]
    BY <2>1
  <2> QED
    BY <2>2, <2>4, <2>5 DEF FirstSubmit
<1> QED
  BY <1>1, <1>2, StepKind DEF Tells, Mentions, Plans, Quiet, Project, Resume, Doctor, LinkItem, vars

\* The wave in flight is the first with a node of it that has no row yet.
LEMMA FlightIsFirst ==
  ASSUME TypeInv, OrdInv, FlightInv, CallsInv, At \in BusyPcs,
         NEW n \in wave.items, calls[n] = NoCall
  PROVE  FirstSubmit(wave, n)
<1> DEFINE T == {j \in 1..Len(log) : log[j].type = "WAVE_SUBMITTED" /\ n \in log[j].nodes}
<1>0. Len(log) \in Nat
  BY DEF TypeInv
<1>1. wave \in Logged("WAVE_SUBMITTED") /\ InFlight = {wave}
  BY DEF FlightInv, InFlight
<1>2. PICK k \in 1..Len(log) : log[k].type = "WAVE_SUBMITTED" /\ log[k].wave = wave
  BY <1>1 DEF Logged
<1>3. k \in T
  BY <1>2 DEF OrdInv, WaveTypes
<1>4. PICK i \in T : \A j \in T : i <= j
  <2>1. T \in SUBSET Nat /\ T # {}
    BY <1>3
  <2> QED
    BY <2>1, Least
<1>5. log[i].wave \in Logged("WAVE_SUBMITTED") /\ n \in log[i].wave.items
  BY <1>4 DEF Logged, OrdInv, WaveTypes
<1>6. log[i].wave \notin Logged("WAVE_COMPLETED")
  BY <1>5 DEF CallsInv
<1>7. log[i].wave = wave
  BY <1>1, <1>5, <1>6 DEF InFlight
<1> QED
  BY <1>4, <1>7 DEF FirstSubmit

\* memo.put: the first row stays.
LEMMA PutCallIs ==
  ASSUME TypeInv, HandInv, PutCall
  PROVE  /\ node \in Diff /\ At = "memo" /\ At' = "link" /\ UNCHANGED <<hand, log, items>>
         /\ \A n \in Diff : n # node => calls'[n] = calls[n]
         /\ calls[node] # NoCall => calls'[node] = calls[node]
         /\ calls[node] = NoCall => calls'[node].id = wave
         /\ calls'[node] # NoCall
<1>1. /\ calls' = [calls EXCEPT ![node] =
             IF @ # NoCall THEN @
             ELSE [id |-> wave, ref |-> IF Fails(node, wave) THEN NoBlob ELSE Response(node)]]
      /\ pc = "memo" /\ pc' = "link" /\ UNCHANGED <<hand, log, items>>
  BY DEF PutCall
<1>2. node \in Diff
  BY <1>1 DEF HandInv, NodePcs
<1>3. NoBlob # <<>> /\ Response(node) # <<>>
  BY DEF NoBlob, Response
<1>4. [id |-> wave, ref |-> IF Fails(node, wave) THEN NoBlob ELSE Response(node)] # NoCall
  BY <1>3 DEF NoCall
<1> QED
  BY <1>1, <1>2, <1>4 DEF TypeInv, At

\* A row of llm_calls stays as it is.
LEMMA CallsGrow ==
  ASSUME TypeInv, HandInv, [Next]_vars, NEW n \in Diff, calls[n] # NoCall
  PROVE  calls'[n] = calls[n]
BY RowsKept, PutCallIs

\* Only CompleteWave completes a wave.
LEMMA CompletedGrows ==
  ASSUME TypeInv, HandInv, [Next]_vars, ~CompleteWave
  PROVE  Logged("WAVE_COMPLETED")' = Logged("WAVE_COMPLETED")
<1>1. CASE Aside
  BY <1>1, AsideKeeps DEF TypeInv, WaveTypes
<1>2. ASSUME NEW e \in Event, log' = Append(log, e), e.type \in {"WAVE_FORMED", "WAVE_SUBMITTED"}
      PROVE  Logged("WAVE_COMPLETED")' = Logged("WAVE_COMPLETED")
  <2>1. log \in Seq(Event)
    BY DEF TypeInv
  <2>2. Logged("WAVE_COMPLETED")'
          = Logged("WAVE_COMPLETED") \cup (IF e.type = "WAVE_COMPLETED" THEN {e.wave} ELSE {})
    BY ONLY <1>2, <2>1, LoggedGrows
  <2>3. e.type # "WAVE_COMPLETED"
    BY ONLY <1>2
  <2> QED
    BY ONLY <2>2, <2>3
<1>3. CASE FormWave
  BY <1>2, <1>3, FormWaveIs
<1>4. CASE Submit
  BY <1>2, <1>4, SubmitIs
<1>5. ASSUME NEW w \in Logged("WAVE_FORMED"), Adopt(w)
      PROVE  Logged("WAVE_COMPLETED")' = Logged("WAVE_COMPLETED")
  BY <1>2, <1>5, AdoptIs
<1> QED
  BY <1>1, <1>3, <1>4, <1>5, WaveWriters DEF WaveWrites

\* Every step keeps a row the row of the first submit of its node.
LEMMA CallsStep ==
  ASSUME TypeInv, HandInv, OrdInv, FlightInv, CallsInv, [Next]_vars
  PROVE  CallsInv'
<1>1. ASSUME NEW n \in Diff, calls'[n] # NoCall
      PROVE  FirstSubmit(calls[n].id, n)'
  <2>1. CASE calls[n] # NoCall
    <3>1. PICK w : w = calls[n].id
      OBVIOUS
    <3>2. FirstSubmit(w, n)'
      BY <2>1, <3>1, FirstKept DEF CallsInv
    <3> QED
      BY <2>1, <3>1, <3>2, CallsGrow
  <2>2. CASE calls[n] = NoCall
    <3>1. PutCall
      BY <1>1, <2>2, RowsKept
    <3>2. n = node /\ calls'[n].id = wave /\ At = "memo"
      BY <1>1, <2>2, <3>1, PutCallIs
    <3>3. FirstSubmit(wave, n)
      BY <2>2, <3>2, FlightIsFirst DEF CallsInv, BusyPcs, NodePcs
    <3>4. PICK w : w = wave
      OBVIOUS
    <3>5. FirstSubmit(w, n)'
      BY <3>3, <3>4, FirstKept
    <3> QED
      BY <3>2, <3>4, <3>5
  <2> QED
    BY <2>1, <2>2
<1>2. ASSUME NEW w \in Logged("WAVE_COMPLETED")', NEW n \in w.items
      PROVE  calls'[n] # NoCall
  <2>0. n \in Diff
    <3>1. w \in WaveId
      BY LogTypeStep DEF Logged, Event
    <3> QED
      BY <3>1 DEF WaveId
  <2>1. CASE w \in Logged("WAVE_COMPLETED")
    BY <2>0, <2>1, CallsGrow DEF CallsInv
  <2>2. CASE w \notin Logged("WAVE_COMPLETED")
    <3>1. CompleteWave
      BY <2>2, CompletedGrows
    <3>2. w = wave /\ todo = {} /\ At = "fetch"
      BY <2>2, <3>1, CompleteWaveIs, LoggedGrows DEF TypeInv
    <3>3. calls[n] # NoCall
      BY <3>2 DEF CallsInv, FetchPcs, StorePcs, PutPcs
    <3> QED
      BY <2>0, <3>3, CallsGrow
  <2> QED
    BY <2>1, <2>2
<1>3. ASSUME At' \in FetchPcs
      PROVE  /\ todo' \subseteq wave'.items
             /\ \A n \in wave'.items \ todo' : calls'[n] # NoCall \/ (n = node' /\ At' \in StorePcs)
             /\ At' \in NodePcs => node' \in wave'.items /\ node' \notin todo'
  <2>0. wave \in WaveId /\ wave.items \subseteq Diff
    BY DEF TypeInv, WaveId
  <2>1. CASE /\ At \in FetchPcs /\ UNCHANGED <<wave, todo>>
             /\ At' \in NodePcs => At \in NodePcs /\ node' = node
             /\ At \in StorePcs => At' \in StorePcs \/ PutCall
    <3>1. ASSUME NEW n \in wave.items \ todo
          PROVE  calls'[n] # NoCall \/ (n = node' /\ At' \in StorePcs)
      <4>1. CASE calls[n] # NoCall
        BY <2>0, <4>1, CallsGrow
      <4>2. CASE n = node /\ At \in StorePcs /\ PutCall
        BY <4>2, PutCallIs
      <4>3. CASE n = node /\ At \in StorePcs /\ At' \in StorePcs
        BY <2>1, <4>3 DEF StorePcs, NodePcs
      <4> QED
        BY <2>1, <4>1, <4>2, <4>3 DEF CallsInv
    <3> QED
      BY <2>1, <3>1 DEF CallsInv
  <2>2. ASSUME NEW m \in Diff, TakeItem(m)
        PROVE  /\ todo' \subseteq wave'.items
               /\ \A n \in wave'.items \ todo' :
                    calls'[n] # NoCall \/ (n = node' /\ At' \in StorePcs)
               /\ At' \in NodePcs => node' \in wave'.items /\ node' \notin todo'
    <3>1. /\ At = "fetch" /\ At' \in StorePcs /\ m \in todo /\ todo' = todo \ {m} /\ node' = m
          /\ UNCHANGED <<wave, calls>>
      BY <2>2 DEF TakeItem, At, StorePcs, PutPcs
    <3>2. /\ todo \subseteq wave.items
          /\ \A n \in wave.items \ todo : calls[n] # NoCall
      BY <3>1 DEF CallsInv, FetchPcs, StorePcs, PutPcs
    <3> QED
      BY <3>1, <3>2
  <2>3. CASE At' = "fetch" /\ todo' = wave.items /\ wave' = wave
    BY <2>3 DEF NodePcs, PutPcs, ItemPcs
  <2> QED
    BY <1>3, <2>1, <2>2, <2>3, FetchMoves
<1> QED
  BY <1>1, <1>2, <1>3 DEF CallsInv, FetchPcs

\* The item of a call goes by the id of its row, failed or not.
LEMMA LinksStep ==
  ASSUME TypeInv, HandInv, OrdInv, FlightInv, CallsInv, LinksInv, [Next]_vars
  PROVE  LinksInv'
<1>1. CASE LinkItem
  <2>1. /\ pc = "link" /\ node \in Diff /\ calls' = calls
        /\ items' = items \cup {<<CallId(node), node>>}
    BY <1>1 DEF LinkItem, HandInv, NodePcs
  <2>2. At = "link" /\ node \in wave.items /\ calls[node] # NoCall
    BY <2>1 DEF At, CallsInv, NodePcs, FetchPcs, StorePcs, PutPcs
  <2>3. CallId(node) = calls[node].id
    <3>1. CASE ~Fails(node, wave)
      BY <3>1 DEF CallId
    <3>2. CASE Fails(node, wave)
      <4>1. PICK i \in 1..Len(log) :
              /\ log[i].type = "WAVE_SUBMITTED" /\ log[i].wave = calls[node].id
              /\ node \in log[i].nodes
              /\ \A j \in 1..Len(log) :
                   log[j].type = "WAVE_SUBMITTED" /\ node \in log[j].nodes => i <= j
        BY <2>1, <2>2 DEF CallsInv, FirstSubmit
      <4>2. wave \in Logged("WAVE_SUBMITTED")
        BY <2>2 DEF FlightInv, BusyPcs, NodePcs, InFlight
      <4>3. PICK k \in 1..Len(log) : log[k].type = "WAVE_SUBMITTED" /\ log[k].wave = wave
        BY <4>2 DEF Logged
      <4>4. node \in log[k].nodes
        BY <2>2, <4>3 DEF OrdInv, WaveTypes
      <4>5. k <= i
        BY <3>2, <4>1, <4>3 DEF Fails
      <4>6. i = k
        BY <4>1, <4>3, <4>4, <4>5
      <4> QED
        BY <3>2, <4>1, <4>3, <4>6 DEF CallId
    <3> QED
      BY <3>1, <3>2
  <2> QED
    BY <2>1, <2>2, <2>3 DEF LinksInv
<1>2. CASE UNCHANGED items
  <2> SUFFICES ASSUME NEW i \in items
               PROVE  calls'[i[2]] # NoCall /\ calls'[i[2]].id = i[1]
    BY <1>2 DEF LinksInv
  <2>1. i[2] \in Diff
    BY DEF TypeInv
  <2> QED
    BY <2>1, CallsGrow DEF LinksInv
<1> QED
  BY <1>1, <1>2, RowsKept

\* Places, statistics and ledger.
RestInv ==
  /\ pc \in Place /\ next \in Place
  /\ stats \in [Diff -> Nat]
  /\ ledger \subseteq {Answer[n] : n \in Diff}

\* Every step leads to a place.
LEMMA PlaceStep ==
  ASSUME pc \in Place, next \in Place, [Next]_vars
  PROVE  pc' \in Place /\ next' \in Place
<1> USE DEF Place
<1>1. CASE Starting \/ Doctor \/ Crash \/ UNCHANGED vars
  BY <1>1 DEF Starting, CreateJob, Acquire, Resume, Project, Heartbeat, Record, Doctor, Crash,
              Leave, vars
<1>2. CASE Recovering
  BY <1>2 DEF Recovering, EnterLoop, Unharvest, TakeUp, Adopt, GiveUp, Emit, Log, Record
<1>3. CASE Looping
  BY <1>3 DEF Looping, MarkReady, FanOut, TemplateDone, StartVerify, FinishVerify, Local, Emit,
              Log, Record, NextIteration, FormWave, Harvest, Submit, CompleteWave, JobDone, Blocked,
              Leave
<1>4. CASE Storing
  BY <1>4 DEF Storing, PutBlob, WriteBlob, RenameBlob, ArtifactRow, NextBlob
<1>5. CASE Returning
  BY <1>5 DEF Returning, TakeItem, PutCall, LinkItem, ItemReturned, ReEnqueue, Emit, Log, Record
<1>6. CASE Judging
  BY <1>6 DEF Judging, RefuseItem, Refused, AcceptItem, AlreadyApplied, RecordIntent, Conflict,
              NeedsHuman, RecordApplied, DiffLands, CountApplied, CountItem, NodeDone, Emit, Log,
              Record
<1> QED
  BY <1>1, <1>2, <1>3, <1>4, <1>5, <1>6 DEF Next

\* Who counts.
LEMMA StatsKept ==
  ASSUME [Next]_vars
  PROVE  \/ UNCHANGED stats
         \/ /\ stats' = [stats EXCEPT ![node] = @ + 1] /\ UNCHANGED <<log, node, todo, crashes>>
            /\ \/ pc \in {"judge", "land", "apply", "count"} /\ pc' \in {"refuse", "giveup", "done"}
<1>1. CASE Starting \/ Doctor \/ Crash \/ UNCHANGED vars
  BY <1>1 DEF Starting, CreateJob, Acquire, Resume, Project, Heartbeat, Record, Doctor, Crash,
              Leave, vars
<1>2. CASE Recovering
  BY <1>2 DEF Recovering, EnterLoop, Unharvest, TakeUp, Adopt, GiveUp, Emit, Log, Record
<1>3. CASE Looping
  BY <1>3 DEF Looping, MarkReady, FanOut, TemplateDone, StartVerify, FinishVerify, Local, Emit,
              Log, Record, NextIteration, FormWave, Harvest, Submit, CompleteWave, JobDone, Blocked,
              Leave
<1>4. CASE Storing
  BY <1>4 DEF Storing, PutBlob, WriteBlob, RenameBlob, ArtifactRow, NextBlob
<1>5. CASE Returning
  BY <1>5 DEF Returning, TakeItem, PutCall, LinkItem, ItemReturned, ReEnqueue, Emit, Log, Record
<1>6. CASE Judging
  BY <1>6 DEF Judging, RefuseItem, Refused, AcceptItem, AlreadyApplied, RecordIntent, Conflict,
              NeedsHuman, RecordApplied, DiffLands, CountApplied, CountItem, NodeDone, Emit, Log,
              Record
<1> QED
  BY <1>1, <1>2, <1>3, <1>4, <1>5, <1>6 DEF Next

\* Every step keeps the types of the rest.
LEMMA RestStep ==
  ASSUME TypeInv, HandInv, RestInv, [Next]_vars
  PROVE  RestInv'
<1>1. stats' \in [Diff -> Nat]
  BY StatsKept DEF RestInv
<1>2. ledger' \subseteq {Answer[n] : n \in Diff}
  <2>1. CASE RecordApplied
    BY <2>1, LandingIsLogged DEF RestInv, HandInv, NodePcs
  <2>2. CASE UNCHANGED ledger
    BY <2>2 DEF RestInv
  <2>3. LogInv
    BY DEF LogInv, TypeInv
  <2> QED
    BY <2>1, <2>2, <2>3, OneWriter
<1> QED
  BY <1>1, <1>2, PlaceStep DEF RestInv

\* The inductive invariant behind TypeOK.
StoreInv ==
  TablesInv /\ BlobInv /\ OrdInv /\ FlightInv /\ CallsInv /\ LinksInv /\ RestInv

\* The invariant holds at the start.
LEMMA StoreInit == Init => StoreInv
<1> SUFFICES ASSUME Init PROVE StoreInv
  OBVIOUS
<1>1. TablesInv
  BY TablesInvInit
<1>2. BlobInv
  BY BlobInit
<1>3. Len(log) = 0 /\ \A type : Logged(type) = {}
  BY DEF Init, Logged
<1>4. InFlight = {}
  BY <1>3 DEF InFlight
<1>5. OrdInv
  BY <1>3 DEF OrdInv, Init, At
<1>6. FlightInv
  BY <1>4 DEF FlightInv, Init, At, BusyPcs, NodePcs, PutPcs, ItemPcs, LoopPcs
<1>7. \A n \in Diff : calls[n] = NoCall
  BY DEF Init
<1>8. CallsInv
  BY <1>3, <1>7 DEF CallsInv, Init, At, FetchPcs, NodePcs, PutPcs, ItemPcs
<1>9. LinksInv
  BY DEF LinksInv, Init
<1>10. RestInv
  BY DEF RestInv, Init, Place
<1> QED
  BY <1>1, <1>2, <1>5, <1>6, <1>8, <1>9, <1>10 DEF StoreInv

\* Every step keeps the invariant.
LEMMA StoreStep == StoreInv /\ [Next]_vars => StoreInv'
<1> SUFFICES ASSUME StoreInv, [Next]_vars PROVE StoreInv'
  OBVIOUS
<1>0. TypeInv /\ HandInv
  BY DEF StoreInv, TablesInv
<1>1. TablesInv'
  BY TablesInvStep DEF StoreInv
<1>2. BlobInv'
  BY BlobStep, HandStep DEF StoreInv, BlobInv
<1>3. OrdInv' /\ FlightInv'
  BY <1>0, OrdStep, FlightStep DEF StoreInv
<1>4. CallsInv' /\ LinksInv'
  BY <1>0, CallsStep, LinksStep DEF StoreInv
<1>5. RestInv'
  BY <1>0, RestStep DEF StoreInv
<1> QED
  BY <1>1, <1>2, <1>3, <1>4, <1>5 DEF StoreInv

\* The tables, blobs, calls, links, ledger and statistics have their types; a call_items
\* row has the llm_calls row it refers to, with its id (memo.add_call_item).
THEOREM StoreTyped == Spec => []TypeOK
<1>1. ASSUME StoreInv
      PROVE  TypeOK
  <2>1. tables \in Tables
    <3>0. log \in Seq(Event) /\ Len(log) \in Nat
      BY <1>1 DEF StoreInv, TablesInv, TypeInv
    <3>1. CASE tables = NoTables \/ tables = Replay(log, items)
      BY <3>0, <3>1, NoTablesType, ReplayType
    <3>2. ASSUME NEW i \in 1..Len(log), tables = Replay(SubSeq(log, 1, i - 1), items)
          PROVE  tables \in Tables
      <4>1. i - 1 \in 0..Len(log)
        BY <3>0
      <4>2. SubSeq(log, 1, i - 1) \in Seq(Event)
        BY <3>0, <4>1, SubSeqAppend
      <4> QED
        BY <3>2, <4>2, ReplayType
    <3> QED
      BY <1>1, <3>1, <3>2 DEF StoreInv, TablesInv, TablesAreTheLog
  <2>2. DOMAIN tables.wave \subseteq WaveId /\ tables.node \in [Node -> Row \cup {NoRow}]
    BY <2>1, TablesRecord
  <2>3. artifacts \subseteq Digest
    BY <1>1 DEF StoreInv, BlobInv, ContentInv
  <2>4. items \subseteq WaveId \X Diff /\ \A i \in items : calls[i[2]].id = i[1]
    BY <1>1 DEF StoreInv, TablesInv, TypeInv, LinksInv
  <2>5. pc \in Place /\ stats \in [Diff -> Nat] /\ ledger \subseteq {Answer[n] : n \in Diff}
    BY <1>1 DEF StoreInv, RestInv
  <2> QED
    BY <2>2, <2>3, <2>4, <2>5 DEF TypeOK
<1> QED
  BY <1>1, StoreInit, StoreStep, PTL DEF Spec

-----------------------------------------------------------------------------
(* The status of a node, as the log has it.                                *)

St(n) == Replay(log, items).node[n].status

\* What an event makes of the status of a node.
LEMMA StatusAfter ==
  ASSUME NEW t \in Tables, NEW e \in Event, NEW L, NEW n \in Node
  PROVE  \/ Apply(t, e, L).node[n].status = t.node[n].status
         \/ /\ e.type \in StatusTypes \cup {"ITEM_RETURNED"} /\ ~Idle(e) /\ n \in e.nodes
            /\ t.node[n].status # "absent"
            /\ Apply(t, e, L).node[n].status = Given(e)
         \/ /\ e.type \in {"NODE_ADDED", "FANOUT_RESOLVED"} /\ t.node[n].status = "absent"
            /\ Apply(t, e, L).node[n].status = "PENDING"
         \/ /\ e.type = "WAVE_SUBMITTED" /\ n \in e.nodes
            /\ Apply(t, e, L).node[n].status = "SUBMITTED"
<1> DEFINE r == t.node[n]
           q == Apply(t, e, L).node[n]
<1>0. r \in Row \cup {NoRow}
  BY DEF Tables
<1>a. (r = NoRow <=> r.status = "absent") /\ NoRow.status = "absent"
  BY <1>0, AbsentRow
<1>1. CASE Idle(e)
  BY <1>1, ApplyIdle
<1>2. ASSUME NEW S, S \subseteq e.nodes, Given(e) \in Status,
             Apply(t, e, L) = SetStatus(t, S, Given(e))
      PROVE  q.status = r.status \/ (n \in e.nodes /\ r # NoRow /\ q.status = Given(e))
  <2>1. q = IF n \in S /\ r # NoRow THEN [r EXCEPT !.status = Given(e)] ELSE r
    BY <1>2, SetStatusIs
  <2> HIDE DEF q
  <2>2. CASE n \in S /\ r # NoRow
    <3>1. r \in Row /\ q = [r EXCEPT !.status = Given(e)]
      BY <1>0, <2>1, <2>2
    <3>2. q.status = Given(e)
      BY <3>1, RowFields
    <3> QED
      BY <1>2, <2>2, <3>2
  <2>3. CASE ~(n \in S /\ r # NoRow)
    BY <2>1, <2>3
  <2> QED
    BY <2>2, <2>3
<1>3. CASE ~Idle(e) /\ e.type \in StatusTypes
  <2>1. Given(e) \in Status /\ Apply(t, e, L) = SetStatus(t, e.nodes, Given(e))
    BY <1>3, ApplyStatus
  <2>2. q.status = r.status \/ (n \in e.nodes /\ r # NoRow /\ q.status = Given(e))
    BY <1>2, <2>1
  <2> QED
    BY <1>3, <1>a, <2>2
<1>4. CASE e.type = "ITEM_RETURNED"
  <2> DEFINE S == {m \in e.nodes : <<e.wave, m>> \in L}
  <2>1. Given(e) \in Status /\ Apply(t, e, L) = SetStatus(t, S, Given(e))
    BY <1>4, ApplyReturned
  <2>2. S \subseteq e.nodes
    OBVIOUS
  <2> HIDE DEF S
  <2>3. q.status = r.status \/ (n \in e.nodes /\ r # NoRow /\ q.status = Given(e))
    BY <1>2, <2>1, <2>2
  <2> QED
    BY <1>1, <1>4, <1>a, <2>3
<1>5. CASE e.type \in {"JOB_CREATED", "PLAN_APPROVED", "JOB_DONE"}
  <2>1. Apply(t, e, L).node = t.node
    BY <1>5, ApplyOther DEF OnJobCreated, SetJob, Tables
  <2> QED
    BY <2>1
<1>6. CASE e.type = "NODE_ADDED"
  <2>1. q = IF n \in e.nodes /\ r = NoRow THEN NewRow(NoNode) ELSE r
    BY <1>6, ApplyOther DEF OnNodeAdded, Tables
  <2> QED
    BY <1>6, <1>a, <2>1 DEF NewRow
<1>7. CASE e.type = "FANOUT_RESOLVED"
  <2>1. q = IF n \notin e.nodes THEN r
            ELSE IF r = NoRow THEN NewRow(Template) ELSE [r EXCEPT !.parent = Template]
    BY <1>7, ApplyOther DEF OnFanoutResolved, Tables
  <2>2. r \in Row => [r EXCEPT !.parent = Template].status = r.status
    BY RowFields
  <2> HIDE DEF q, r
  <2> QED
    BY <1>0, <1>7, <1>a, <2>1, <2>2 DEF NewRow, q, r
<1>8. CASE e.type = "WAVE_FORMED"
  <2>1. q = IF n \in e.nodes /\ r # NoRow THEN [r EXCEPT !.wave = e.wave] ELSE r
    BY <1>8, ApplyOther, WaveFormedIs
  <2>2. r \in Row => [r EXCEPT !.wave = e.wave].status = r.status
    BY RowFields
  <2> HIDE DEF q, r
  <2>3. q.status = r.status
    BY <1>0, <2>1, <2>2
  <2> QED
    BY <2>3 DEF q, r
<1>9. CASE e.type = "WAVE_SUBMITTED"
  <2>1. q = IF n \in e.nodes /\ r # NoRow
            THEN [status |-> "SUBMITTED", parent |-> r.parent, wave |-> e.wave] ELSE r
    BY <1>9, ApplyOther, WaveSubmittedIs
  <2> QED
    BY <1>9, <2>1
<1>10. CASE e.type = "WAVE_COMPLETED"
  <2>1. Apply(t, e, L).node = t.node
    BY <1>10, ApplyOther, SetWaveIs DEF OnWaveCompleted, Event
  <2> QED
    BY <2>1
<1> QED
  BY <1>1, <1>3, <1>4, <1>5, <1>6, <1>7, <1>8, <1>9, <1>10, EventCases

\* A node of a wave that is submitted is SUBMITTED.
LEMMA StatusSubmitted ==
  ASSUME NEW t \in Tables, NEW e \in Event, NEW L, NEW n \in e.nodes, e.type = "WAVE_SUBMITTED",
         t.node[n].status # "absent"
  PROVE  Apply(t, e, L).node[n].status = "SUBMITTED"
<1>1. n \in Node
  BY DEF Event
<1>2. t.node[n] # NoRow
  BY AbsentRow
<1>3. Apply(t, e, L) = OnWaveSubmitted(t, e)
  BY ApplyOther
<1>4. OnWaveSubmitted(t, e).node[n] = [status |-> "SUBMITTED", parent |-> t.node[n].parent,
                                       wave |-> e.wave]
  BY <1>1, <1>2, WaveSubmittedIs
<1> QED
  BY <1>3, <1>4

\* The tables and the replay, a step later.
LEMMA StStep ==
  ASSUME TablesInv, [Next]_vars, NEW n \in Node
  PROVE  \/ St(n)' = St(n)
         \/ \E e \in Event :
              /\ Tells(e) \/ (Plans /\ e.type \in PlanTypes)
              /\ St(n)' = Apply(Replay(log, items), e, items).node[n].status
<1> USE DEF St
<1>0. log \in Seq(Event)
  BY DEF TablesInv, TypeInv
<1>1. ASSUME NEW e \in Event, Tells(e)
      PROVE  St(n)' = Apply(Replay(log, items), e, items).node[n].status
  <2>1. log' = Append(log, e) /\ items' = items
    BY <1>1 DEF Tells
  <2>2. Replay(log', items') = Apply(Replay(log, items), e, items)
    BY <1>0, <2>1, ReplayAppend
  <2> QED
    BY <2>2
<1>2. ASSUME NEW e \in Event, Mentions(e)
      PROVE  St(n)' = St(n)
  <2>1. log' = Append(log, e) /\ items' = items /\ e.type \in Silent
    BY <1>2 DEF Mentions
  <2>2. Replay(log', items') = Replay(log, items)
    BY <1>0, <2>1, SilentReplay
  <2> QED
    BY <2>2
<1>3. ASSUME NEW e \in Event, Plans, log' = Append(log, e)
      PROVE  St(n)' = Apply(Replay(log, items), e, items).node[n].status
  <2>1. items' = items
    BY <1>3 DEF Plans
  <2>2. Replay(log', items') = Apply(Replay(log, items), e, items)
    BY <1>0, <1>3, <2>1, ReplayAppend
  <2> QED
    BY <2>2
<1>4. CASE LinkItem
  <2>1. log' = log /\ items \subseteq items'
    BY <1>4 DEF LinkItem
  <2>2. Replay(log, items') = Replay(log, items)
    BY <2>1, LinksGrow DEF TablesInv
  <2> QED
    BY <2>1, <2>2
<1>5. CASE UNCHANGED <<log, items>>
  BY <1>5
<1> QED
  <2>1. CASE Plans
    BY <1>3, <2>1 DEF Plans
  <2> QED
    BY <1>1, <1>2, <1>4, <1>5, <2>1, StepKind DEF TablesInv, Quiet, Project, Resume, Doctor, vars

\* The tables move with the replay.
LEMMA TablesMove ==
  ASSUME TablesInv, [Next]_vars
  PROVE  tables' = tables \/ tables' = Replay(log, items)
<1>1. CASE Project
  BY <1>1, ProjectCompletes
<1>2. CASE Resume \/ Doctor
  BY <1>2 DEF Resume, Rebuilt, Doctor
<1> QED
  BY <1>1, <1>2, StepKind DEF TablesInv, Tells, Mentions, Plans, Quiet, LinkItem, vars

-----------------------------------------------------------------------------
(* What is judged is counted.                                              *)

\* Statuses of a node that was judged, and places after its count.
Judged == {"DONE", "NEEDS_HUMAN"}
CountedPcs == {"refuse", "giveup", "done"}

\* What the log, or the tables, say was judged is counted, and so is what is about to be.
JudgedInv ==
  /\ \A n \in Diff : St(n) \in Judged => stats[n] >= 1
  /\ \A n \in Diff : tables.node[n].status \in Judged => stats[n] >= 1
  /\ At \in CountedPcs => stats[node] >= 1

\* A step records one event.
LEMMA OneEvent ==
  ASSUME log \in Seq(Event), NEW e \in Event, log' = Append(log, e),
         NEW f, log' = Append(log, f)
  PROVE  e = f
<1>1. Len(log) \in Nat
  OBVIOUS
<1>2. \A S, x : log \in Seq(S) /\ x \in S => Append(log, x)[Len(log) + 1] = x
  BY ONLY <1>1
<1>3. log \in Seq(Event \cup {f})
  OBVIOUS
<1>4. Append(log, e)[Len(log) + 1] = e
  BY ONLY <1>2, log \in Seq(Event), e \in Event
<1>5. Append(log, f)[Len(log) + 1] = f
  BY ONLY <1>2, <1>3, f \in Event \cup {f}
<1> QED
  BY ONLY <1>4, <1>5, log' = Append(log, e), log' = Append(log, f)

\* NODE_STATE_CHANGED judges no node.
LEMMA ChangedIs ==
  ASSUME TypeInv, NEW e \in Event, log' = Append(log, e), Unharvest \/ StartVerify \/ ReEnqueue,
         e.type = "NODE_STATE_CHANGED"
  PROVE  /\ e.arg \notin Judged
         /\ Unharvest => /\ e.arg = "RE_ENQUEUED"
                         /\ \E m \in todo : e.nodes = {m} /\ todo' = todo \ {m}
         /\ StartVerify => e.nodes = {Check}
         /\ ReEnqueue => e.arg = "RE_ENQUEUED" /\ e.nodes = {node}
<1>0. log \in Seq(Event)
  BY DEF TypeInv
<1> USE DEF Judged
<1>1. CASE Unharvest
  <2>1. todo # {}
    <3>1. Append(log, e) # log
      BY <1>0
    <3> QED
      BY <1>1, <3>1 DEF Unharvest
  <2>2. PICK m : /\ m \in todo /\ todo' = todo \ {m}
                 /\ log' = Append(log, Ev("NODE_STATE_CHANGED", {m}, NoWave, "RE_ENQUEUED"))
    BY <1>1, <2>1 DEF Unharvest, Emit, Log, Record
  <2>3. e = Ev("NODE_STATE_CHANGED", {m}, NoWave, "RE_ENQUEUED")
    BY <1>0, <2>2, OneEvent
  <2>4. ~StartVerify /\ ~ReEnqueue
    BY <1>1 DEF Unharvest, StartVerify, Local, ReEnqueue
  <2> QED
    BY <2>2, <2>3, <2>4 DEF Ev
<1>2. CASE StartVerify
  <2>1. log' = Append(log, Ev("NODE_STATE_CHANGED", {Check}, NoWave, "EXECUTING_LOCAL"))
    BY <1>2 DEF StartVerify, Emit, Log, Record
  <2>2. e = Ev("NODE_STATE_CHANGED", {Check}, NoWave, "EXECUTING_LOCAL")
    BY <1>0, <2>1, OneEvent
  <2>3. ~Unharvest /\ ~ReEnqueue
    BY <1>2 DEF Unharvest, StartVerify, Local, ReEnqueue
  <2> QED
    BY <2>2, <2>3 DEF Ev
<1>3. CASE ReEnqueue
  <2>1. log' = Append(log, Ev("NODE_STATE_CHANGED", {node}, NoWave, "RE_ENQUEUED"))
    BY <1>3 DEF ReEnqueue, Emit, Log, Record
  <2>2. e = Ev("NODE_STATE_CHANGED", {node}, NoWave, "RE_ENQUEUED")
    BY <1>0, <2>1, OneEvent
  <2>3. ~Unharvest /\ ~StartVerify
    BY <1>3 DEF Unharvest, StartVerify, Local, ReEnqueue
  <2> QED
    BY <2>2, <2>3 DEF Ev
<1> QED
  BY <1>1, <1>2, <1>3

\* An event that judges a node comes after its count.
LEMMA JudgingEvent ==
  ASSUME TypeInv, NEW e \in Event, Tells(e), ~Idle(e),
         e.type \in StatusTypes \cup {"ITEM_RETURNED"}, Given(e) \in Judged,
         NEW n \in e.nodes, n \in Diff
  PROVE  n = node /\ pc \in CountedPcs
<1>1. e.type \in JudgeTypes \cup {"NODE_STATE_CHANGED"}
  BY DEF Given, Judged, StatusTypes, JudgeTypes
<1>2. e.type # "NODE_STATE_CHANGED"
  <2> SUFFICES ASSUME e.type = "NODE_STATE_CHANGED" PROVE FALSE
    OBVIOUS
  <2>1. Given(e) = e.arg
    BY DEF Given
  <2>2. log' = Append(log, e) /\ (Unharvest \/ StartVerify \/ ReEnqueue)
    BY DEF Tells, Writer
  <2> QED
    BY <2>1, <2>2, ChangedIs
<1>3. e.nodes \cap Diff = {} \/ (e.nodes = {node} /\ pc \in {"refuse", "giveup", "done"})
  BY <1>1, <1>2 DEF Tells, Writer
<1> QED
  BY <1>3 DEF CountedPcs

\* A count never falls.
LEMMA StatsGrow ==
  ASSUME RestInv, [Next]_vars, NEW n \in Diff
  PROVE  stats[n] \in Nat /\ stats'[n] \in Nat /\ stats'[n] >= stats[n]
<1>1. stats \in [Diff -> Nat]
  BY DEF RestInv
<1>2. CASE UNCHANGED stats
  BY <1>1, <1>2
<1>3. CASE stats' = [stats EXCEPT ![node] = @ + 1]
  <2>1. stats'[n] = IF n = node THEN stats[n] + 1 ELSE stats[n]
    BY <1>1, <1>3
  <2> QED
    BY <1>1, <2>1
<1> QED
  BY <1>2, <1>3, StatsKept

\* Nothing goes on to say what was counted but the step that counts.
LEMMA CountedMoves ==
  ASSUME HandInv, [Next]_vars, At' \in CountedPcs
  PROVE  \/ UNCHANGED vars \/ (At \in CountedPcs /\ node' = node)
         \/ stats' = [stats EXCEPT ![node] = @ + 1] /\ node' = node /\ node \in Diff
<1> USE DEF At, CountedPcs, HandInv, NodePcs, PutPcs, ItemPcs
<1>1. CASE Starting \/ Doctor \/ Crash \/ UNCHANGED vars
  BY <1>1 DEF Starting, CreateJob, Acquire, Resume, Project, Heartbeat, Record, Doctor, Crash,
              Leave, vars
<1>2. CASE Recovering
  BY <1>2 DEF Recovering, EnterLoop, Unharvest, TakeUp, Adopt, GiveUp, Emit, Log, Record
<1>3. CASE Looping
  BY <1>3 DEF Looping, MarkReady, FanOut, TemplateDone, StartVerify, FinishVerify, Local, Emit,
              Log, Record, NextIteration, FormWave, Harvest, Submit, CompleteWave, JobDone, Blocked,
              Leave
<1>4. CASE Storing
  BY <1>4 DEF Storing, PutBlob, WriteBlob, RenameBlob, ArtifactRow, NextBlob
<1>5. CASE Returning
  BY <1>5 DEF Returning, TakeItem, PutCall, LinkItem, ItemReturned, ReEnqueue, Emit, Log, Record
<1>6. CASE Judging
  BY <1>6 DEF Judging, RefuseItem, Refused, AcceptItem, AlreadyApplied, RecordIntent, Conflict,
              NeedsHuman, RecordApplied, DiffLands, CountApplied, CountItem, NodeDone, Emit, Log,
              Record
<1> QED
  BY <1>1, <1>2, <1>3, <1>4, <1>5, <1>6 DEF Next

\* Every step keeps what is judged counted.
LEMMA JudgedStep ==
  ASSUME StoreInv, JudgedInv, [Next]_vars
  PROVE  JudgedInv'
<1>0. TablesInv /\ TypeInv /\ HandInv /\ RestInv /\ log \in Seq(Event) /\ Diff \subseteq Node
  BY DEF StoreInv, TablesInv, TypeInv, Node
<1>r. Replay(log, items) \in Tables
  BY <1>0, ReplayType
<1>g. \A n \in Diff : stats[n] \in Nat /\ stats'[n] \in Nat /\ stats'[n] >= stats[n]
  BY <1>0, StatsGrow
<1>1. ASSUME NEW n \in Diff, St(n)' \in Judged
      PROVE  stats'[n] >= 1
  <2>1. CASE St(n)' = St(n)
    BY <1>1, <1>g, <2>1 DEF JudgedInv
  <2>2. ASSUME NEW e \in Event, Tells(e) \/ (Plans /\ e.type \in PlanTypes),
               St(n)' = Apply(Replay(log, items), e, items).node[n].status
        PROVE  stats'[n] >= 1
    <3>1. CASE St(n)' = Replay(log, items).node[n].status
      BY <1>1, <1>g, <3>1 DEF JudgedInv, St
    <3>2. CASE /\ e.type \in StatusTypes \cup {"ITEM_RETURNED"} /\ ~Idle(e) /\ n \in e.nodes
               /\ St(n)' = Given(e)
      <4>1. Tells(e)
        BY <2>2, <3>2 DEF PlanTypes, StatusTypes
      <4>2. n = node /\ pc \in CountedPcs
        BY <1>0, <1>1, <3>2, <4>1, JudgingEvent
      <4> QED
        BY <1>g, <4>2 DEF JudgedInv, At, CountedPcs
    <3>3. CASE St(n)' \in {"PENDING", "SUBMITTED"}
      BY <1>1, <3>3 DEF Judged
    <3> QED
      BY <1>0, <1>r, <2>2, <3>1, <3>2, <3>3, StatusAfter
  <2> QED
    BY <1>0, <2>1, <2>2, StStep
<1>2. ASSUME NEW n \in Diff, tables'.node[n].status \in Judged
      PROVE  stats'[n] >= 1
  <2>1. tables' = tables \/ tables' = Replay(log, items)
    BY <1>0, TablesMove
  <2> QED
    BY <1>2, <1>g, <2>1 DEF JudgedInv, St
<1>3. ASSUME At' \in CountedPcs
      PROVE  stats'[node'] >= 1
  <2>1. CASE UNCHANGED vars
    BY <1>3, <2>1 DEF JudgedInv, vars, At
  <2>2. CASE At \in CountedPcs /\ node' = node
    <3>1. node \in Diff
      BY <1>0, <2>2 DEF HandInv, NodePcs, ItemPcs, CountedPcs, At
    <3> QED
      BY <1>g, <2>2, <3>1 DEF JudgedInv
  <2>3. CASE stats' = [stats EXCEPT ![node] = @ + 1] /\ node' = node /\ node \in Diff
    <3>1. stats \in [Diff -> Nat]
      BY <1>0 DEF RestInv
    <3>2. stats'[node] = stats[node] + 1 /\ stats[node] \in Nat
      BY <2>3, <3>1
    <3> QED
      BY <2>3, <3>2
  <2> QED
    BY <1>0, <1>3, <2>1, <2>2, <2>3, CountedMoves
<1> QED
  BY <1>1, <1>2, <1>3 DEF JudgedInv

-----------------------------------------------------------------------------
(* What the driver has in hand before a wave is out is not judged yet.     *)

\* Statuses of a node with a row and before its wave, and places with such nodes in hand.
Live == {"PENDING", "READY", "HARVESTED", "RE_ENQUEUED"}
TodoPcs == {"loop", "fanout", "verify", "harvest"}

\* What the driver has in hand before a wave is submitted was not answered yet.
LiveInv ==
  /\ At \in TodoPcs => \A n \in todo \cap Diff : St(n) \in Live
  /\ At = "harvest" => \A n \in wave.items : St(n) \in Live
  /\ At = "unharvest" => \A n \in todo : St(n) = "HARVESTED"

\* How the driver gets nodes in hand before a wave is submitted.
LEMMA TodoMoves ==
  ASSUME HandInv, [Next]_vars
  PROVE  /\ At' \in TodoPcs => \/ At \in TodoPcs /\ todo' \subseteq todo
                               \/ pc = "top" /\ todo' = Frontier /\ UNCHANGED <<log, items>>
         /\ At' = "unharvest" => \/ /\ At = "unharvest"
                                    /\ Unharvest \/ UNCHANGED <<log, items, todo>>
                                 \/ pc = "waves" /\ UNCHANGED <<log, items>>
                                    /\ \A n \in todo' : tables.node[n].status = "HARVESTED"
         /\ At' = "harvest" => (At = "harvest" /\ wave' = wave) \/ FormWave
<1> USE DEF At, TodoPcs, HandInv, NodePcs, PutPcs, ItemPcs
<1>1. CASE Starting \/ Doctor \/ Crash \/ UNCHANGED vars
  BY <1>1 DEF Starting, CreateJob, Acquire, Resume, Project, Heartbeat, Record, Doctor, Crash,
              Leave, vars
<1>2. CASE Recovering
  BY <1>2 DEF Recovering, EnterLoop, Unharvest, TakeUp, Adopt, GiveUp, Emit, Log, Record
<1>3. CASE Looping
  BY <1>3 DEF Looping, MarkReady, FanOut, TemplateDone, StartVerify, FinishVerify, Local, Emit,
              Log, Record, NextIteration, FormWave, Harvest, Submit, CompleteWave, JobDone, Blocked,
              Leave
<1>4. CASE Storing
  BY <1>4 DEF Storing, PutBlob, WriteBlob, RenameBlob, ArtifactRow, NextBlob
<1>5. CASE Returning
  BY <1>5 DEF Returning, TakeItem, PutCall, LinkItem, ItemReturned, ReEnqueue, Emit, Log, Record
<1>6. CASE Judging
  BY <1>6 DEF Judging, RefuseItem, Refused, AcceptItem, AlreadyApplied, RecordIntent, Conflict,
              NeedsHuman, RecordApplied, DiffLands, CountApplied, CountItem, NodeDone, Emit, Log,
              Record
<1> QED
  BY <1>1, <1>2, <1>3, <1>4, <1>5, <1>6 DEF Next

\* Where the driver reads the tables they are the replay of the log.
LEMMA TablesAreRead ==
  ASSUME TablesInv, pc \notin Outside
  PROVE  tables = Replay(log, items)
BY DEF TablesInv, TablesAreTheLog, Outside

\* A node before its wave stays before its wave until the wave is submitted.
LEMMA LiveKept ==
  ASSUME StoreInv, [Next]_vars, At \in TodoPcs, At' \in TodoPcs, NEW n \in Diff, St(n) \in Live
  PROVE  St(n)' \in Live
<1>0. TablesInv /\ TypeInv /\ HandInv /\ log \in Seq(Event) /\ n \in Node
  BY DEF StoreInv, TablesInv, TypeInv, Node
<1>r. Replay(log, items) \in Tables
  BY <1>0, ReplayType
<1>1. ASSUME NEW e \in Event, Tells(e), ~Idle(e), n \in e.nodes,
             e.type \in StatusTypes \cup {"ITEM_RETURNED", "WAVE_SUBMITTED"}
      PROVE  e.type \in {"NODE_READY", "NODE_HARVESTED"}
  <2>0. pc \in TodoPcs
    BY <1>1 DEF At, Tells, Outside
  <2>1. e.type \notin JudgeTypes
    BY <1>1, <2>0 DEF Tells, Writer, TodoPcs
  <2>2. e.type # "NODE_STATE_CHANGED"
    <3> SUFFICES ASSUME e.type = "NODE_STATE_CHANGED" PROVE FALSE
      OBVIOUS
    <3>1. StartVerify
      BY <1>1, <2>0 DEF Tells, Writer, TodoPcs, Unharvest, ReEnqueue
    <3>2. e.nodes = {Check}
      BY <1>0, <1>1, <3>1, ChangedIs DEF Tells
    <3> QED
      BY <1>1, <3>2, StoreAssumption
  <2>3. e.type # "ARTIFACT_APPLIED"
    <3> SUFFICES ASSUME e.type = "ARTIFACT_APPLIED" PROVE FALSE
      OBVIOUS
    <3>1. LogInv
      BY <1>0 DEF LogInv
    <3>2. ~RecordApplied
      BY <2>0 DEF RecordApplied, TodoPcs
    <3>3. UNCHANGED log \/ \E f : f.type # "ARTIFACT_APPLIED" /\ log' = Append(log, f)
      BY <3>1, <3>2, OneWriter DEF Writes, Logs
    <3>4. log' = Append(log, e)
      BY <1>1 DEF Tells
    <3>5. log' # log
      BY <1>0, <3>4
    <3> QED
      BY <1>0, <3>3, <3>4, <3>5, OneEvent
  <2>4. e.type # "ITEM_RETURNED"
    BY <1>1, <2>0 DEF Tells, Writer, TodoPcs
  <2>5. e.type # "WAVE_SUBMITTED"
    <3> SUFFICES ASSUME e.type = "WAVE_SUBMITTED" PROVE FALSE
      OBVIOUS
    <3>1. FormWave \/ Submit \/ CompleteWave \/ \E w \in Logged("WAVE_FORMED") : Adopt(w)
      BY <1>1 DEF Tells, Writer, WaveTypes, WaveWrites
    <3>2. FormWave
      BY <1>0, <2>0, <3>1, SubmitIs DEF TodoPcs, CompleteWave, Adopt
    <3>3. PICK f \in Event : log' = Append(log, f) /\ f.type = "WAVE_FORMED"
      BY <1>0, <3>2, FormWaveIs
    <3>4. e = f
      BY <1>0, <1>1, <3>3, OneEvent DEF Tells
    <3> QED
      BY <3>3, <3>4
  <2> QED
    BY <1>1, <2>1, <2>2, <2>3, <2>4, <2>5 DEF StatusTypes, JudgeTypes
<1>2. ASSUME NEW e \in Event, Tells(e) \/ (Plans /\ e.type \in PlanTypes),
             St(n)' = Apply(Replay(log, items), e, items).node[n].status
      PROVE  St(n)' \in Live
  <2>1. CASE St(n)' = St(n)
    BY <2>1
  <2>2. CASE e.type \in StatusTypes \cup {"ITEM_RETURNED"} /\ ~Idle(e) /\ n \in e.nodes
             /\ St(n)' = Given(e)
    <3>1. e.type \in {"NODE_READY", "NODE_HARVESTED"}
      BY <1>1, <1>2, <2>2 DEF PlanTypes, StatusTypes
    <3> QED
      BY <2>2, <3>1 DEF Given, Live
  <2>3. CASE St(n)' = "PENDING"
    BY <2>3 DEF Live
  <2>4. CASE e.type = "WAVE_SUBMITTED" /\ n \in e.nodes
    BY <1>1, <1>2, <2>4 DEF PlanTypes, Idle, Silent
  <2> QED
    BY <1>0, <1>r, <1>2, <2>1, <2>2, <2>3, <2>4, StatusAfter DEF St
<1> QED
  BY <1>0, <1>2, StStep

\* Every step keeps what is in hand before its wave.
LEMMA LiveStep ==
  ASSUME StoreInv, LiveInv, [Next]_vars
  PROVE  LiveInv'
<1>0. TablesInv /\ TypeInv /\ HandInv /\ log \in Seq(Event) /\ Diff \subseteq Node
  BY DEF StoreInv, TablesInv, TypeInv, Node
<1>r. Replay(log, items) \in Tables
  BY <1>0, ReplayType
<1>1. ASSUME At' \in TodoPcs, NEW n \in todo' \cap Diff
      PROVE  St(n)' \in Live
  <2>1. CASE At \in TodoPcs /\ todo' \subseteq todo
    BY <1>1, <2>1, LiveKept DEF LiveInv
  <2>2. CASE pc = "top" /\ todo' = Frontier /\ UNCHANGED <<log, items>>
    <3>1. tables = Replay(log, items)
      BY <1>0, <2>2, TablesAreRead DEF Outside
    <3>2. tables.node[n].status \in Live
      BY <1>1, <2>2 DEF Frontier, Live
    <3> QED
      BY <2>2, <3>1, <3>2 DEF St
  <2> QED
    BY <1>0, <1>1, <2>1, <2>2, TodoMoves
<1>2. ASSUME At' = "harvest", NEW n \in wave'.items
      PROVE  St(n)' \in Live
  <2>1. CASE At = "harvest" /\ wave' = wave
    <3>1. n \in Diff
      BY <1>0, <1>2, <2>1 DEF TypeInv, WaveId
    <3> QED
      BY <1>2, <2>1, <3>1, LiveKept DEF LiveInv, TodoPcs
  <2>2. CASE FormWave
    <3>1. wave'.items = todo /\ At = "loop" /\ todo \subseteq Diff
      BY <1>0, <2>2, FormWaveIs DEF FormWave
    <3> QED
      BY <1>2, <3>1, LiveKept DEF LiveInv, TodoPcs
  <2> QED
    BY <1>0, <1>2, <2>1, <2>2, TodoMoves
<1>3. ASSUME At' = "unharvest", NEW n \in todo'
      PROVE  St(n)' = "HARVESTED"
  <2>1. CASE At = "unharvest" /\ UNCHANGED <<log, items, todo>>
    BY <1>3, <2>1 DEF LiveInv, St
  <2>2. CASE At = "unharvest" /\ Unharvest
    <3>1. CASE todo = {}
      BY <1>3, <2>2, <3>1 DEF Unharvest
    <3>2. CASE todo # {}
      <4>1. PICK m \in todo :
              /\ log' = Append(log, Ev("NODE_STATE_CHANGED", {m}, NoWave, "RE_ENQUEUED"))
              /\ todo' = todo \ {m} /\ items' = items
        BY <2>2, <3>2 DEF Unharvest, Emit, Log, Record
      <4>2. PICK e : e = Ev("NODE_STATE_CHANGED", {m}, NoWave, "RE_ENQUEUED")
        OBVIOUS
      <4>3. e.type = "NODE_STATE_CHANGED" /\ e.nodes = {m} /\ e \in Event
        <5>1. {m} \in SUBSET Node /\ NoWave \in WaveId
          BY <1>0, RowType DEF TypeInv
        <5> QED
          BY <4>2, <5>1 DEF Ev, Event, Told, Arg, Status
      <4>4. St(n)' = Apply(Replay(log, items), e, items).node[n].status
        BY <1>0, <4>1, <4>2, <4>3, ReplayAppend DEF St
      <4>5. n \in todo /\ n \notin e.nodes /\ n \in Node
        BY <1>0, <1>3, <4>1, <4>3 DEF TypeInv
      <4>6. St(n)' = St(n)
        BY <1>r, <4>3, <4>4, <4>5, StatusAfter DEF St
      <4> QED
        BY <2>2, <4>5, <4>6 DEF LiveInv
    <3> QED
      BY <3>1, <3>2
  <2>3. CASE pc = "waves" /\ UNCHANGED <<log, items>>
             /\ \A m \in todo' : tables.node[m].status = "HARVESTED"
    <3>1. tables = Replay(log, items)
      BY <1>0, <2>3, TablesAreRead DEF Outside
    <3> QED
      BY <1>3, <2>3, <3>1 DEF St
  <2> QED
    BY <1>0, <1>3, <2>1, <2>2, <2>3, TodoMoves
<1> QED
  BY <1>1, <1>2, <1>3 DEF LiveInv

-----------------------------------------------------------------------------
(* How often a node may still be counted.                                  *)

\* Statuses of a node before its wave.
Early == Live \cup {"absent"}

\* Waves formed and not submitted, but for the one about to be.
Pool == (Logged("WAVE_FORMED") \ Logged("WAVE_SUBMITTED"))
          \ (IF At = "harvest" THEN {wave} ELSE {})
PoolOf(n) == {w \in Pool : n \in w.items}

\* n is in a wave that is out and its item is not counted yet.
Awaits(n) ==
  IF At \in FetchPcs THEN n \in todo \/ (n = node /\ At \in NodePcs \ CountedPcs)
                     ELSE \E w \in InFlight : n \in w.items

\* The counts of a node, and those that may come without another crash.
Owed(n) ==
  stats[n] + (IF St(n) \in Early THEN 1 ELSE 0) + (IF Awaits(n) THEN 1 ELSE 0)
           + Cardinality(PoolOf(n))

\* A log has finitely many waves.
FormedIsFinite == IsFiniteSet(Logged("WAVE_FORMED"))

\* No node is owed more counts than one and one for every crash: a crash may leave a wave
\* behind that a reconciliation finds later, or an item counted and not judged.
OwedInv ==
  /\ FormedIsFinite
  /\ crashes \in Nat
  /\ \A n \in Diff : Owed(n) <= 1 + crashes

\* How the driver moves without a crash and beside the course of the waves.
LEMMA WaitMoves ==
  ASSUME HandInv, [Next]_vars, ~WaveWrites, ~Crash
  PROVE  /\ crashes' = crashes
         /\ At = "harvest" => At' = "harvest"
         /\ \/ At \notin FetchPcs /\ At' \notin FetchPcs
            \/ pc = "poll" /\ At' = "fetch" /\ todo' = wave.items
            \/ \E m \in Diff : TakeItem(m)
            \/ /\ At \in FetchPcs /\ At' \in FetchPcs /\ todo' = todo /\ node' = node
               /\ At' \in NodePcs \ CountedPcs => At \in NodePcs \ CountedPcs
<1> USE DEF At, FetchPcs, CountedPcs, HandInv, NodePcs, PutPcs, ItemPcs, WaveWrites
<1>1. CASE Starting \/ Doctor \/ Crash \/ UNCHANGED vars
  BY <1>1 DEF Starting, CreateJob, Acquire, Resume, Project, Heartbeat, Record, Doctor, Crash,
              Leave, vars
<1>2. CASE Recovering
  BY <1>2 DEF Recovering, EnterLoop, Unharvest, TakeUp, Adopt, GiveUp, Emit, Log, Record
<1>3. CASE Looping
  BY <1>3 DEF Looping, MarkReady, FanOut, TemplateDone, StartVerify, FinishVerify, Local, Emit,
              Log, Record, NextIteration, FormWave, Harvest, Submit, CompleteWave, JobDone, Blocked,
              Leave
<1>4. CASE Storing
  BY <1>4 DEF Storing, PutBlob, WriteBlob, RenameBlob, ArtifactRow, NextBlob
<1>5. CASE Returning
  BY <1>5 DEF Returning, TakeItem, PutCall, LinkItem, ItemReturned, ReEnqueue, Emit, Log, Record
<1>6. CASE Judging
  BY <1>6 DEF Judging, RefuseItem, Refused, AcceptItem, AlreadyApplied, RecordIntent, Conflict,
              NeedsHuman, RecordApplied, DiffLands, CountApplied, CountItem, NodeDone, Emit, Log,
              Record
<1> QED
  BY <1>1, <1>2, <1>3, <1>4, <1>5, <1>6 DEF Next

\* What a crash changes.
LEMMA CrashIs ==
  ASSUME Crash
  PROVE  /\ crashes' = crashes + 1 /\ At' = "down" /\ UNCHANGED <<log, items, stats>>
BY DEF Crash, Leave, At

\* Without a crash a node is awaited no longer than until its item is counted.
LEMMA AwaitsAside ==
  ASSUME StoreInv, [Next]_vars, ~WaveWrites, ~Crash, NEW n \in Diff
  PROVE  /\ Awaits(n)' => Awaits(n)
         /\ stats'[n] # stats[n] => stats'[n] = stats[n] + 1 /\ Awaits(n) /\ ~Awaits(n)'
         /\ ReEnqueue /\ n = node => Awaits(n) /\ ~Awaits(n)'
<1>0. TablesInv /\ TypeInv /\ HandInv /\ FlightInv /\ CallsInv /\ stats \in [Diff -> Nat]
  BY DEF StoreInv, TablesInv, RestInv
<1>1. InFlight' = InFlight
  BY <1>0, WaveWriters, AsideKeeps DEF TypeInv
<1>2. Awaits(n)' => Awaits(n)
  <2>1. CASE At \notin FetchPcs /\ At' \notin FetchPcs
    BY <1>1, <2>1 DEF Awaits
  <2>2. CASE pc = "poll" /\ At' = "fetch" /\ todo' = wave.items
    <3>1. At = "poll" /\ InFlight = {wave}
      BY <1>0, <2>2 DEF At, FlightInv, BusyPcs
    <3> QED
      BY <2>2, <3>1 DEF Awaits, FetchPcs, NodePcs, PutPcs, ItemPcs
  <2>3. ASSUME NEW m \in Diff, TakeItem(m)
        PROVE  Awaits(n)' => Awaits(n)
    <3>1. /\ At = "fetch" /\ At' \in FetchPcs /\ m \in todo /\ todo' = todo \ {m} /\ node' = m
      BY <2>3 DEF TakeItem, At, FetchPcs, NodePcs, PutPcs
    <3> QED
      BY <3>1 DEF Awaits, FetchPcs
  <2>4. CASE /\ At \in FetchPcs /\ At' \in FetchPcs /\ todo' = todo /\ node' = node
             /\ At' \in NodePcs \ CountedPcs => At \in NodePcs \ CountedPcs
    BY <2>4 DEF Awaits
  <2> QED
    BY <1>0, <2>1, <2>2, <2>3, <2>4, WaitMoves
<1>3. stats'[n] # stats[n] => stats'[n] = stats[n] + 1 /\ Awaits(n) /\ ~Awaits(n)'
  <2> SUFFICES ASSUME stats'[n] # stats[n]
               PROVE  stats'[n] = stats[n] + 1 /\ Awaits(n) /\ ~Awaits(n)'
    OBVIOUS
  <2>1. /\ stats' = [stats EXCEPT ![node] = @ + 1] /\ UNCHANGED <<log, node, todo, crashes>>
        /\ pc \in {"judge", "land", "apply", "count"} /\ pc' \in {"refuse", "giveup", "done"}
    BY StatsKept
  <2>2. n = node /\ stats'[n] = stats[n] + 1
    BY <1>0, <2>1
  <2>3. At \in NodePcs \ CountedPcs /\ At' \in CountedPcs /\ At' \in FetchPcs /\ At \in FetchPcs
    BY <2>1 DEF At, NodePcs, CountedPcs, ItemPcs, FetchPcs
  <2>4. n \notin todo'
    BY <1>0, <2>1, <2>2, <2>3 DEF CallsInv
  <2> QED
    BY <2>2, <2>3, <2>4 DEF Awaits
<1>4. ReEnqueue /\ n = node => Awaits(n) /\ ~Awaits(n)'
  <2> SUFFICES ASSUME ReEnqueue, n = node
               PROVE  Awaits(n) /\ ~Awaits(n)'
    OBVIOUS
  <2>1. At = "requeue" /\ At' = "fetch" /\ todo' = todo
    BY DEF ReEnqueue, Emit, Log, At
  <2>2. At \in NodePcs \ CountedPcs /\ At \in FetchPcs /\ At' \in FetchPcs /\ At' \notin NodePcs
    BY <2>1 DEF NodePcs, CountedPcs, ItemPcs, PutPcs, FetchPcs
  <2>3. n \notin todo
    BY <1>0, <2>2 DEF CallsInv
  <2> QED
    BY <2>1, <2>2, <2>3 DEF Awaits
<1> QED
  BY <1>2, <1>3, <1>4

\* A node goes back before its wave only when its item failed.
LEMMA EarlyAside ==
  ASSUME StoreInv, LiveInv, [Next]_vars, ~WaveWrites, NEW n \in Diff, St(n)' \in Early
  PROVE  St(n) \in Early \/ (ReEnqueue /\ n = node)
<1>0. TablesInv /\ TypeInv /\ HandInv /\ log \in Seq(Event) /\ n \in Node
  BY DEF StoreInv, TablesInv, TypeInv, Node
<1>r. Replay(log, items) \in Tables
  BY <1>0, ReplayType
<1>1. ASSUME NEW e \in Event, Tells(e), n \in e.nodes, Given(e) \in Early,
             e.type \in StatusTypes \cup {"ITEM_RETURNED"}
      PROVE  St(n) \in Early \/ (ReEnqueue /\ n = node)
  <2>0. log' = Append(log, e)
    BY <1>1 DEF Tells
  <2>1. e.type \in {"NODE_READY", "NODE_HARVESTED", "NODE_STATE_CHANGED"}
    BY <1>1 DEF StatusTypes, Given, Early, Live
  <2>2. CASE e.type = "NODE_READY"
    <3>1. MarkReady
      BY <1>1, <2>2 DEF Tells, Writer
    <3>2. PICK m \in todo : /\ tables.node[m].status = "PENDING"
                            /\ log' = Append(log, NodeEv("NODE_READY", m))
      BY <3>1 DEF MarkReady, Emit, Log, Record
    <3>3. e = NodeEv("NODE_READY", m)
      BY <1>0, <2>0, <3>2, OneEvent
    <3>4. n = m
      BY <1>1, <3>3 DEF NodeEv, Ev
    <3>5. tables = Replay(log, items)
      BY <1>0, <3>1, TablesAreRead DEF MarkReady, Outside
    <3> QED
      BY <3>2, <3>4, <3>5 DEF St, Early, Live
  <2>3. CASE e.type = "NODE_HARVESTED"
    <3>1. Harvest
      BY <1>1, <2>3 DEF Tells, Writer
    <3>2. PICK m \in todo : log' = Append(log, NodeEv("NODE_HARVESTED", m))
      BY <3>1 DEF Harvest, Emit, Log, Record
    <3>3. e = NodeEv("NODE_HARVESTED", m)
      BY <1>0, <2>0, <3>2, OneEvent
    <3>4. n = m
      BY <1>1, <3>3 DEF NodeEv, Ev
    <3>5. At = "harvest"
      BY <3>1 DEF Harvest, At
    <3> QED
      BY <3>4, <3>5 DEF LiveInv, TodoPcs, Early
  <2>4. CASE e.type = "NODE_STATE_CHANGED"
    <3>1. Unharvest \/ StartVerify \/ ReEnqueue
      BY <1>1, <2>4 DEF Tells, Writer
    <3>2. CASE Unharvest
      <4>1. n \in todo
        BY <1>0, <1>1, <2>0, <2>4, <3>2, ChangedIs
      <4>2. At = "unharvest"
        BY <3>2 DEF Unharvest, At
      <4> QED
        BY <4>1, <4>2 DEF LiveInv, Early, Live
    <3>3. CASE StartVerify
      <4>1. n = Check
        BY <1>0, <1>1, <2>0, <2>4, <3>3, ChangedIs
      <4> QED
        BY <4>1, StoreAssumption
    <3>4. CASE ReEnqueue
      BY <1>0, <1>1, <2>0, <2>4, <3>4, ChangedIs
    <3> QED
      BY <3>1, <3>2, <3>3, <3>4
  <2> QED
    BY <2>1, <2>2, <2>3, <2>4
<1>2. ASSUME NEW e \in Event, Tells(e) \/ (Plans /\ e.type \in PlanTypes),
             St(n)' = Apply(Replay(log, items), e, items).node[n].status
      PROVE  St(n) \in Early \/ (ReEnqueue /\ n = node)
  <2>1. CASE St(n)' = St(n)
    BY <2>1
  <2>2. CASE e.type \in StatusTypes \cup {"ITEM_RETURNED"} /\ ~Idle(e) /\ n \in e.nodes
             /\ St(n)' = Given(e)
    BY <1>1, <1>2, <2>2 DEF PlanTypes, StatusTypes
  <2>3. CASE St(n) = "absent"
    BY <2>3 DEF Early
  <2>4. CASE St(n)' = "SUBMITTED"
    BY <2>4 DEF Early, Live
  <2> QED
    BY <1>0, <1>r, <1>2, <2>1, <2>2, <2>3, <2>4, StatusAfter DEF St
<1> QED
  BY <1>0, <1>2, StStep

\* A sum whose parts are known.
OwedSum ==
  \A n \in Diff :
    /\ stats[n] \in Nat /\ Cardinality(PoolOf(n)) \in Nat /\ IsFiniteSet(PoolOf(n))
    /\ \A a, b \in {0, 1} : ((St(n) \in Early) <=> a = 1) /\ (Awaits(n) <=> b = 1)
                            => Owed(n) = stats[n] + a + b + Cardinality(PoolOf(n))

\* What is owed is the sum of four numbers.
LEMMA OwedIs == StoreInv /\ FormedIsFinite => OwedSum
<1> SUFFICES ASSUME StoreInv, FormedIsFinite, NEW n \in Diff
             PROVE  /\ stats[n] \in Nat /\ Cardinality(PoolOf(n)) \in Nat /\ IsFiniteSet(PoolOf(n))
                    /\ \A a, b \in {0, 1} : ((St(n) \in Early) <=> a = 1) /\ (Awaits(n) <=> b = 1)
                                  => Owed(n) = stats[n] + a + b + Cardinality(PoolOf(n))
  BY DEF OwedSum
<1>1. PoolOf(n) \in SUBSET Logged("WAVE_FORMED")
  BY DEF PoolOf, Pool
<1>2. IsFiniteSet(PoolOf(n)) /\ Cardinality(PoolOf(n)) \in Nat
  BY <1>1, FS_Subset, FS_CardinalityType DEF FormedIsFinite
<1>3. stats[n] \in Nat
  BY DEF StoreInv, RestInv
<1>4. ASSUME NEW a \in {0, 1}, NEW b \in {0, 1}, (St(n) \in Early) <=> a = 1, Awaits(n) <=> b = 1
      PROVE  Owed(n) = stats[n] + a + b + Cardinality(PoolOf(n))
  <2>1. a = IF St(n) \in Early THEN 1 ELSE 0
    BY <1>4
  <2>2. b = IF Awaits(n) THEN 1 ELSE 0
    BY <1>4
  <2> QED
    BY <2>1, <2>2 DEF Owed
<1> QED
  BY <1>2, <1>3, <1>4

\* The waves that were formed stay finite.
LEMMA FormedStep ==
  ASSUME TypeInv, HandInv, [Next]_vars, FormedIsFinite
  PROVE  FormedIsFinite'
<1> USE DEF FormedIsFinite
<1>1. CASE UNCHANGED log
  BY <1>1 DEF Logged
<1>2. ASSUME NEW e \in Event, log' = Append(log, e)
      PROVE  FormedIsFinite'
  <2>1. Logged("WAVE_FORMED")'
          = Logged("WAVE_FORMED") \cup (IF e.type = "WAVE_FORMED" THEN {e.wave} ELSE {})
    BY <1>2, LoggedGrows DEF TypeInv
  <2>2. IsFiniteSet(Logged("WAVE_FORMED") \cup {e.wave})
    BY FS_AddElement
  <2> QED
    BY <2>1, <2>2
<1> QED
  BY <1>1, <1>2, StepKind DEF Tells, Mentions, Plans, Quiet, Project, Resume, Doctor, LinkItem, vars

\* A step that takes no crash owes no more than it did.
LEMMA OwedAside ==
  ASSUME StoreInv, LiveInv, OwedSum, OwedSum', [Next]_vars,
         ~WaveWrites, ~Crash, NEW n \in Diff
  PROVE  Owed(n)' <= Owed(n) /\ crashes' = crashes
<1>0. TypeInv /\ HandInv
  BY DEF StoreInv, TablesInv
<1>1. PoolOf(n)' = PoolOf(n)
  <2>1. /\ Logged("WAVE_FORMED")' = Logged("WAVE_FORMED")
        /\ Logged("WAVE_SUBMITTED")' = Logged("WAVE_SUBMITTED")
    BY <1>0, WaveWriters, AsideKeeps DEF TypeInv, WaveTypes
  <2>2. At' = "harvest" => At = "harvest" /\ wave' = wave
    BY <1>0, Moves
  <2>3. At = "harvest" => At' = "harvest"
    BY <1>0, WaitMoves
  <2> QED
    BY <2>1, <2>2, <2>3 DEF PoolOf, Pool
<1>2. /\ Awaits(n)' => Awaits(n)
      /\ stats'[n] # stats[n] => stats'[n] = stats[n] + 1 /\ Awaits(n) /\ ~Awaits(n)'
      /\ ReEnqueue /\ n = node => Awaits(n) /\ ~Awaits(n)'
  BY AwaitsAside
<1>3. St(n)' \in Early => St(n) \in Early \/ (ReEnqueue /\ n = node)
  BY EarlyAside
<1>4. ReEnqueue => stats' = stats
  BY DEF ReEnqueue, Emit, Log
<1>5. crashes' = crashes
  BY <1>0, WaitMoves
<1>6. PICK a \in {0, 1}, b \in {0, 1}, a1 \in {0, 1}, b1 \in {0, 1} :
        /\ (St(n) \in Early) <=> a = 1
        /\ Awaits(n) <=> b = 1
        /\ (St(n)' \in Early) <=> a1 = 1
        /\ Awaits(n)' <=> b1 = 1
  OBVIOUS
<1>7. /\ Owed(n) = stats[n] + a + b + Cardinality(PoolOf(n))
      /\ stats[n] \in Nat /\ Cardinality(PoolOf(n)) \in Nat
  BY <1>6 DEF OwedSum
<1>8. stats'[n] \in Nat /\ Owed(n)' = stats'[n] + a1 + b1 + Cardinality(PoolOf(n)')
  BY <1>6 DEF OwedSum
<1>9. \/ stats'[n] = stats[n] /\ a1 <= a /\ b1 <= b
      \/ stats'[n] = stats[n] + 1 /\ a1 <= a /\ b = 1 /\ b1 = 0
      \/ stats'[n] = stats[n] /\ b = 1 /\ b1 = 0
  BY <1>2, <1>3, <1>4, <1>6
<1> QED
  BY <1>1, <1>5, <1>7, <1>8, <1>9

\* A crash adds at most one to what is owed.
LEMMA OwedCrash ==
  ASSUME StoreInv, OwedSum, OwedSum', Crash, NEW n \in Diff
  PROVE  Owed(n)' <= Owed(n) + 1 /\ crashes' = crashes + 1
<1>0. /\ crashes' = crashes + 1 /\ At' = "down" /\ UNCHANGED <<log, items, stats>>
  BY CrashIs
<1>1. St(n)' = St(n) /\ InFlight' = InFlight
  BY <1>0 DEF St, InFlight, Logged
<1>2. PoolOf(n)' = PoolOf(n) \/ (At = "harvest" /\ PoolOf(n)' \subseteq PoolOf(n) \cup {wave})
  BY <1>0 DEF PoolOf, Pool, Logged
<1>3. At = "harvest" => ~Awaits(n)'
  BY <1>0, <1>1 DEF StoreInv, FlightInv, FreePcs, LoopPcs, Awaits, FetchPcs, NodePcs, PutPcs,
                    ItemPcs
<1>6. PICK a \in {0, 1}, b \in {0, 1}, b1 \in {0, 1} :
        /\ (St(n) \in Early) <=> a = 1
        /\ Awaits(n) <=> b = 1
        /\ Awaits(n)' <=> b1 = 1
  OBVIOUS
<1>7. /\ stats[n] \in Nat /\ Owed(n) = stats[n] + a + b + Cardinality(PoolOf(n))
      /\ Cardinality(PoolOf(n)) \in Nat /\ IsFiniteSet(PoolOf(n))
  BY <1>6 DEF OwedSum
<1>8. Owed(n)' = stats'[n] + a + b1 + Cardinality(PoolOf(n)') /\ Cardinality(PoolOf(n)') \in Nat
  BY <1>1, <1>6 DEF OwedSum
<1>9. \/ Cardinality(PoolOf(n)') = Cardinality(PoolOf(n))
      \/ b1 = 0 /\ Cardinality(PoolOf(n)') <= Cardinality(PoolOf(n)) + 1
  <2>1. CASE PoolOf(n)' = PoolOf(n)
    BY <2>1
  <2>2. CASE At = "harvest" /\ PoolOf(n)' \subseteq PoolOf(n) \cup {wave}
    <3>1. /\ IsFiniteSet(PoolOf(n) \cup {wave})
          /\ Cardinality(PoolOf(n) \cup {wave}) <= Cardinality(PoolOf(n)) + 1
          /\ Cardinality(PoolOf(n) \cup {wave}) \in Nat
      <4>1. PICK S : S = PoolOf(n)
        OBVIOUS
      <4>2. IsFiniteSet(S) /\ Cardinality(S) \in Nat
        BY <1>7, <4>1
      <4>3. /\ IsFiniteSet(S \cup {wave})
            /\ Cardinality(S \cup {wave})
                 = IF wave \in S THEN Cardinality(S) ELSE Cardinality(S) + 1
        BY <4>2, FS_AddElement
      <4>4. /\ Cardinality(S \cup {wave}) <= Cardinality(S) + 1
            /\ Cardinality(S \cup {wave}) \in Nat
        BY <4>2, <4>3
      <4> QED
        BY <4>1, <4>3, <4>4
    <3>2. Cardinality(PoolOf(n)') <= Cardinality(PoolOf(n) \cup {wave})
      BY <2>2, <3>1, FS_Subset
    <3> QED
      BY <1>3, <1>6, <1>7, <1>8, <2>2, <3>1, <3>2
  <2> QED
    BY <1>2, <2>1, <2>2
<1> QED
  BY <1>0, <1>7, <1>8, <1>9

\* What the events of the waves make of the status of a node.
LEMMA StWave ==
  ASSUME StoreInv, NEW e \in Event, log' = Append(log, e), items' = items, e.type \in WaveTypes,
         NEW n \in Diff
  PROVE  \/ St(n)' = St(n)
         \/ e.type = "WAVE_SUBMITTED" /\ n \in e.nodes /\ St(n)' = "SUBMITTED"
<1>0. log \in Seq(Event) /\ n \in Node
  BY DEF StoreInv, TablesInv, TypeInv, Node
<1>1. St(n)' = Apply(Replay(log, items), e, items).node[n].status
  BY <1>0, ReplayAppend DEF St
<1>2. Replay(log, items) \in Tables
  BY <1>0, ReplayType
<1> QED
  BY <1>0, <1>1, <1>2, StatusAfter DEF St, WaveTypes, StatusTypes

\* A wave that is formed, submitted, adopted or completed adds nothing to what is owed: the
\* node leaves its status, or the pool, for the wave in flight.
LEMMA OwedWaves ==
  ASSUME StoreInv, LiveInv, OwedSum, OwedSum', WaveWrites,
         NEW n \in Diff
  PROVE  Owed(n)' <= Owed(n) /\ crashes' = crashes
<1>0. TypeInv /\ HandInv /\ log \in Seq(Event) /\ FlightInv /\ OrdInv /\ CallsInv
  BY DEF StoreInv, TablesInv, TypeInv
<1>u. UNCHANGED <<stats, items, crashes>>
  BY DEF WaveWrites, FormWave, Submit, CompleteWave, Adopt, Emit, Log
<1>6. PICK a \in {0, 1}, b \in {0, 1}, a1 \in {0, 1}, b1 \in {0, 1} :
        /\ (St(n) \in Early) <=> a = 1
        /\ Awaits(n) <=> b = 1
        /\ (St(n)' \in Early) <=> a1 = 1
        /\ Awaits(n)' <=> b1 = 1
  OBVIOUS
<1>7. /\ stats[n] \in Nat /\ Owed(n) = stats[n] + a + b + Cardinality(PoolOf(n))
      /\ Cardinality(PoolOf(n)) \in Nat /\ IsFiniteSet(PoolOf(n))
  BY <1>6 DEF OwedSum
<1>8. /\ stats'[n] \in Nat /\ Owed(n)' = stats'[n] + a1 + b1 + Cardinality(PoolOf(n)')
      /\ Cardinality(PoolOf(n)') \in Nat
  BY <1>6 DEF OwedSum
<1> SUFFICES a1 + b1 + Cardinality(PoolOf(n)') <= a + b + Cardinality(PoolOf(n))
  BY <1>u, <1>7, <1>8
<1> USE DEF FetchPcs, NodePcs, PutPcs, ItemPcs, BusyPcs, FreePcs, LoopPcs
<1>2. ASSUME PoolOf(n)' \subseteq PoolOf(n)
      PROVE  Cardinality(PoolOf(n)') <= Cardinality(PoolOf(n))
  BY <1>2, <1>7, FS_Subset
<1>3. CASE FormWave
  <2>1. PICK e \in Event : /\ log' = Append(log, e) /\ e.type = "WAVE_FORMED" /\ e.wave = wave'
                           /\ At = "loop" /\ At' = "harvest"
    BY <1>0, <1>3, FormWaveIs
  <2>2. \A type : Logged(type)' = Logged(type) \cup (IF e.type = type THEN {e.wave} ELSE {})
    BY <1>0, <2>1, LoggedGrows
  <2>3. /\ Logged("WAVE_FORMED")' = Logged("WAVE_FORMED") \cup {wave'}
        /\ Logged("WAVE_SUBMITTED")' = Logged("WAVE_SUBMITTED")
        /\ Logged("WAVE_COMPLETED")' = Logged("WAVE_COMPLETED")
    BY <2>1, <2>2
  <2>4. PoolOf(n)' \subseteq PoolOf(n)
    BY <2>1, <2>3 DEF PoolOf, Pool
  <2>5. St(n)' = St(n)
    BY <1>u, <2>1, StWave DEF WaveTypes
  <2>6. Awaits(n)' <=> Awaits(n)
    BY <2>1, <2>3 DEF Awaits, InFlight
  <2> QED
    BY <1>2, <1>6, <1>7, <1>8, <2>4, <2>5, <2>6
<1>4. CASE CompleteWave
  <2>1. PICK e \in Event : /\ log' = Append(log, e) /\ e.type = "WAVE_COMPLETED" /\ e.wave = wave
                           /\ At = "fetch" /\ At' = "waves" /\ todo = {}
    BY <1>0, <1>4, CompleteWaveIs
  <2>2. \A type : Logged(type)' = Logged(type) \cup (IF e.type = type THEN {e.wave} ELSE {})
    BY <1>0, <2>1, LoggedGrows
  <2>3. /\ Logged("WAVE_FORMED")' = Logged("WAVE_FORMED")
        /\ Logged("WAVE_SUBMITTED")' = Logged("WAVE_SUBMITTED")
        /\ Logged("WAVE_COMPLETED")' = Logged("WAVE_COMPLETED") \cup {wave}
    BY <2>1, <2>2
  <2>4. PoolOf(n)' \subseteq PoolOf(n)
    BY <2>1, <2>3 DEF PoolOf, Pool
  <2>5. St(n)' = St(n)
    BY <1>u, <2>1, StWave DEF WaveTypes
  <2>6. InFlight' = {}
    BY <1>0, <2>1, <2>3 DEF FlightInv, InFlight
  <2>7. ~Awaits(n)'
    BY <2>1, <2>6 DEF Awaits
  <2> QED
    BY <1>2, <1>6, <1>7, <1>8, <2>4, <2>5, <2>7
<1>5. CASE Submit
  <2>1. PICK e \in Event : /\ log' = Append(log, e) /\ e.type = "WAVE_SUBMITTED" /\ e.wave = wave
                           /\ e.nodes = wave.items
                           /\ At = "harvest" /\ At' = "poll" /\ wave' = wave
    BY <1>0, <1>5, SubmitIs
  <2>2. \A type : Logged(type)' = Logged(type) \cup (IF e.type = type THEN {e.wave} ELSE {})
    BY <1>0, <2>1, LoggedGrows
  <2>3. /\ Logged("WAVE_FORMED")' = Logged("WAVE_FORMED")
        /\ Logged("WAVE_SUBMITTED")' = Logged("WAVE_SUBMITTED") \cup {wave}
        /\ Logged("WAVE_COMPLETED")' = Logged("WAVE_COMPLETED")
    BY <2>1, <2>2
  <2>4. PoolOf(n)' \subseteq PoolOf(n)
    BY <2>1, <2>3 DEF PoolOf, Pool
  <2>5. InFlight = {} /\ InFlight' \subseteq {wave}
    BY <1>0, <2>1, <2>3 DEF FlightInv, InFlight
  <2>6. Awaits(n)' => n \in wave.items
    BY <2>1, <2>5 DEF Awaits
  <2>7. CASE n \in wave.items
    <3>1. St(n) \in Live
      BY <2>1, <2>7 DEF LiveInv
    <3>2. Replay(log, items) \in Tables /\ n \in e.nodes
      BY <1>0, <2>1, <2>7, ReplayType
    <3>3. Replay(log, items).node[n].status # "absent"
      BY <3>1 DEF St, Live
    <3>4. Apply(Replay(log, items), e, items).node[n].status = "SUBMITTED"
      BY <2>1, <3>2, <3>3, StatusSubmitted
    <3>5. St(n)' = "SUBMITTED"
      BY <1>0, <1>u, <2>1, <3>4, ReplayAppend DEF St
    <3>6. a1 = 0 /\ a = 1
      BY <1>6, <3>1, <3>5 DEF Early, Live
    <3> QED
      BY <1>2, <1>7, <1>8, <2>4, <3>6
  <2>8. CASE n \notin wave.items
    <3>1. St(n)' = St(n)
      BY <1>u, <2>1, <2>8, StWave DEF WaveTypes
    <3>2. a1 = a /\ b1 = 0
      BY <1>6, <2>6, <2>8, <3>1
    <3> QED
      BY <1>2, <1>7, <1>8, <2>4, <3>2
  <2> QED
    BY <2>7, <2>8
<1>9. ASSUME NEW w \in Logged("WAVE_FORMED"), Adopt(w)
      PROVE  a1 + b1 + Cardinality(PoolOf(n)') <= a + b + Cardinality(PoolOf(n))
  <2>1. PICK e \in Event : /\ log' = Append(log, e) /\ e.type = "WAVE_SUBMITTED" /\ e.wave = w
                           /\ e.nodes = w.items
                           /\ At = "waves" /\ At' = "waves" /\ InFlight = {} /\ w \in recon
    BY <1>0, <1>9, AdoptIs
  <2>2. \A type : Logged(type)' = Logged(type) \cup (IF e.type = type THEN {e.wave} ELSE {})
    BY <1>0, <2>1, LoggedGrows
  <2>3. /\ Logged("WAVE_FORMED")' = Logged("WAVE_FORMED")
        /\ Logged("WAVE_SUBMITTED")' = Logged("WAVE_SUBMITTED") \cup {w}
        /\ Logged("WAVE_COMPLETED")' = Logged("WAVE_COMPLETED")
    BY <2>1, <2>2
  <2>4. PoolOf(n)' = PoolOf(n) \ {w}
    BY <2>1, <2>3 DEF PoolOf, Pool
  <2>5. InFlight' \subseteq {w}
    BY <2>1, <2>3 DEF InFlight
  <2>6. Awaits(n)' => n \in w.items
    BY <2>1, <2>5 DEF Awaits
  <2>7. a1 <= a
    <3>1. St(n)' = St(n) \/ St(n)' = "SUBMITTED"
      BY <1>u, <2>1, StWave DEF WaveTypes
    <3> QED
      BY <1>6, <3>1 DEF Early, Live
  <2>8. CASE n \in w.items
    <3>1. w \in PoolOf(n)
      BY <1>0, <2>1, <2>8 DEF PoolOf, Pool, OrdInv
    <3>2. Cardinality(PoolOf(n)') = Cardinality(PoolOf(n)) - 1
      BY <1>7, <2>4, <3>1, FS_RemoveElement
    <3> QED
      BY <1>7, <1>8, <2>7, <3>2
  <2>9. CASE n \notin w.items
    <3>1. b1 = 0
      BY <1>6, <2>6, <2>9
    <3> QED
      BY <1>2, <1>7, <1>8, <2>4, <2>7, <3>1
  <2> QED
    BY <2>8, <2>9
<1> QED
  BY <1>3, <1>4, <1>5, <1>9 DEF WaveWrites

\* The inductive invariant behind JudgedIsCounted.
CountInv == StoreInv /\ JudgedInv /\ LiveInv /\ OwedInv

\* The invariant holds at the start.
LEMMA CountInit == Init => CountInv
<1> SUFFICES ASSUME Init PROVE CountInv
  OBVIOUS
<1>1. StoreInv
  BY StoreInit
<1>2. log = <<>> /\ \A type : Logged(type) = {}
  BY DEF Init, Logged
<1>3. Diff \subseteq Node /\ \A n \in Node : St(n) = "absent" /\ tables.node[n].status = "absent"
  BY <1>2, ReplayEmpty DEF St, Init, NoTables, NoRow, Node
<1>4. JudgedInv
  BY <1>3 DEF JudgedInv, Judged, Init, At, CountedPcs
<1>5. At = "create"
  BY DEF At, Init
<1>6. LiveInv
  BY <1>5 DEF LiveInv, TodoPcs
<1>7. FormedIsFinite /\ crashes = 0
  BY <1>2, FS_EmptySet DEF Init, FormedIsFinite
<1>8. ASSUME NEW n \in Diff
      PROVE  Owed(n) <= 1
  <2>1. St(n) \in Early
    BY <1>3 DEF Early
  <2>2. ~Awaits(n)
    BY <1>2, <1>5 DEF Awaits, FetchPcs, NodePcs, PutPcs, ItemPcs, InFlight
  <2>3. PoolOf(n) = {}
    BY <1>2 DEF PoolOf, Pool
  <2>4. Cardinality(PoolOf(n)) = 0 /\ stats[n] = 0
    BY <2>3, FS_EmptySet DEF Init
  <2> QED
    BY <2>1, <2>2, <2>4 DEF Owed
<1> QED
  BY <1>1, <1>4, <1>6, <1>7, <1>8 DEF CountInv, OwedInv

\* Every step keeps the invariant.
LEMMA CountStep == CountInv /\ [Next]_vars => CountInv'
<1> SUFFICES ASSUME CountInv, [Next]_vars PROVE CountInv'
  OBVIOUS
<1> USE DEF CountInv
<1>0. TypeInv /\ HandInv
  BY DEF StoreInv, TablesInv
<1>1. StoreInv'
  BY StoreStep
<1>2. JudgedInv' /\ LiveInv'
  BY JudgedStep, LiveStep
<1>3. FormedIsFinite /\ FormedIsFinite'
  BY <1>0, FormedStep DEF OwedInv
<1>s. OwedSum /\ OwedSum'
  BY <1>1, <1>3, OwedIs, PTL
<1>4. ASSUME NEW n \in Diff
      PROVE  Owed(n)' <= 1 + crashes' /\ crashes' \in Nat
  <2>0. Owed(n) <= 1 + crashes /\ crashes \in Nat
    BY DEF OwedInv
  <2>1. Owed(n) \in Nat /\ Owed(n)' \in Nat
    <3>1. PICK a \in {0, 1}, b \in {0, 1}, a1 \in {0, 1}, b1 \in {0, 1} :
            /\ (St(n) \in Early) <=> a = 1
            /\ Awaits(n) <=> b = 1
            /\ (St(n)' \in Early) <=> a1 = 1
            /\ Awaits(n)' <=> b1 = 1
      OBVIOUS
    <3>2. /\ Owed(n) = stats[n] + a + b + Cardinality(PoolOf(n))
          /\ stats[n] \in Nat /\ Cardinality(PoolOf(n)) \in Nat
      BY <1>s, <3>1 DEF OwedSum
    <3>3. /\ stats'[n] \in Nat /\ Owed(n)' = stats'[n] + a1 + b1 + Cardinality(PoolOf(n)')
          /\ Cardinality(PoolOf(n)') \in Nat
      BY <1>s, <3>1 DEF OwedSum
    <3> QED
      BY <3>2, <3>3
  <2>2. CASE Crash
    BY <1>s, <2>0, <2>1, <2>2, OwedCrash
  <2>3. CASE WaveWrites
    BY <1>s, <2>0, <2>1, <2>3, OwedWaves
  <2>4. CASE ~WaveWrites /\ ~Crash
    BY <1>s, <2>0, <2>1, <2>4, OwedAside
  <2> QED
    BY <2>2, <2>3, <2>4
<1>5. crashes' \in Nat
  <2>1. CASE Crash
    BY <2>1, CrashIs DEF OwedInv
  <2>2. CASE WaveWrites
    BY <2>2 DEF OwedInv, WaveWrites, FormWave, Submit, CompleteWave, Adopt, Emit, Log
  <2>3. CASE ~WaveWrites /\ ~Crash
    BY <1>0, <2>3, WaitMoves DEF OwedInv
  <2> QED
    BY <2>1, <2>2, <2>3
<1> QED
  BY <1>1, <1>2, <1>3, <1>4, <1>5 DEF OwedInv

\* A judged node is in the statistics, at most once for every run_job that may have
\* processed it (_record_stats, stats.record).
THEOREM JudgedAlwaysCounted == Spec => []JudgedIsCounted
<1>1. ASSUME CountInv
      PROVE  JudgedIsCounted
  <2> SUFFICES ASSUME NEW n \in Diff
               PROVE  /\ tables.node[n].status \in {"DONE", "NEEDS_HUMAN"} => stats[n] >= 1
                      /\ stats[n] <= 1 + crashes
    BY DEF JudgedIsCounted
  <2>1. PICK a \in {0, 1}, b \in {0, 1} :
          /\ (St(n) \in Early) <=> a = 1
          /\ Awaits(n) <=> b = 1
    OBVIOUS
  <2>2. /\ Owed(n) = stats[n] + a + b + Cardinality(PoolOf(n))
        /\ stats[n] \in Nat /\ Cardinality(PoolOf(n)) \in Nat
    <3>1. OwedSum
      BY <1>1, OwedIs DEF CountInv, OwedInv
    <3> QED
      BY <2>1, <3>1 DEF OwedSum
  <2>3. Owed(n) <= 1 + crashes /\ crashes \in Nat
    BY <1>1 DEF CountInv, OwedInv
  <2> QED
    BY <1>1, <2>2, <2>3 DEF CountInv, JudgedInv, Judged
<1> QED
  BY <1>1, CountInit, CountStep, PTL DEF Spec

=============================================================================
