------------------------- MODULE WaveAnswers_proofs -------------------------
(***************************************************************************)
(* What WaveLoop promises of answers and diffs: where an answer the        *)
(* provider gave is kept, where the diff it carries is, and where the node *)
(* it was given for stands while a crash or a resume is in between.  Then  *)
(* how many waves a job takes, that a template finds the list it waits     *)
(* for, and what it is that run_job returns BLOCKED over.                  *)
(***************************************************************************)
EXTENDS WaveLoop_proofs, WellFoundedInduction

\* No two diffs touch a file of each other: an apply never rolls another back.
DiffsApart == \A d \in Diff : Overlap[d] = {}

\* A row of llm_calls stays as it was put.
RowInv ==
  /\ \A k \in Key : memo[k].answer # "absent" => Prompt[memo[k].by] = k
  /\ \A k \in Cached : memo[k].answer = "good"

\* The node at hand is of the kind its step is for.
KindInv ==
  /\ pc = "fanout" => Kind[node] = "template"
  /\ pc = "local" => Kind[node] \in Local
  /\ pc \in {"apply", "ledger", "done"} => Kind[node] = "diff"
  /\ pc \in {"validate", "apply", "ledger", "done"} => Answer \in {"good", "bad"}
  /\ pc \in {"apply", "ledger", "done"} => Answer = "good"
  /\ pc = "done" => DiffOf[AnswerBy] \in ledger

RecordInv == RowInv /\ KindInv

\* What the ledger says is in the worktree is there.
LandInv ==
  /\ ledger \subseteq landed
  /\ pc = "ledger" => DiffOf[AnswerBy] \in landed

\* A local node, or a template, runs only when all it waits for is safe.
WaitInv == pc \in {"fanout", "local"} => DepsSafe(node)

\* The batches before the last are complete; an item that was worked through
\* has a row; a node that missed the memo has no answer there.
OrderInv ==
  /\ \A a, b \in 1..Len(batches) : a < b => batches[a].key \in completed
  /\ \A b \in 1..Len(batches) : batches[b].key \in completed => Terminal(batches[b])

KeptInv ==
  /\ \A b \in 1..Len(batches) : batches[b].key \in completed =>
       \A m \in batches[b].key.items :
         batches[b].out[m] = "good" => memo[Prompt[m]].answer # "absent"
  /\ ref # 0 /\ pc \in {"fetch"} \cup ItemPcs =>
       \A m \in wave.items \ queue :
         batches[ref].out[m] = "good" /\ ~(pc = "item" /\ m = node)
           => memo[Prompt[m]].answer # "absent"

MissInv ==
  /\ pc = "memo" \/ Serving => \A m \in miss : ~MemoHit(m)
  /\ pc = "harvest" => \A m \in wave.items : ~MemoHit(m)

ReuseInv == OrderInv /\ KeptInv /\ MissInv /\ AnswersAreReused

\* The provider gave a good answer for n.
GoodIn(n) ==
  \E b \in 1..Len(batches) : /\ batches[b].key \in DOMAIN submitted
                             /\ n \in batches[b].key.items
                             /\ batches[b].out[n] = "good"

\* The wave in flight will come to n, or has it in hand.
Ahead(n) ==
  /\ \E w \in InFlight : n \in w.items
  /\ ref # 0 /\ pc \in {"fetch"} \cup ItemPcs => n \in queue \/ InHand(n)

-----------------------------------------------------------------------------
(* Which steps there are.                                                  *)

\* The step a process takes is the one its pc stands for.
LEMMA StepsAt ==
  ASSUME [Next]_vars
  PROVE  \/ UNCHANGED vars \/ Provider \/ Crash
         \/ pc = "idle" /\ Start
         \/ pc = "resume" /\ \/ \E w \in DOMAIN submitted : ResumeInFlight(w)
                             \/ \E w \in recon : NoBatchFound(w)
                             \/ \E w \in recon, b \in 1..Len(batches) : AdoptBatch(w, b)
                             \/ Resumed
         \/ pc = "unharvest" /\ Unharvest
         \/ pc = "loop" /\ (NextIteration \/ Finalize)
         \/ pc = "dispatch" /\ \/ \E n \in todo : \/ MarkReady(n) \/ AutoApproveGate(n)
                                                  \/ ResolveTemplate(n) \/ NoBindings(n)
                                                  \/ StartLocal(n) \/ CollectRemote(n)
                               \/ EndDispatch
         \/ pc = "fanout" /\ TemplateDone
         \/ pc = "local" /\ FinishLocal
         \/ pc = "group" /\ (NextGroup \/ EndGroups)
         \/ pc = "memo" /\ \/ \E n \in queue : ServeFromMemo(n) \/ MissMemo(n)
                           \/ AllCached \/ FormWave
         \/ pc = "harvest" /\ ((\E n \in queue : Harvest(n)) \/ Submit)
         \/ pc = "record" /\ RecordSubmit
         \/ pc = "poll" /\ FetchResults
         \/ pc = "fetch" /\ ((\E n \in queue : TakeItem(n)) \/ CompleteWave)
         \/ pc = "item" /\ PutMemo
         \/ pc = "link" /\ (ItemReturned \/ ItemExpired \/ ForeignKeyError)
         \/ pc = "expired" /\ ReEnqueue
         \/ pc = "validate" /\ Validate
         \/ pc = "apply" /\ ApplyDiff
         \/ pc = "ledger" /\ RecordApplied
         \/ pc = "done" /\ NodeDone
<1>1. ASSUME Resume \/ Dispatch
      PROVE  \/ pc = "resume" /\ \/ \E w \in DOMAIN submitted : ResumeInFlight(w)
                                 \/ \E w \in recon : NoBatchFound(w)
                                 \/ \E w \in recon, b \in 1..Len(batches) : AdoptBatch(w, b)
                                 \/ Resumed
             \/ pc = "unharvest" /\ Unharvest
             \/ pc = "loop" /\ NextIteration
             \/ pc = "dispatch" /\ \/ \E n \in todo : \/ MarkReady(n) \/ AutoApproveGate(n)
                                                      \/ ResolveTemplate(n) \/ NoBindings(n)
                                                      \/ StartLocal(n) \/ CollectRemote(n)
                                   \/ EndDispatch
             \/ pc = "fanout" /\ TemplateDone
             \/ pc = "local" /\ FinishLocal
  <2>1. \A w \in DOMAIN submitted : ResumeInFlight(w) => pc = "resume"
    BY DEF ResumeInFlight
  <2>2. \A w \in recon : NoBatchFound(w) => pc = "resume"
    BY DEF NoBatchFound, GiveUpWave
  <2>3. \A w \in recon, b \in 1..Len(batches) : AdoptBatch(w, b) => pc = "resume"
    BY DEF AdoptBatch
  <2>4. Resumed => pc = "resume"
    BY DEF Resumed, EnterLoop
  <2>5. Unharvest => pc = "unharvest"
    BY DEF Unharvest
  <2>6. NextIteration => pc = "loop"
    BY DEF NextIteration, TakeFrontier
  <2>7. \A n \in todo : MarkReady(n) => pc = "dispatch"
    BY DEF MarkReady
  <2>8. \A n \in todo : AutoApproveGate(n) \/ ResolveTemplate(n) \/ NoBindings(n) \/ StartLocal(n)
                          \/ CollectRemote(n) => pc = "dispatch"
    BY DEF AutoApproveGate, ResolveTemplate, NoBindings, StartLocal, CollectRemote, Dispatching
  <2>9. EndDispatch => pc = "dispatch"
    BY DEF EndDispatch
  <2>10. TemplateDone => pc = "fanout"
    BY DEF TemplateDone
  <2>11. FinishLocal => pc = "local"
    BY DEF FinishLocal
  <2> QED
    BY <1>1, <2>1, <2>2, <2>3, <2>4, <2>5, <2>6, <2>7, <2>8, <2>9, <2>10, <2>11
    DEF Resume, Dispatch
<1>2. ASSUME RemoteWave \/ ProcessWave
      PROVE  \/ pc = "group" /\ (NextGroup \/ EndGroups)
             \/ pc = "memo" /\ \/ \E n \in queue : ServeFromMemo(n) \/ MissMemo(n)
                               \/ AllCached \/ FormWave
             \/ pc = "harvest" /\ ((\E n \in queue : Harvest(n)) \/ Submit)
             \/ pc = "record" /\ RecordSubmit
             \/ pc = "poll" /\ FetchResults
             \/ pc = "fetch" /\ ((\E n \in queue : TakeItem(n)) \/ CompleteWave)
             \/ pc = "item" /\ PutMemo
             \/ pc = "link" /\ (ItemReturned \/ ItemExpired \/ ForeignKeyError)
             \/ pc = "expired" /\ ReEnqueue
             \/ pc = "validate" /\ Validate
             \/ pc = "apply" /\ ApplyDiff
             \/ pc = "ledger" /\ RecordApplied
             \/ pc = "done" /\ NodeDone
  <2>1. NextGroup \/ EndGroups => pc = "group"
    BY DEF NextGroup, EndGroups
  <2>2. \A n \in queue : ServeFromMemo(n) \/ MissMemo(n) => pc = "memo"
    BY DEF ServeFromMemo, MissMemo
  <2>3. AllCached \/ FormWave => pc = "memo"
    BY DEF AllCached, FormWave, SealWave
  <2>4. \A n \in queue : Harvest(n) => pc = "harvest"
    BY DEF Harvest
  <2>5. (Submit => pc = "harvest") /\ (RecordSubmit => pc = "record")
    BY DEF Submit, RecordSubmit
  <2>6. (FetchResults => pc = "poll") /\ (CompleteWave => pc = "fetch")
    BY DEF FetchResults, CompleteWave, CloseWave
  <2>7. \A n \in queue : TakeItem(n) => pc = "fetch"
    BY DEF TakeItem
  <2>8. PutMemo => pc = "item"
    BY DEF PutMemo
  <2>9. ItemReturned \/ ItemExpired \/ ForeignKeyError => pc = "link"
    BY DEF ItemReturned, LinkItem, ItemExpired, ForeignKeyError
  <2>10. (ReEnqueue => pc = "expired") /\ (Validate => pc = "validate")
    BY DEF ReEnqueue, Validate
  <2>11. /\ ApplyDiff => pc = "apply"
         /\ RecordApplied => pc = "ledger"
         /\ NodeDone => pc = "done"
    BY DEF ApplyDiff, RecordApplied, RecordAs, NodeDone
  <2> QED
    BY <1>2, <2>1, <2>2, <2>3, <2>4, <2>5, <2>6, <2>7, <2>8, <2>9, <2>10, <2>11
    DEF RemoteWave, ProcessWave
<1>3. (Start => pc = "idle") /\ (Finalize => pc = "loop")
  BY DEF Start, Resumes, Finalize
<1> QED
  BY <1>1, <1>2, <1>3 DEF Next, Run

\* The one step that writes each of these variables.
LEMMA Writers ==
  ASSUME [Next]_vars
  PROVE  /\ memo' = memo \/ PutMemo
         /\ landed' = landed \/ ApplyDiff
         /\ ledger' = ledger \/ RecordApplied
         /\ completed' = completed \/ CompleteWave
         /\ batches' = batches \/ Submit \/ \E b \in 1..Len(batches) : BatchEnds(b)
         /\ \/ submitted' = submitted \/ RecordSubmit
            \/ \E w \in recon, b \in 1..Len(batches) : AdoptBatch(w, b)
<1> USE DEF durable, waves, tables, world, memory, frontier, group, hand, process, bounds
<1>1. ASSUME ~PutMemo, ~ApplyDiff, ~RecordApplied, ~CompleteWave, ~Submit, ~RecordSubmit, ~Provider,
             ~\E w \in recon, b \in 1..Len(batches) : AdoptBatch(w, b)
      PROVE  UNCHANGED <<memo, landed, ledger, completed, batches, submitted>>
  BY <1>1
  DEF Next, Run, Resume, Dispatch, RemoteWave, ProcessWave, vars, Crash, Exit, Start, Resumes,
      ResumeInFlight, NoBatchFound, GiveUpWave, Unharvest, Resumed, EnterLoop, NextIteration,
      TakeFrontier, MarkReady, AutoApproveGate, ResolveTemplate, NoBindings, StartLocal,
      CollectRemote, Dispatching, TemplateDone, FinishLocal, EndDispatch, NextGroup, EndGroups,
      ServeFromMemo, MissMemo, AllCached, FormWave, SealWave, Harvest, FetchResults, TakeItem,
      ItemReturned, LinkItem, ItemExpired, ForeignKeyError, ReEnqueue, ItemDone, Validate,
      NodeDone, Finalize
<1>2. PutMemo => UNCHANGED <<landed, ledger, completed, batches, submitted>>
  BY DEF PutMemo
<1>3. ApplyDiff => UNCHANGED <<memo, ledger, completed, batches, submitted>>
  BY DEF ApplyDiff
<1>4. RecordApplied => UNCHANGED <<memo, landed, completed, batches, submitted>>
  BY DEF RecordApplied, RecordAs
<1>5. CompleteWave => UNCHANGED <<memo, landed, ledger, batches, submitted>>
  BY DEF CompleteWave, CloseWave
<1>6. Submit => UNCHANGED <<memo, landed, ledger, completed, submitted>>
  BY DEF Submit
<1>7. RecordSubmit => UNCHANGED <<memo, landed, ledger, completed, batches>>
  BY DEF RecordSubmit
<1>8. Provider => UNCHANGED <<memo, landed, ledger, completed, submitted>>
  BY DEF Provider, BatchEnds
<1>9. (\E w \in recon, b \in 1..Len(batches) : AdoptBatch(w, b))
        => UNCHANGED <<memo, landed, ledger, completed, batches>>
  BY DEF AdoptBatch
<1> QED
  BY <1>1, <1>2, <1>3, <1>4, <1>5, <1>6, <1>7, <1>8, <1>9 DEF Provider

\* Where a step leads.
LEMMA StepsTo ==
  /\ UNCHANGED vars \/ Provider => pc' = pc
  /\ Crash \/ Finalize \/ ForeignKeyError => pc' = "idle"
  /\ Start \/ Unharvest => pc' \in {"resume", pc}
  /\ \A w \in DOMAIN submitted : ResumeInFlight(w) => pc' = "poll"
  /\ \A w \in recon : NoBatchFound(w) => pc' = "unharvest"
  /\ \A w \in recon, b \in 1..Len(batches) : AdoptBatch(w, b) => pc' = "poll"
  /\ Resumed \/ EndGroups => pc' = "loop"
  /\ NextIteration \/ TemplateDone \/ FinishLocal => pc' = "dispatch"
  /\ EndDispatch => pc' \in {"loop", "group"}
  /\ \A n \in todo : MarkReady(n) \/ AutoApproveGate(n) \/ NoBindings(n) \/ CollectRemote(n)
                       => pc' = pc
  /\ \A n \in todo : (ResolveTemplate(n) => pc' = "fanout") /\ (StartLocal(n) => pc' = "local")
  /\ NextGroup => pc' = "memo"
  /\ \A n \in queue : MissMemo(n) \/ Harvest(n) => pc' = pc
  /\ AllCached => pc' = "group"
  /\ FormWave => pc' = "harvest"
  /\ FetchResults => pc' = "fetch"
  /\ \A n \in queue : ServeFromMemo(n) => pc' = "item"
  /\ Submit => pc' = "record"
  /\ RecordSubmit => pc' = "poll"
  /\ CompleteWave => pc' \in {"resume", "group"}
<1>1. /\ UNCHANGED vars \/ Provider => pc' = pc
      /\ Crash \/ Finalize \/ ForeignKeyError => pc' = "idle"
  BY DEF vars, process, Provider, BatchEnds, Crash, Exit, Finalize, ForeignKeyError
<1>2. /\ Start \/ Unharvest => pc' \in {"resume", pc}
      /\ \A w \in DOMAIN submitted : ResumeInFlight(w) => pc' = "poll"
  BY DEF Start, Resumes, Unharvest, ResumeInFlight
<1>3. /\ \A w \in recon : NoBatchFound(w) => pc' = "unharvest"
      /\ \A w \in recon, b \in 1..Len(batches) : AdoptBatch(w, b) => pc' = "poll"
  BY DEF NoBatchFound, GiveUpWave, AdoptBatch
<1>4. /\ Resumed \/ EndGroups => pc' = "loop"
      /\ NextIteration \/ TemplateDone \/ FinishLocal => pc' = "dispatch"
  BY DEF Resumed, EnterLoop, EndGroups, NextIteration, TakeFrontier, TemplateDone, FinishLocal
<1>5. /\ EndDispatch => pc' \in {"loop", "group"}
      /\ NextGroup => pc' = "memo"
  BY DEF EndDispatch, NextGroup
<1>6. \A n \in todo : MarkReady(n) \/ AutoApproveGate(n) \/ NoBindings(n) \/ CollectRemote(n)
                          => pc' = pc
  BY DEF MarkReady, AutoApproveGate, NoBindings, CollectRemote, Dispatching, process
<1>7. \A n \in queue : MissMemo(n) \/ Harvest(n) => pc' = pc
  BY DEF MissMemo, Harvest, hand
<1>8. (AllCached => pc' = "group") /\ (FormWave => pc' = "harvest") /\ (Submit => pc' = "record")
  BY DEF AllCached, FormWave, SealWave, Submit
<1>9. (RecordSubmit => pc' = "poll") /\ (CompleteWave => pc' \in {"resume", "group"})
  BY DEF RecordSubmit, CompleteWave, CloseWave
<1>10. \A n \in todo : (ResolveTemplate(n) => pc' = "fanout") /\ (StartLocal(n) => pc' = "local")
  BY DEF ResolveTemplate, StartLocal
<1>11. /\ FetchResults => pc' = "fetch"
       /\ \A n \in queue : ServeFromMemo(n) => pc' = "item"
  BY DEF FetchResults, ServeFromMemo
<1> QED
  BY <1>1, <1>2, <1>3, <1>4, <1>5, <1>6, <1>7, <1>8, <1>9, <1>10, <1>11

\* Where a step that works on an item leads.
LEMMA ItemStepsTo ==
  (\E n \in queue : TakeItem(n)) \/ PutMemo \/ ItemReturned \/ ItemExpired \/ ReEnqueue
    \/ Validate \/ ApplyDiff \/ RecordApplied \/ NodeDone
    => pc' \in {"fetch", "memo"} \cup ItemPcs
<1>1. (\E n \in queue : TakeItem(n)) \/ PutMemo \/ ItemReturned \/ ItemExpired \/ ReEnqueue
        => pc' \in {"fetch", "memo"} \cup ItemPcs
  BY DEF TakeItem, PutMemo, ItemReturned, LinkItem, ItemExpired, ReEnqueue, ItemDone, ItemPcs
<1>2. Validate \/ ApplyDiff \/ RecordApplied \/ NodeDone => pc' \in {"fetch", "memo"} \cup ItemPcs
  BY DEF Validate, ApplyDiff, RecordApplied, RecordAs, NodeDone, ItemDone, ItemPcs
<1> QED
  BY <1>1, <1>2

\* How a process comes to process results, to run a node, to give up a wave.
LEMMA Enters ==
  ASSUME [Next]_vars
  PROVE  /\ pc \notin {"fetch"} \cup ItemPcs /\ pc' \in {"fetch"} \cup ItemPcs =>
              FetchResults \/ \E n \in queue : ServeFromMemo(n)
         /\ pc' \in {"fanout", "local"} =>
              \/ UNCHANGED <<pc, node>>
              \/ \E n \in todo : ResolveTemplate(n) \/ StartLocal(n)
         /\ pc' = "unharvest" => pc = "unharvest" \/ \E w \in recon : NoBatchFound(w)
<1>1. ASSUME pc \notin {"fetch"} \cup ItemPcs, pc' \in {"fetch"} \cup ItemPcs, ~FetchResults
      PROVE  \E n \in queue : ServeFromMemo(n)
  BY <1>1, StepsAt, StepsTo DEF ItemPcs
<1>2. ASSUME pc' \in {"fanout", "local"}, ~UNCHANGED <<pc, node>>
      PROVE  \E n \in todo : ResolveTemplate(n) \/ StartLocal(n)
  <2>1. ~UNCHANGED vars /\ ~Provider
    BY <1>2 DEF vars, process, hand, Provider, BatchEnds
  <2>2. ~\E n \in queue : MissMemo(n) \/ Harvest(n) \/ ServeFromMemo(n)
    BY <1>2, StepsTo DEF MissMemo, Harvest, ServeFromMemo, hand
  <2>3. ~\E n \in todo : MarkReady(n) \/ AutoApproveGate(n) \/ NoBindings(n) \/ CollectRemote(n)
    BY <1>2, StepsTo DEF MarkReady, AutoApproveGate, NoBindings, CollectRemote, Dispatching
  <2>4. ~Unharvest
    BY <1>2 DEF Unharvest
  <2>5. pc' \notin {"resume", "unharvest", "loop", "dispatch", "group", "memo", "harvest", "record",
                   "poll", "fetch", "idle"} \cup ItemPcs
    BY <1>2 DEF ItemPcs
  <2> QED
    BY <2>1, <2>2, <2>3, <2>4, <2>5, StepsAt, StepsTo, ItemStepsTo
<1>3. ASSUME pc' = "unharvest", pc # "unharvest" PROVE \E w \in recon : NoBatchFound(w)
  BY <1>3, StepsAt, StepsTo, ItemStepsTo DEF ItemPcs
<1> QED
  BY <1>1, <1>2, <1>3

\* The steps that write a status.
LEMMA StatusWriters ==
  ASSUME [Next]_vars
  PROVE  \/ UNCHANGED status
         \/ \E n \in queue : Harvest(n) \/ ServeFromMemo(n)
         \/ \E n \in todo : AutoApproveGate(n)
         \/ RecordSubmit \/ (\E w \in recon, b \in 1..Len(batches) : AdoptBatch(w, b))
         \/ ItemReturned \/ ItemExpired \/ Validate \/ ApplyDiff \/ RecordApplied \/ NodeDone
         \/ TemplateDone \/ FinishLocal
         \/ \E S : \E s \in {"READY", "PENDING", "NEEDS_HUMAN", "RE_ENQUEUED", "EXECUTING_LOCAL"} :
              status' = SetStatus(S, s)
<1> USE DEF durable, waves, tables, world, memory, frontier, group, hand, process, bounds
<1> QED
  BY DEF Next, Run, Resume, Dispatch, RemoteWave, ProcessWave, Provider, vars, Crash, Exit, Start,
      Resumes, ResumeInFlight, NoBatchFound, GiveUpWave, Unharvest, Resumed, EnterLoop,
      NextIteration, TakeFrontier, MarkReady, ResolveTemplate, NoBindings, StartLocal,
      CollectRemote, Dispatching, EndDispatch, NextGroup, EndGroups, MissMemo, AllCached, FormWave,
      SealWave, Submit, FetchResults, TakeItem, PutMemo, ForeignKeyError, ReEnqueue, ItemDone,
      CompleteWave, CloseWave, Finalize, BatchEnds

-----------------------------------------------------------------------------
(* Rows, and the item at hand.                                             *)

\* A row that is there is never written again (INSERT OR IGNORE).
LEMMA RowsStay ==
  ASSUME Known, [Next]_vars, NEW k \in Key, memo[k].answer # "absent"
  PROVE  memo'[k] = memo[k]
<1> USE DEF durable, waves, tables, world, memory, frontier, group, hand, process, bounds
<1>1. CASE PutMemo
  <2>1. memo \in [Key -> Row \cup {NoRow}] /\ memo[k] # NoRow
    BY DEF Known, TypeInv, TypeOK, DurableType, NoRow
  <2> QED
    BY <1>1, <2>1 DEF PutMemo
<1>2. CASE UNCHANGED memo
  BY <1>2
<1> QED
  BY <1>1, <1>2, Writers

\* While an item is processed, the answer in hand is the same.
LEMMA ItemStays ==
  ASSUME Known, [Next]_vars, pc \in ItemPcs, pc' \in ItemPcs
  PROVE  /\ UNCHANGED <<node, ref, wave, queue, miss>>
         /\ AnswerBy' = AnswerBy /\ Answer' = Answer
<1> USE DEF durable, waves, tables, world, memory, frontier, group, hand, process, bounds
<1>1. UNCHANGED <<node, ref, wave, queue, miss>>
  BY StepsAt
  DEF vars, Provider, BatchEnds, Crash, Exit, ItemPcs, PutMemo, ItemReturned, LinkItem, ItemExpired,
      ForeignKeyError, ReEnqueue, ItemDone, Validate, ApplyDiff, RecordApplied, RecordAs, NodeDone
<1>2. HandInv /\ AnswerInv /\ batches \in Seq(Batch) /\ ref \in 0..Len(batches) /\ node \in Node
  BY DEF Known, TypeInv, TypeOK, WorldType, ProcessType, HandInv, NodePcs
<1>3. CASE ref = 0
  <2>1. Prompt[node] \in Key /\ memo[Prompt[node]].answer # "absent"
    BY <1>2, <1>3 DEF AnswerInv, MemoHit, Key
  <2>2. memo'[Prompt[node]] = memo[Prompt[node]]
    BY <2>1, RowsStay
  <2> QED
    BY <1>1, <1>3, <2>2 DEF Answer, AnswerBy
<1>4. CASE ref # 0
  <2>1. ASSUME NEW b \in 1..Len(batches), BatchEnds(b) PROVE batches'[ref] = batches[ref]
    <3>1. b # ref
      BY <1>2, <1>4, <2>1 DEF BatchEnds, AnswerInv
    <3> QED
      BY <1>2, <1>4, <2>1, <3>1 DEF BatchEnds
  <2>2. CASE UNCHANGED batches
    BY <1>1, <1>4, <2>2 DEF Answer, AnswerBy
  <2>3. \/ UNCHANGED batches
        \/ \E b \in 1..Len(batches) : BatchEnds(b)
    BY Writers DEF Submit, ItemPcs
  <2> QED
    BY <1>1, <1>4, <2>1, <2>2, <2>3 DEF Answer, AnswerBy
<1> QED
  BY <1>1, <1>3, <1>4

\* Rows are keyed by their prompts; a node is worked on only by steps for its kind.
LEMMA RecordStep ==
  ASSUME Known, RecordInv, [Next]_vars
  PROVE  RecordInv'
<1> USE PlanAssumption
<1> USE DEF durable, waves, tables, world, memory, frontier, group, hand, process, bounds
<1>0. /\ HandInv /\ memo \in [Key -> Row \cup {NoRow}] /\ Cached \subseteq Key
      /\ RowInv /\ KindInv
  BY DEF Known, TypeInv, TypeOK, DurableType, Key, RecordInv
<1>1. RowInv'
  <2>1. ASSUME NEW k \in Key, memo[k].answer # "absent"
        PROVE  memo'[k] = memo[k]
    BY <2>1, RowsStay
  <2>2. ASSUME NEW k \in Key, memo[k].answer = "absent", memo'[k].answer # "absent"
        PROVE  Prompt[memo'[k].by] = k
    <3>1. CASE PutMemo
      <4>1. k = Prompt[node] /\ memo'[k].by = node
        BY <1>0, <2>2, <3>1 DEF PutMemo, NoRow
      <4> QED
        BY <4>1
    <3>2. CASE UNCHANGED memo
      BY <2>2, <3>2
    <3> QED
      BY <3>1, <3>2, Writers
  <2>3. ASSUME NEW k \in Cached PROVE memo'[k].answer = "good"
    BY <1>0, <2>1 DEF RowInv
  <2> QED
    BY <1>0, <2>1, <2>2, <2>3 DEF RowInv
<1> USE DEF KindInv
<1> DEFINE Done == {"validate", "apply", "ledger", "done"}
<1>2. ASSUME pc \in ItemPcs, pc' \in Done PROVE KindInv'
  <2>1. UNCHANGED <<node, ref>> /\ AnswerBy' = AnswerBy /\ Answer' = Answer
    BY <1>2, ItemStays DEF ItemPcs
  <2>2. CASE ItemReturned
    BY <1>2, <2>1, <2>2, AnswerType DEF Known, ItemReturned, LinkItem
  <2>3. CASE Validate
    BY <1>0, <1>2, <2>1, <2>3 DEF Validate, ItemDone, Breaks, NothingToApply
  <2>4. CASE ApplyDiff
    BY <1>0, <1>2, <2>1, <2>4 DEF ApplyDiff, ItemDone
  <2>5. CASE RecordApplied
    BY <1>0, <1>2, <2>1, <2>5 DEF RecordApplied, RecordAs
  <2>6. CASE pc' = pc /\ ledger' = ledger
    BY <1>0, <1>2, <2>1, <2>6
  <2> HIDE DEF KindInv
  <2> QED
    BY <1>2, <2>2, <2>3, <2>4, <2>5, <2>6, StepsAt
    DEF vars, Provider, BatchEnds, Crash, Exit, ItemPcs, PutMemo, ItemExpired, ForeignKeyError,
        ReEnqueue, ItemDone, NodeDone
<1>3. ASSUME pc \notin ItemPcs, pc' \in Done PROVE FALSE
  BY <1>3, Enters, StepsAt
  DEF ItemPcs, ServeFromMemo, TakeItem, FetchResults, CompleteWave, CloseWave, vars, Provider,
      BatchEnds, Crash, Exit
<1>4. ASSUME NEW n \in todo, ResolveTemplate(n) PROVE KindInv'
  BY <1>4 DEF ResolveTemplate
<1>5. ASSUME NEW n \in todo, StartLocal(n) PROVE KindInv'
  BY <1>5 DEF StartLocal
<1>6. ASSUME pc' \in {"fanout", "local"}, UNCHANGED <<pc, node>> PROVE KindInv'
  BY <1>0, <1>6
<1>7. ASSUME pc' \notin {"fanout", "local"} \cup Done PROVE KindInv'
  BY <1>7
<1> HIDE DEF KindInv
<1>8. KindInv'
  <2>1. CASE pc' \in {"fanout", "local"}
    BY <1>4, <1>5, <1>6, <2>1, Enters
  <2> QED
    BY <1>2, <1>3, <1>7, <2>1
<1> QED
  BY <1>1, <1>8 DEF RecordInv

\* The invariant about rows and about the item at hand.
LEMMA RecordInvariant == Spec => [](Known /\ RecordInv)
<1>1. Init => RecordInv
  <2> SUFFICES ASSUME Init PROVE RecordInv
    OBVIOUS
  <2>1. ASSUME NEW k \in Key, memo[k].answer # "absent" PROVE Prompt[memo[k].by] = k
    <3>1. \E m \in Node : Prompt[m] = k
      BY DEF Key
    <3>2. memo[k] = CachedRow(k)
      BY <2>1 DEF Init, NoRow
    <3> QED
      BY <3>1, <3>2 DEF CachedRow
  <2>2. \A k \in Cached : memo[k].answer = "good"
    BY PlanAssumption DEF Init, CachedRow, Key
  <2> QED
    BY <2>1, <2>2 DEF Init, RecordInv, RowInv, KindInv
<1>2. Known /\ RecordInv /\ [Next]_vars => RecordInv'
  BY RecordStep
<1>3. Known <=> TypeInv /\ LoopInv
  BY DEF Known
<1> QED
  BY <1>1, <1>2, <1>3, TypeInvariant, LoopInvariant, PTL DEF Spec

-----------------------------------------------------------------------------
(* Where the diffs are.                                                    *)

\* A diff node succeeds only with the diff of its answer in the ledger.
LEMMA DiffSucceeds ==
  ASSUME Known, RecordInv, [Next]_vars, NEW n \in Node, Kind[n] = "diff",
         status[n] \notin Success, status'[n] \in Success
  PROVE  pc \in ItemPcs /\ n = node /\ DiffOf[AnswerBy] \in ledger'
<1> USE DEF durable, waves, tables, world, memory, frontier, group, hand, process, bounds
<1> USE DEF Success, SetStatus
<1>0. HandInv /\ KindInv
  BY DEF Known, TypeInv, RecordInv
<1>1. \A S, s : status' = SetStatus(S, s) => n \in S /\ s \in Success
  OBVIOUS
<1>2. ASSUME NEW m \in todo, AutoApproveGate(m) PROVE FALSE
  BY <1>1, <1>2 DEF AutoApproveGate
<1>3. CASE TemplateDone
  BY <1>0, <1>1, <1>3 DEF TemplateDone, KindInv
<1>4. CASE FinishLocal
  <2>1. n = node
    BY <1>1, <1>4 DEF FinishLocal
  <2> QED
    BY <1>0, <1>4, <2>1 DEF FinishLocal, KindInv, Local
<1>5. CASE Validate
  BY <1>0, <1>1, <1>5 DEF Validate, NothingToApply, ItemPcs
<1>6. CASE RecordApplied
  BY <1>0, <1>1, <1>6 DEF RecordApplied, RecordAs, ItemPcs
<1>7. CASE NodeDone
  BY <1>0, <1>1, <1>7 DEF NodeDone, KindInv, ItemPcs
<1>8. CASE ApplyDiff
  BY <1>1, <1>8 DEF ApplyDiff
<1>9. ASSUME NEW S, NEW s, status' = SetStatus(S, s), s \notin Success PROVE FALSE
  BY <1>1, <1>9
<1>10. CASE UNCHANGED status
  BY <1>10
<1> HIDE DEF Success, SetStatus
<1>11. \A s \in {"SUBMITTED", "RE_ENQUEUED", "READY", "PENDING", "NEEDS_HUMAN", "HARVESTED",
                 "EXECUTING_LOCAL", "RETURNED", "EXPIRED"} : s \notin Success
  BY DEF Success
<1> QED
  BY <1>2, <1>3, <1>4, <1>5, <1>6, <1>7, <1>8, <1>9, <1>10, <1>11, StatusWriters
  DEF ServeFromMemo, RecordSubmit, AdoptBatch, Harvest, ItemReturned, LinkItem, ItemExpired

\* Without overlaps the worktree and the ledger only grow.
LEMMA LandedStays ==
  ASSUME DiffsApart, Known, [Next]_vars
  PROVE  landed \subseteq landed' /\ ledger \subseteq ledger'
<1> USE DEF durable, waves, tables, world, memory, frontier, group, hand, process, bounds
<1>1. CASE ApplyDiff
  <2>1. DiffOf[AnswerBy] \in Diff
    BY <1>1, AnswerType DEF Known, ApplyDiff, ItemPcs
  <2>2. WipedBy(DiffOf[AnswerBy]) = {{}}
    BY <2>1 DEF DiffsApart, WipedBy
  <2> QED
    BY <1>1, <2>2 DEF ApplyDiff
<1>2. CASE RecordApplied
  BY <1>2 DEF RecordApplied, RecordAs
<1>3. CASE UNCHANGED <<landed, ledger>>
  BY <1>3
<1> QED
  BY <1>1, <1>2, <1>3, Writers

\* No step takes a diff the ledger names out of the worktree.
LEMMA LandStep ==
  ASSUME DiffsApart, Known, RecordInv, LandInv, DoneMeansLanded, [Next]_vars
  PROVE  LandInv' /\ DoneMeansLanded'
<1> USE DEF durable, waves, tables, world, memory, frontier, group, hand, process, bounds
<1>0. landed \subseteq landed' /\ ledger \subseteq ledger' /\ HandInv
  BY LandedStays DEF Known, TypeInv
<1>1. LandInv'
  <2>1. CASE RecordApplied
    BY <1>0, <2>1 DEF RecordApplied, RecordAs, LandInv
  <2>2. CASE ApplyDiff
    <3>1. pc \in ItemPcs
      BY <2>2 DEF ApplyDiff, ItemPcs
    <3>2. pc' = "ledger" => AnswerBy' = AnswerBy
      BY <3>1, ItemStays DEF ItemPcs
    <3> QED
      BY <1>0, <2>2, <3>2 DEF ApplyDiff, ItemDone, LandInv
  <2>3. ASSUME UNCHANGED <<ledger, landed, pc>> PROVE LandInv'
    <3>1. pc' = "ledger" => AnswerBy' = AnswerBy
      BY <2>3, ItemStays DEF ItemPcs
    <3> QED
      BY <2>3, <3>1 DEF LandInv
  <2>4. ASSUME UNCHANGED <<ledger, landed>>, pc' # "ledger" PROVE LandInv'
    BY <2>4 DEF LandInv
  <2> QED
    BY <2>1, <2>2, <2>3, <2>4, Writers, Enters, StepsAt
    DEF vars, Provider, BatchEnds, Crash, Exit, ItemPcs, FetchResults, ServeFromMemo, TakeItem,
        CompleteWave, CloseWave, PutMemo, ItemReturned, LinkItem, ItemExpired, ForeignKeyError,
        ReEnqueue, ItemDone, Validate, NodeDone
<1>2. ASSUME NEW n \in Node, Kind[n] = "diff", status'[n] \in Success
      PROVE  \E d \in landed' \cap ledger' : \E m \in Node : DiffOf[m] = d /\ Prompt[m] = Prompt[n]
  <2>1. CASE status[n] \in Success
    BY <1>0, <1>2, <2>1 DEF DoneMeansLanded
  <2>2. CASE status[n] \notin Success
    <3>1. pc \in ItemPcs /\ n = node /\ DiffOf[AnswerBy] \in ledger'
      BY <1>2, <2>2, DiffSucceeds
    <3>2. AnswerBy \in Node
      BY <3>1, AnswerType DEF Known
    <3>3. Prompt[AnswerBy] = Prompt[n]
      <4>1. CASE ref # 0
        BY <3>1, <4>1 DEF AnswerBy
      <4>2. CASE ref = 0
        <5>1. memo[Prompt[node]].answer # "absent" /\ Prompt[node] \in Key
          BY <1>2, <3>1, <4>2 DEF Known, TypeInv, AnswerInv, MemoHit, Key
        <5> QED
          BY <3>1, <4>2, <5>1 DEF AnswerBy, RecordInv, RowInv
      <4> QED
        BY <4>1, <4>2
    <3>4. DiffOf[AnswerBy] \in landed'
      BY <1>1, <3>1 DEF LandInv
    <3> QED
      BY <3>1, <3>2, <3>3, <3>4
  <2> QED
    BY <2>1, <2>2
<1> QED
  BY <1>1, <1>2 DEF DoneMeansLanded

\* The worktree, the ledger and the diff nodes, for diffs that do not overlap.
LEMMA LandInvariant == DiffsApart => (Spec => [](Known /\ RecordInv /\ LandInv /\ DoneMeansLanded))
<1> SUFFICES ASSUME DiffsApart PROVE Spec => [](Known /\ RecordInv /\ LandInv /\ DoneMeansLanded)
  OBVIOUS
<1>1. Init => LandInv /\ DoneMeansLanded
  BY DEF Init, LandInv, DoneMeansLanded, Success
<1>2. DiffsApart /\ Known /\ RecordInv /\ LandInv /\ DoneMeansLanded /\ [Next]_vars
        => LandInv' /\ DoneMeansLanded'
  BY LandStep
<1> QED
  BY <1>1, <1>2, RecordInvariant, PTL DEF Spec

\* orchestrator.py:776, 782, apply.py:147: if no two diffs share a file, a diff
\* node that succeeded has a diff its prompt was answered with in the worktree and
\* in the ledger, also when the answer came from the memo, and whatever crashed.
THEOREM DoneIsLanded == DiffsApart => (Spec => []DoneMeansLanded)
<1> SUFFICES ASSUME DiffsApart PROVE Spec => []DoneMeansLanded
  OBVIOUS
<1> QED
  BY LandInvariant, PTL

\* A local node and a template are taken from the frontier.
LEMMA WaitStep ==
  ASSUME FindExact, Known, NodeInv, ExpiredInv, ReadyInv, WaitInv, [Next]_vars
  PROVE  WaitInv'
<1> USE DEF durable, waves, tables, world, memory, frontier, group, hand, process, bounds
<1>1. ASSUME NEW n \in Node, DepsSafe(n) PROVE DepsSafe(n)'
  BY <1>1, DepsSafeStep
<1>2. ASSUME NEW n \in todo, pc' \in {"fanout", "local"}, node' = n PROVE WaitInv'
  <2>1. n \in Node /\ Held(n)
    BY DEF Known, TypeInv, TypeOK, ProcessType, Held, Waiting
  <2> QED
    BY <1>1, <1>2, <2>1 DEF ReadyInv, WaitInv
<1>3. ASSUME UNCHANGED <<pc, node>> PROVE WaitInv'
  <2>1. pc \in {"fanout", "local"} => node \in Node
    BY DEF Known, TypeInv, HandInv, NodePcs
  <2> QED
    BY <1>1, <1>3, <2>1 DEF WaitInv
<1>4. ASSUME pc' \notin {"fanout", "local"} PROVE WaitInv'
  BY <1>4 DEF WaitInv
<1> QED
  BY <1>2, <1>3, <1>4, Enters DEF ResolveTemplate, StartLocal

\* orchestrator.py:361, 461: if find_batch sees every batch, every template has
\* children of its own and no two diffs share a file, Verify runs on a worktree
\* that holds a diff for every edit it waits for.
THEOREM VerifySeesEdits == FindExact /\ FanoutPlan /\ DiffsApart => (Spec => []VerifySeesDiffs)
<1> SUFFICES ASSUME FindExact, FanoutPlan, DiffsApart PROVE Spec => []VerifySeesDiffs
  OBVIOUS
<1>1. Init => WaitInv
  BY DEF Init, WaitInv
<1>2. FindExact /\ Known /\ NodeInv /\ ExpiredInv /\ ReadyInv /\ WaitInv /\ [Next]_vars => WaitInv'
  BY WaitStep
<1>3. Known /\ WaitInv /\ DoneMeansLanded => VerifySeesDiffs
  <2> SUFFICES ASSUME Known, WaitInv, DoneMeansLanded,
                      pc = "local", NEW d \in Deps[node], Kind[d] = "diff"
               PROVE  \E m \in Node : Prompt[m] = Prompt[d] /\ DiffOf[m] \in landed
    BY DEF VerifySeesDiffs
  <2>1. node \in Node
    BY DEF Known, TypeInv, HandInv, NodePcs
  <2>2. d \in Node
    BY <2>1, PlanAssumption
  <2>3. status[d] \in Success
    BY DEF WaitInv, DepsSafe, Safe
  <2> QED
    BY <2>2, <2>3 DEF DoneMeansLanded
<1> QED
  BY <1>1, <1>2, <1>3, NodeInvariant, ReadyInvariant, LandInvariant, PTL DEF Spec

-----------------------------------------------------------------------------
(* Answers are paid for once.                                              *)

\* A batch keeps its key, and its results once it has ended; a new one is the
\* wave that was just harvested.
LEMMA BatchesStay ==
  ASSUME Known, [Next]_vars
  PROVE  /\ Len(batches') \in {Len(batches), Len(batches) + 1}
         /\ \A b \in 1..Len(batches) : /\ b \in 1..Len(batches')
                                       /\ batches'[b].key = batches[b].key
                                       /\ Terminal(batches[b]) => batches'[b] = batches[b]
         /\ \A b \in 1..Len(batches') : b \notin 1..Len(batches) =>
              /\ pc = "harvest" /\ queue = {} /\ UNCHANGED <<memo, submitted, completed, status>>
              /\ batches'[b].key = wave
              /\ \A n \in wave.items : batches'[b].out[n] = "pending"
<1> USE DEF durable, waves, tables, world, memory, frontier, group, hand, process, bounds
<1>0. batches \in Seq(Batch) /\ Len(batches) \in Nat /\ wave.items \subseteq Node
  BY DEF Known, TypeInv, TypeOK, WorldType, ProcessType, WaveId
<1>1. ASSUME NEW b \in 1..Len(batches), BatchEnds(b)
      PROVE  /\ Len(batches') = Len(batches) /\ ~Terminal(batches[b])
             /\ \A a \in 1..Len(batches) : /\ batches'[a].key = batches[a].key
                                           /\ a # b => batches'[a] = batches[a]
  BY <1>0, <1>1 DEF BatchEnds
<1>2. CASE Submit
  <2>1. pc = "harvest" /\ queue = {} /\ UNCHANGED <<memo, submitted, completed, status>>
    BY <1>2 DEF Submit
  <2>2. CASE batches' = Append(batches, [key |-> wave, out |-> [n \in Node |-> "pending"]])
    <3>1. /\ Len(batches') = Len(batches) + 1
          /\ \A b \in 1..Len(batches) : batches'[b] = batches[b]
          /\ batches'[Len(batches) + 1] = [key |-> wave, out |-> [n \in Node |-> "pending"]]
      BY <1>0, <2>2
    <3>2. /\ batches'[Len(batches) + 1].key = wave
          /\ \A n \in wave.items : batches'[Len(batches) + 1].out[n] = "pending"
      BY <1>0, <3>1
    <3>3. \A b \in 1..Len(batches') : b \in 1..Len(batches) \/ b = Len(batches) + 1
      BY <1>0, <3>1
    <3>4. \A b \in 1..Len(batches) : b \in 1..Len(batches')
      BY <1>0, <3>1
    <3> QED
      BY <2>1, <3>1, <3>2, <3>3, <3>4
  <2> QED
    BY <1>2, <2>2 DEF Submit
<1>3. CASE UNCHANGED batches
  BY <1>3
<1> QED
  BY <1>1, <1>2, <1>3, Writers

\* What the invariants say of a batch and a wave: the types of their parts.
LEMMA BatchParts ==
  ASSUME Known
  PROVE  /\ Len(batches) \in Nat /\ wave.items \subseteq Node /\ queue \subseteq Node
         /\ miss \subseteq Node
         /\ \A b \in 1..Len(batches) : /\ batches[b].key.items \subseteq Node
                                       /\ \A n \in Node : batches[b].out[n] \in Outcome
         /\ \A n \in Node : Prompt[n] \in Key
         /\ \A k \in Key : memo[k].answer \in {"absent", "none", "good", "bad"}
<1>1. batches \in Seq(Batch) /\ Len(batches) \in Nat /\ wave \in WaveId /\ queue \subseteq Node
      /\ miss \subseteq Node /\ memo \in [Key -> Row \cup {NoRow}]
  BY DEF Known, TypeInv, TypeOK, WorldType, ProcessType, DurableType
<1>2. \A b \in 1..Len(batches) : batches[b] \in Batch
  BY <1>1
<1>3. \A b \in 1..Len(batches) : batches[b].key.items \subseteq Node
  BY <1>2 DEF Batch, WaveId
<1>4. \A b \in 1..Len(batches) : \A n \in Node : batches[b].out[n] \in Outcome
  BY <1>2 DEF Batch
<1>5. \A k \in Key : memo[k].answer \in {"absent", "none", "good", "bad"}
  BY <1>1 DEF Row, NoRow
<1>6. wave.items \subseteq Node
  BY <1>1 DEF WaveId
<1> QED
  BY <1>1, <1>3, <1>4, <1>5, <1>6 DEF Key

\* A new wave is complete only when CompleteWave says so.
LEMMA CompletedStep ==
  ASSUME FindExact, Known, [Next]_vars, NEW b \in 1..Len(batches'),
         batches'[b].key \in completed'
  PROVE  /\ b \in 1..Len(batches)
         /\ \/ batches[b].key \in completed
            \/ b = ref /\ pc = "fetch" /\ queue = {} /\ UNCHANGED <<memo, batches>>
<1> USE DEF durable, waves, tables, world, memory, frontier, group, hand, process, bounds
<1>1. b \in 1..Len(batches)
  <2>1. ASSUME b \notin 1..Len(batches) PROVE FALSE
    <3>1. pc = "harvest" /\ completed' = completed /\ batches'[b].key = wave
      BY <2>1, BatchesStay
    <3>2. wave \notin DOMAIN submitted
      BY <3>1, FormedIsNew
    <3> QED
      BY <3>1, <3>2 DEF Known, LoopInv, LogInv
  <2> QED
    BY <2>1
<1>2. batches'[b].key = batches[b].key
  BY <1>1, BatchesStay
<1>3. CASE CompleteWave
  <2>1. /\ completed' = completed \cup {wave}
        /\ pc = "fetch" /\ queue = {} /\ UNCHANGED <<memo, batches>>
    BY <1>3 DEF CompleteWave, CloseWave
  <2>2. ref \in 1..Len(batches) /\ batches[ref].key = wave
    BY <2>1, BatchParts DEF Known, TypeInv, HandInv, WavePcs, TypeOK, ProcessType
  <2>3. batches[b].key = wave => b = ref
    BY <1>1, <2>2 DEF Known, LoopInv, PaidInv, NoDoubleSubmit
  <2> QED
    BY <1>1, <1>2, <2>1, <2>3
<1>4. CASE completed' = completed
  BY <1>1, <1>2, <1>4
<1> QED
  BY <1>3, <1>4, Writers

\* A batch is complete before the next is sent, and ended before it is complete.
LEMMA OrderStep ==
  ASSUME FindExact, Known, OrderInv, [Next]_vars
  PROVE  OrderInv'
<1>1. ASSUME NEW a \in 1..Len(batches'), NEW b \in 1..Len(batches'), a < b
      PROVE  batches'[a].key \in completed'
  <2>1. completed \subseteq completed'
    BY Writers DEF CompleteWave, CloseWave
  <2>2. CASE b \in 1..Len(batches)
    <3>1. a \in 1..Len(batches)
      BY <1>1, <2>2, BatchParts
    <3> QED
      BY <1>1, <2>1, <2>2, <3>1, BatchesStay DEF OrderInv
  <2>3. CASE b \notin 1..Len(batches)
    <3>1. pc = "harvest" /\ UNCHANGED <<submitted, completed>>
      BY <2>3, BatchesStay
    <3>2. a \in 1..Len(batches)
      <4>1. Len(batches') <= Len(batches) + 1
        BY BatchesStay, BatchParts
      <4> QED
        BY <1>1, <4>1, BatchParts
    <3>3. batches[a].key \in DOMAIN submitted /\ InFlight = {}
      BY <3>1, <3>2 DEF Known, LoopInv, PaidInv, BarrierInv, Resuming, OnWave, ItemPcs
    <3> QED
      BY <3>1, <3>2, <3>3, BatchesStay DEF InFlight
  <2> QED
    BY <2>2, <2>3
<1>2. ASSUME NEW b \in 1..Len(batches'), batches'[b].key \in completed'
      PROVE  Terminal(batches'[b])
  <2>1. Terminal(batches[b]) /\ b \in 1..Len(batches)
    BY <1>2, CompletedStep DEF OrderInv, Known, TypeInv, AnswerInv, HandInv, WavePcs
  <2> QED
    BY <2>1, BatchesStay
<1> QED
  BY <1>1, <1>2 DEF OrderInv

\* An item that was worked through has left a row.
LEMMA KeptStep ==
  ASSUME FindExact, Known, OrderInv, KeptInv, [Next]_vars
  PROVE  KeptInv'
<1> USE DEF durable, waves, tables, world, memory, frontier, group, hand, process, bounds
<1>0. /\ HandInv /\ AnswerInv
      /\ ref \in 0..Len(batches)
  BY DEF Known, TypeInv, TypeOK, ProcessType
<1>r. ASSUME NEW m \in Node, memo[Prompt[m]].answer # "absent"
      PROVE  memo'[Prompt[m]].answer # "absent"
  BY <1>r, RowsStay, BatchParts
<1>1. ASSUME NEW b \in 1..Len(batches'), batches'[b].key \in completed',
             NEW m \in batches'[b].key.items, batches'[b].out[m] = "good"
      PROVE  memo'[Prompt[m]].answer # "absent"
  <2>1. b \in 1..Len(batches) /\ batches'[b].key = batches[b].key
    BY <1>1, CompletedStep, BatchesStay
  <2>2. m \in Node
    BY <1>1, <2>1, BatchParts
  <2>3. CASE batches[b].key \in completed
    <3>1. batches'[b] = batches[b]
      BY <2>1, <2>3, BatchesStay DEF OrderInv
    <3> QED
      BY <1>1, <1>r, <2>1, <2>2, <2>3, <3>1 DEF KeptInv
  <2>4. CASE batches[b].key \notin completed
    <3>1. b = ref /\ pc = "fetch" /\ queue = {} /\ UNCHANGED <<memo, batches>>
      BY <1>1, <2>4, CompletedStep
    <3>2. ref # 0 /\ batches[ref].key = wave
      BY <1>0, <3>1 DEF HandInv, WavePcs
    <3> QED
      BY <1>1, <3>1, <3>2 DEF KeptInv
  <2> QED
    BY <2>3, <2>4
<1> DEFINE Through == {"fetch"} \cup ItemPcs
<1>2. ASSUME ref' # 0, pc' \in Through, NEW m \in wave'.items \ queue',
             batches'[ref'].out[m] = "good", ~(pc' = "item" /\ m = node')
      PROVE  memo'[Prompt[m]].answer # "absent"
  <2>1. CASE FetchResults
    BY <1>2, <2>1 DEF FetchResults
  <2>2. ASSUME pc \in Through, ref # 0, UNCHANGED <<ref, wave>>, m \notin queue,
               ~(pc = "item" /\ m = node)
        PROVE  memo'[Prompt[m]].answer # "absent"
    <3>1. m \in wave.items /\ m \in Node
      BY <1>2, <2>2, BatchParts
    <3>2. batches'[ref] = batches[ref]
      BY <1>0, <2>2, BatchesStay, BatchParts DEF AnswerInv
    <3> QED
      BY <1>2, <1>r, <2>2, <3>1, <3>2 DEF KeptInv
  <2>3. ASSUME NEW n \in queue, TakeItem(n) PROVE memo'[Prompt[m]].answer # "absent"
    BY <1>0, <1>2, <2>2, <2>3 DEF TakeItem, HandInv, WavePcs
  <2>4. CASE PutMemo
    <3>1. CASE m = node
      <4>1. m \in Node /\ memo \in [Key -> Row \cup {NoRow}]
        BY <2>4, <3>1 DEF PutMemo, Known, TypeInv, HandInv, NodePcs, ItemPcs, TypeOK, DurableType
      <4>2. Prompt[m] \in Key
        BY <4>1, BatchParts
      <4>3. ref # 0 /\ Answer = batches[ref].out[m] /\ batches[ref].out[m] \in Outcome
        <5>1. ref # 0
          BY <1>2, <2>4 DEF PutMemo
        <5>2. batches[ref].out[m] \in Outcome
          BY <1>0, <4>1, <5>1, BatchParts
        <5> QED
          BY <3>1, <5>1, <5>2 DEF Answer
      <4>4. ~Refused => Answer # "absent"
        BY <4>3 DEF Outcome
      <4>5. memo[Prompt[m]] # NoRow => memo[Prompt[m]].answer # "absent"
        BY <4>1, <4>2 DEF Row, NoRow
      <4> QED
        BY <2>4, <3>1, <4>1, <4>2, <4>4, <4>5 DEF PutMemo
    <3>2. CASE m # node
      BY <1>2, <2>2, <2>4, <3>2 DEF PutMemo, ItemPcs
    <3> QED
      BY <3>1, <3>2
  <2>5. ASSUME pc \in Through, UNCHANGED <<ref, wave, queue>>,
               pc = "item" => pc' = "item" /\ node' = node
        PROVE  memo'[Prompt[m]].answer # "absent"
    BY <1>2, <2>2, <2>5
  <2>6. ASSUME pc \in ItemPcs PROVE memo'[Prompt[m]].answer # "absent"
    <3>1. CASE PutMemo
      BY <2>4, <3>1
    <3>2. ASSUME ~PutMemo
          PROVE  /\ UNCHANGED <<ref, wave, queue>>
                 /\ pc = "item" => pc' = "item" /\ node' = node
      BY <1>2, <2>6, <3>2, StepsAt
      DEF vars, Provider, BatchEnds, Crash, Exit, ItemPcs, PutMemo, ItemReturned, LinkItem,
          ItemExpired, ForeignKeyError, ReEnqueue, ItemDone, Validate, ApplyDiff, RecordApplied,
          RecordAs, NodeDone
    <3> QED
      BY <2>5, <2>6, <3>1, <3>2
  <2>7. ASSUME pc = "fetch" PROVE memo'[Prompt[m]].answer # "absent"
    <3>1. \/ \E n \in queue : TakeItem(n)
          \/ UNCHANGED <<ref, wave, queue>>
      BY <1>2, <2>7, StepsAt
      DEF vars, Provider, BatchEnds, Crash, Exit, ItemPcs, CompleteWave, CloseWave
    <3> QED
      BY <2>3, <2>5, <2>7, <3>1
  <2>8. ASSUME pc \notin Through PROVE FetchResults
    <3>1. CASE ref = 0
      BY <1>2, <2>8, <3>1, Enters DEF ServeFromMemo
    <3>2. CASE ref # 0
      BY <1>0, <1>2, <2>8, <3>2, Enters DEF HandInv, WavePcs, ServeFromMemo
    <3> QED
      BY <3>1, <3>2
  <2> QED
    BY <2>1, <2>6, <2>7, <2>8
<1> QED
  BY <1>1, <1>2 DEF KeptInv

\* A node that missed the memo misses it until its wave is sent.
LEMMA MissStep ==
  ASSUME Known, RecordInv, MissInv, [Next]_vars
  PROVE  MissInv'
<1> USE DEF durable, waves, tables, world, memory, frontier, group, hand, process, bounds
<1> USE DEF MissInv, Serving, ItemPcs
<1>0. HandInv /\ AnswerInv
  BY DEF Known, TypeInv
<1>m. ASSUME UNCHANGED memo PROVE \A n \in Node : MemoHit(n)' = MemoHit(n)
  BY <1>m DEF MemoHit
<1>t. miss \subseteq Node /\ queue \subseteq Node /\ wave.items \subseteq Node
  BY BatchParts
<1>1. ASSUME NEW n \in queue, MissMemo(n) PROVE MissInv'
  BY <1>1, <1>m, <1>t DEF MissMemo
<1>2. CASE FormWave
  BY <1>2, <1>m, <1>t DEF FormWave, SealWave
<1>3. CASE PutMemo
  <2>1. CASE ref = 0
    <3>1. memo[Prompt[node]] # NoRow
      BY <1>0, <1>3, <2>1 DEF PutMemo, AnswerInv, MemoHit, NoRow
    <3> QED
      BY <1>3, <1>m, <1>t, <2>1, <3>1 DEF PutMemo
  <2>2. CASE ref # 0
    BY <1>3, <2>2 DEF PutMemo
  <2> QED
    BY <2>1, <2>2
<1>4. CASE NextGroup
  BY <1>4 DEF NextGroup
<1>5. ASSUME NEW n \in queue, ServeFromMemo(n) PROVE MissInv'
  BY <1>5, <1>m, <1>t DEF ServeFromMemo
<1>6. ASSUME NEW n \in queue, Harvest(n) PROVE MissInv'
  BY <1>6, <1>m, <1>t DEF Harvest
<1>7. ASSUME pc \in ItemPcs, UNCHANGED <<memo, ref, miss>>, pc' # "harvest", pc' = "memo" => ref = 0
      PROVE  MissInv'
  BY <1>7, <1>m, <1>t
<1>8. ASSUME pc' # "harvest", pc' # "memo", ~Serving' PROVE MissInv'
  BY <1>8
<1>9. ASSUME UNCHANGED <<pc, memo, miss, ref, wave>> PROVE MissInv'
  BY <1>9, <1>m, <1>t
<1>10. ASSUME NEW n \in queue, TakeItem(n) PROVE MissInv'
  BY <1>0, <1>10 DEF TakeItem, HandInv, WavePcs
<1> HIDE DEF MissInv
<1> QED
  BY <1>1, <1>2, <1>3, <1>4, <1>5, <1>6, <1>7, <1>8, <1>9, <1>10
  DEF Next, Run, Resume, Dispatch, RemoteWave, ProcessWave, Provider, vars, Crash, Exit, Start,
      Resumes, ResumeInFlight, AdoptBatch, NoBatchFound, GiveUpWave, Unharvest, Resumed,
      EnterLoop, NextIteration, TakeFrontier, MarkReady, AutoApproveGate, ResolveTemplate,
      NoBindings, StartLocal, CollectRemote, Dispatching, TemplateDone, FinishLocal, EndDispatch,
      EndGroups, AllCached, Submit, RecordSubmit, FetchResults, ItemReturned, LinkItem,
      ItemExpired, ForeignKeyError, ReEnqueue, ItemDone, Validate, ApplyDiff, RecordApplied,
      RecordAs, NodeDone, CompleteWave, CloseWave, Finalize, BatchEnds

\* A batch is sent for no prompt that has a good answer.
LEMMA ReusedStep ==
  ASSUME FindExact, Known, RecordInv, ReuseInv, [Next]_vars
  PROVE  AnswersAreReused'
<1>0. OrderInv /\ KeptInv /\ MissInv /\ AnswersAreReused /\ RowInv
  BY DEF ReuseInv, RecordInv
<1>1. SUFFICES ASSUME NEW b \in 1..Len(batches'), NEW n \in batches'[b].key.items
               PROVE  /\ Prompt[n] \notin Cached
                      /\ \A a \in 1..(b - 1) : \A m \in batches'[a].key.items :
                           batches'[a].out[m] = "good" /\ Prompt[m] = Prompt[n]
                             => memo'[Prompt[m]].answer = "none"
  BY DEF AnswersAreReused
<1>2. CASE b \in 1..Len(batches)
  <2>1. n \in batches[b].key.items
    BY <1>1, <1>2, BatchesStay
  <2>2. ASSUME NEW a \in 1..(b - 1), NEW m \in batches'[a].key.items,
               batches'[a].out[m] = "good", Prompt[m] = Prompt[n]
        PROVE  memo'[Prompt[m]].answer = "none"
    <3>1. a \in 1..Len(batches) /\ a < b
      BY <1>2, <2>2, BatchParts
    <3>2. batches'[a] = batches[a]
      BY <1>0, <1>2, <3>1, BatchesStay DEF OrderInv
    <3>3. m \in Node /\ memo[Prompt[m]].answer = "none"
      BY <1>0, <1>2, <2>1, <2>2, <3>1, <3>2, BatchParts DEF AnswersAreReused
    <3> QED
      BY <3>3, RowsStay, BatchParts
  <2> QED
    BY <1>0, <1>2, <2>1, <2>2 DEF AnswersAreReused
<1>3. CASE b \notin 1..Len(batches)
  <2>1. pc = "harvest" /\ queue = {} /\ memo' = memo /\ n \in wave.items
    BY <1>1, <1>3, BatchesStay
  <2>2. n \in Node /\ Prompt[n] \in Key /\ ~MemoHit(n)
    BY <1>0, <2>1, BatchParts DEF MissInv
  <2>3. Prompt[n] \notin Cached
    BY <1>0, <2>2 DEF RowInv, MemoHit
  <2>4. ASSUME NEW a \in 1..(b - 1), NEW m \in batches'[a].key.items,
               batches'[a].out[m] = "good", Prompt[m] = Prompt[n]
        PROVE  memo'[Prompt[m]].answer = "none"
    <3>1. a \in 1..Len(batches)
      BY <1>1, <1>3, BatchesStay, BatchParts
    <3>2. batches[a].key \in completed
      <4>1. InFlight = {} /\ batches[a].key \in DOMAIN submitted
        BY <2>1, <3>1 DEF Known, LoopInv, PaidInv, BarrierInv, Resuming, OnWave, ItemPcs
      <4> QED
        BY <4>1 DEF InFlight
    <3>3. batches'[a] = batches[a]
      BY <1>0, <3>1, <3>2, BatchesStay DEF OrderInv
    <3>4. memo[Prompt[m]].answer # "absent"
      BY <1>0, <2>4, <3>1, <3>2, <3>3 DEF KeptInv
    <3>5. memo[Prompt[m]].answer \in {"absent", "none", "good", "bad"}
      BY <2>2, <2>4, BatchParts
    <3> QED
      BY <2>1, <2>2, <2>4, <3>4, <3>5 DEF MemoHit
  <2> QED
    BY <2>3, <2>4
<1> QED
  BY <1>2, <1>3

\* What is kept of answers, through every step.
LEMMA ReuseInvariant == FindExact => (Spec => []ReuseInv)
<1> SUFFICES ASSUME FindExact PROVE Spec => []ReuseInv
  OBVIOUS
<1>1. Init => ReuseInv
  BY DEF Init, ReuseInv, OrderInv, KeptInv, MissInv, AnswersAreReused, Serving, ItemPcs
<1>2. FindExact /\ Known /\ RecordInv /\ ReuseInv /\ [Next]_vars => ReuseInv'
  BY OrderStep, KeptStep, MissStep, ReusedStep DEF ReuseInv
<1> QED
  BY <1>1, <1>2, RecordInvariant, PTL DEF Spec

\* orchestrator.py:604, store/memo.py: if find_batch sees every batch, no batch
\* ever holds an item whose prompt an earlier job or an earlier batch has a good
\* answer for, unless the row of a failed call of that prompt keeps it out.
THEOREM AnswersPaidOnce == FindExact => (Spec => []AnswersAreReused)
<1>1. ReuseInv => AnswersAreReused
  BY DEF ReuseInv
<1> QED
  BY <1>1, ReuseInvariant, PTL

-----------------------------------------------------------------------------
(* The wave in flight reaches its nodes.                                   *)

\* A result stays, and a batch on record stays on record.
LEMMA OutStays ==
  ASSUME Known, OnceInv, [Next]_vars, NEW b \in 1..Len(batches), NEW n \in batches[b].key.items,
         batches[b].out[n] # "pending"
  PROVE  b \in 1..Len(batches') /\ batches'[b] = batches[b]
  BY BatchesStay DEF OnceInv, EndsInv

\* A submitted wave stays on record.
LEMMA SubmittedGrows ==
  ASSUME [Next]_vars
  PROVE  DOMAIN submitted \subseteq DOMAIN submitted'
<1> USE DEF durable, waves, tables, world, memory, frontier, group, hand, process, bounds
<1>1. \A w, b : submitted' = Put(submitted, w, b) => DOMAIN submitted \subseteq DOMAIN submitted'
  BY DEF Put
<1> QED
  BY <1>1, Writers DEF RecordSubmit, AdoptBatch

\* A good answer stays one.
LEMMA GoodStays ==
  ASSUME Known, OnceInv, [Next]_vars, NEW n, GoodIn(n)
  PROVE  GoodIn(n)'
  BY OutStays, SubmittedGrows DEF GoodIn

\* While a wave is processed, the good answer of a node in flight is the one of its batch.
LEMMA GoodInWave ==
  ASSUME FindExact, Known, NodeInv, OnceInv, OnWave, NEW n, GoodIn(n),
         NEW w \in InFlight, n \in w.items
  PROVE  n \in wave.items /\ batches[ref].out[n] = "good"
<1>1. PICK b \in 1..Len(batches) : n \in batches[b].key.items /\ batches[b].out[n] = "good"
  BY DEF GoodIn
<1>2. batches[b].key = w
  BY <1>1 DEF OnceInv, InFlightInv, Alive
<1>3. w = wave
  BY DEF Known, LoopInv, BarrierInv
<1>4. ref \in 1..Len(batches) /\ batches[ref].key = wave
  BY BatchParts DEF Known, TypeInv, HandInv, OnWave, WavePcs, TypeOK, ProcessType
<1>5. b = ref
  BY <1>1, <1>2, <1>3, <1>4 DEF Known, LoopInv, PaidInv, NoDoubleSubmit
<1> QED
  BY <1>1, <1>3, <1>5

-----------------------------------------------------------------------------
(* Who is processed, and who is lost.                                      *)

\* An item that has no result yet, or none to come, leaves its node SUBMITTED.
PendInv ==
  \A b \in 1..Len(batches) : batches[b].key \in DOMAIN submitted =>
    \A n \in batches[b].key.items :
      batches[b].out[n] \in {"pending", "missing"} => status[n] = "SUBMITTED"

\* A node served from the memo has no answer of its own.
ServeInv == Serving => Unpaid(node)

\* All that is known of the waves, the nodes and the rows.
Ground ==
  /\ Known /\ NodeInv /\ ExpiredInv /\ OnceInv /\ RecordInv
  /\ MissInv /\ PendInv /\ ServeInv

\* A node the process serves from the memo, or served when it died.
Astray(n) == MemoHit(n) /\ Unpaid(n) /\ (crashes # 0 \/ (Serving /\ node = n))

\* A diff that is in the worktree only is one a resume comes to again, or that of a memo hit.
RecoverInv ==
  \A d \in landed \ ledger : \E n \in Node : Kind[n] = "diff" /\
    \/ DiffOf[n] = d /\ GoodIn(n) /\ (status[n] = "NEEDS_HUMAN" \/ Ahead(n))
    \/ /\ MemoHit(n) /\ Unpaid(n) /\ DiffOf[memo[Prompt[n]].by] = d
       /\ status[n] = "RETURNED" /\ \A w \in InFlight : n \notin w.items
       /\ Serving /\ node = n => pc \in {"ledger", "done"}

\* A harvested node is of a wave that is formed and not submitted.
Formed(n) ==
  \/ pc = "idle" /\ \E w \in formed \ DOMAIN submitted : n \in w.items
  \/ Resuming /\ \E w \in recon : n \in w.items
  \/ pc = "unharvest" /\ n \in queue
  \/ pc \in {"harvest", "record"} /\ n \in wave.items

StrandInv ==
  /\ \A n \in Node : status[n] = "HARVESTED" => Formed(n) \/ Astray(n)
  /\ \A n \in Node : status[n] \in {"SUBMITTED", "RETURNED", "EXPIRED"} =>
       Ahead(n) \/ LeftOut(n) \/ (status[n] = "RETURNED" /\ Astray(n))
  /\ pc = "unharvest" => wave \in formed \ DOMAIN submitted /\ queue \subseteq wave.items

\* The crashes are counted.
LEMMA CrashesCounted ==
  ASSUME Known, [Next]_vars, crashes' = 0
  PROVE  crashes = 0 /\ ~Crash
<1> USE DEF durable, waves, tables, world, memory, frontier, group, hand, process, bounds
<1>1. crashes \in Nat
  BY DEF Known, TypeInv, TypeOK, BoundType
<1>2. ~Crash
  BY <1>1 DEF Crash
<1>3. crashes' = crashes
  BY <1>2
  DEF Next, Run, Resume, Dispatch, RemoteWave, ProcessWave, Provider, vars, Start,
      Resumes, ResumeInFlight, NoBatchFound, AdoptBatch, GiveUpWave, Unharvest, Resumed, EnterLoop,
      NextIteration, TakeFrontier,
      MarkReady, AutoApproveGate, ResolveTemplate, NoBindings, StartLocal,
      CollectRemote, Dispatching, TemplateDone, FinishLocal, EndDispatch, NextGroup, EndGroups,
      MissMemo, ServeFromMemo, AllCached, FormWave, SealWave, Harvest, Submit, RecordSubmit,
      FetchResults, TakeItem, PutMemo, ItemReturned, LinkItem, ItemExpired, ForeignKeyError,
      ReEnqueue, ItemDone, Validate, ApplyDiff, RecordApplied, RecordAs, NodeDone, CompleteWave,
      CloseWave, Finalize, Exit, BatchEnds
<1> QED
  BY <1>1, <1>2, <1>3

\* A node that is taken up, or runs locally, is moved by the step that has it in hand only.
LEMMA HeldStays ==
  ASSUME FindExact, Known, NodeInv, [Next]_vars, NEW n \in Node,
         status[n] \in {"SUBMITTED", "RETURNED", "EXECUTING_LOCAL"},
         ~(pc = "local" /\ node = n), ~(pc \in ItemPcs /\ node = n)
  PROVE  status'[n] = status[n]
<1> USE DEF durable, waves, tables, world, memory, frontier, group, hand, process, bounds
<1> DEFINE Goal == status'[n] = status[n]
<1> SUFFICES Goal
  OBVIOUS
<1>0. PlaceInv /\ StatusInv /\ UnrecordedInv /\ PhaseInv
  BY DEF Known, LoopInv, NodeInv
<1>1. n \notin Waiting
  BY <1>0 DEF StatusInv, Runnable
<1> USE DEF SetStatus
<1>3. ASSUME NEW w \in recon, NEW b \in 1..Len(batches), AdoptBatch(w, b) PROVE Goal
  <2>1. status' = SetStatus(w.items, "SUBMITTED") /\ batches[b].key = w /\ w \notin DOMAIN submitted
    BY <1>0, <1>3 DEF AdoptBatch, PlaceInv
  <2>2. n \notin w.items
    BY <1>0, <2>1 DEF UnrecordedInv
  <2> QED
    BY <2>1, <2>2
<1>4. CASE Unharvest
  BY <1>0, <1>4 DEF Unharvest, StatusInv
<1>5. ASSUME NEW m \in todo, m # n,
             \/ MarkReady(m) \/ AutoApproveGate(m) \/ NoBindings(m) \/ StartLocal(m)
      PROVE  Goal
  BY <1>5 DEF MarkReady, AutoApproveGate, NoBindings, StartLocal
<1>6. ASSUME NEW m \in todo, ResolveTemplate(m) PROVE Goal
  BY <1>6 DEF ResolveTemplate
<1>7. CASE TemplateDone
  <2>1. node # n
    BY <1>0, <1>7 DEF TemplateDone, StatusInv, Runnable
  <2> QED
    BY <1>7, <2>1 DEF TemplateDone
<1>8. CASE FinishLocal
  BY <1>8 DEF FinishLocal
<1>9. ASSUME NEW m \in queue, ServeFromMemo(m) \/ Harvest(m) PROVE Goal
  <2>1. m \in Waiting
    BY <1>9 DEF ServeFromMemo, Harvest, Waiting
  <2> QED
    BY <1>1, <1>9, <2>1 DEF ServeFromMemo, Harvest
<1>10. CASE RecordSubmit
  <2>1. n \notin wave.items
    BY <1>0, <1>10 DEF RecordSubmit, StatusInv
  <2> QED
    BY <1>10, <2>1 DEF RecordSubmit
<1>11. CASE \/ ItemReturned \/ ItemExpired \/ ReEnqueue \/ Validate \/ ApplyDiff \/ RecordApplied
            \/ NodeDone
  BY <1>11
  DEF ItemReturned, LinkItem, ItemExpired, ReEnqueue, Validate, ApplyDiff, RecordApplied, RecordAs,
      NodeDone, ItemPcs
<1>12. CASE UNCHANGED status
  BY <1>12
<1>13. n \notin todo
  BY <1>1 DEF Waiting
<1> HIDE DEF Goal, SetStatus
<1> QED
  BY <1>3, <1>4, <1>5, <1>6, <1>7, <1>8, <1>9, <1>10, <1>11, <1>12, <1>13
  DEF Next, Run, Resume, Dispatch, RemoteWave, ProcessWave, Provider,
      Crash, Exit, Start, Resumes, ResumeInFlight, NoBatchFound, GiveUpWave, Resumed, EnterLoop,
      NextIteration, TakeFrontier, CollectRemote, EndDispatch, NextGroup, EndGroups, MissMemo,
      AllCached, FormWave, SealWave, Submit, FetchResults, TakeItem, PutMemo, ForeignKeyError,
      CompleteWave, CloseWave, Finalize, BatchEnds, vars

\* A batch with an item of n that is not in hand: n keeps waiting for it.
LEMMA PendStep ==
  ASSUME FindExact, Known, NodeInv, OnceInv, PendInv, [Next]_vars
  PROVE  PendInv'
<1> USE DEF durable, waves, tables, world, memory, frontier, group, hand, process, bounds
<1> SUFFICES ASSUME NEW b \in 1..Len(batches'), batches'[b].key \in DOMAIN submitted',
                    NEW n \in batches'[b].key.items, batches'[b].out[n] \in {"pending", "missing"}
             PROVE  status'[n] = "SUBMITTED"
  BY DEF PendInv
<1>0. /\ PlaceInv /\ StatusInv /\ PhaseInv /\ HandInv /\ AnswerInv /\ Len(batches) \in Nat
      /\ NoDoubleSubmit
  BY DEF Known, TypeInv, LoopInv, NodeInv, TypeOK, WorldType, PaidInv
<1>1. b \in 1..Len(batches) /\ batches'[b].key = batches[b].key
  <2>1. CASE b \notin 1..Len(batches)
    <3>1. batches'[b].key = wave /\ submitted' = submitted /\ pc = "harvest"
      BY <2>1, BatchesStay
    <3> QED
      BY <3>1, FormedIsNew
  <2> QED
    BY <2>1, BatchesStay
<1>2. n \in Node
  BY <1>1, BatchParts
<1>3. CASE batches[b].key \notin DOMAIN submitted
  <2>1. \/ RecordSubmit \/ \E w \in recon, a \in 1..Len(batches) : AdoptBatch(w, a)
    BY <1>1, <1>3, Writers
  <2>2. CASE RecordSubmit
    BY <1>1, <1>2, <1>3, <2>2 DEF RecordSubmit, Put, SetStatus
  <2>3. ASSUME NEW w \in recon, NEW a \in 1..Len(batches), AdoptBatch(w, a)
        PROVE  status'[n] = "SUBMITTED"
    BY <1>1, <1>2, <1>3, <2>3 DEF AdoptBatch, Put, SetStatus
  <2> QED
    BY <2>1, <2>2, <2>3
<1>4. CASE batches[b].key \in DOMAIN submitted
  <2>1. batches[b].out[n] \in {"pending", "missing"}
    <3>1. CASE Terminal(batches[b])
      BY <1>1, <3>1, BatchesStay
    <3>2. CASE ~Terminal(batches[b])
      BY <1>1, <3>2 DEF OnceInv, EndsInv
    <3> QED
      BY <3>1, <3>2
  <2>2. status[n] = "SUBMITTED"
    BY <1>1, <1>4, <2>1 DEF PendInv
  <2>3. ~(pc = "local" /\ node = n)
    BY <1>0, <2>2 DEF StatusInv
  <2>4. ASSUME pc \in ItemPcs, node = n PROVE FALSE
    <3>1. ref # 0
      BY <1>0, <2>2, <2>4 DEF StatusInv, Serving, ItemPcs
    <3>2. InHand(n)
      BY <2>4, <3>1 DEF InHand
    <3>3. /\ n \in wave.items /\ wave \in InFlight /\ batches[ref].key = wave
          /\ ref \in 1..Len(batches)
      BY <3>2, InHandInFlight
    <3>4. batches[ref].out[n] \notin {"pending", "missing"}
      BY <1>0, <2>4, <3>1, <3>3 DEF AnswerInv, Terminal
    <3>5. batches[b].key # wave
      BY <1>0, <1>1, <2>1, <3>3, <3>4 DEF NoDoubleSubmit
    <3>6. batches[b].out[n] \notin Alive
      BY <1>1, <3>3, <3>5 DEF OnceInv, InFlightInv
    <3> QED
      BY <2>1, <3>6 DEF Alive
  <2> QED
    BY <1>2, <2>2, <2>3, <2>4, HeldStays
<1> QED
  BY <1>3, <1>4

\* A node the memo has an answer for is not bought.
LEMMA UnpaidStays ==
  ASSUME Known, OnceInv, MissInv, [Next]_vars, NEW n \in Node, MemoHit(n), Unpaid(n)
  PROVE  MemoHit(n)' /\ Unpaid(n)' /\ memo'[Prompt[n]] = memo[Prompt[n]]
<1>1. Prompt[n] \in Key /\ memo[Prompt[n]].answer # "absent"
  BY BatchParts DEF MemoHit
<1>2. memo'[Prompt[n]] = memo[Prompt[n]]
  BY <1>1, RowsStay
<1>3. ASSUME NEW b \in 1..Len(batches'), n \in batches'[b].key.items
      PROVE  batches'[b].out[n] = "failed"
  <2>1. CASE b \notin 1..Len(batches)
    <3>1. pc = "harvest" /\ n \in wave.items
      BY <1>3, <2>1, BatchesStay
    <3> QED
      BY <3>1 DEF MissInv
  <2>2. CASE b \in 1..Len(batches)
    <3>1. n \in batches[b].key.items
      BY <1>3, <2>2, BatchesStay
    <3>2. batches[b].out[n] = "failed"
      BY <2>2, <3>1 DEF Unpaid
    <3> QED
      BY <2>2, <3>1, <3>2, OutStays
  <2> QED
    BY <2>1, <2>2
<1> QED
  BY <1>2, <1>3 DEF MemoHit, Unpaid

\* A node of the frontier has no answer of its own, when every batch is on record.
LEMMA FrontierUnpaid ==
  ASSUME FindExact, Known, NodeInv, OnceInv, NEW n \in queue, pc = "memo"
  PROVE  Unpaid(n)
<1> SUFFICES ASSUME NEW b \in 1..Len(batches), n \in batches[b].key.items
             PROVE  batches[b].out[n] = "failed"
  BY DEF Unpaid
<1>1. n \in Node /\ batches[b].out[n] \in Outcome
  BY BatchParts
<1>2. batches[b].key \in DOMAIN submitted
  BY DEF Known, LoopInv, PaidInv, Resuming, OnWave, ItemPcs
<1>3. status[n] \in Runnable
  BY DEF NodeInv, StatusInv, Waiting
<1>4. batches[b].out[n] \notin Alive
  BY <1>2, <1>3, Apart DEF OnceInv, AliveInv, Taken, Runnable, Settled, Success
<1> QED
  BY <1>1, <1>4 DEF Alive, Outcome

\* How a node comes to be served from the memo.
LEMMA ServingStarts ==
  ASSUME Known, [Next]_vars, Serving', ~Serving
  PROVE  \E n \in queue : ServeFromMemo(n) /\ node' = n /\ UNCHANGED <<memo, batches, crashes>>
<1> USE DEF durable, waves, tables, world, memory, frontier, group, hand, process, bounds
<1>1. pc' \in ItemPcs /\ ref' = 0
  BY DEF Serving
<1>2. pc \notin ItemPcs
  <2>1. CASE pc \in ItemPcs
    BY <1>1, <2>1, ItemStays DEF Serving
  <2> QED
    BY <2>1
<1>3. ~FetchResults
  BY <1>1 DEF FetchResults, ItemPcs
<1>4. ~\E n \in queue : TakeItem(n)
  BY <1>1 DEF TakeItem, Known, TypeInv, HandInv, WavePcs
<1>5. PICK n \in queue : ServeFromMemo(n)
  BY <1>1, <1>2, <1>3, <1>4, Enters, StepsAt
  DEF vars, Provider, BatchEnds, Crash, Exit, ItemPcs, CompleteWave, CloseWave
<1> QED
  BY <1>5 DEF ServeFromMemo

\* Who is served from the memo was not bought, or not answered.
LEMMA ServeStep ==
  ASSUME FindExact, Known, NodeInv, OnceInv, MissInv, ServeInv, [Next]_vars
  PROVE  ServeInv'
<1> SUFFICES ASSUME Serving' PROVE Unpaid(node)'
  BY DEF ServeInv
<1>1. CASE Serving
  <2>1. UNCHANGED node /\ node \in Node /\ MemoHit(node)
    BY <1>1, ItemStays DEF Serving, Known, TypeInv, HandInv, AnswerInv, NodePcs, ItemPcs
  <2>2. PICK n \in Node : n = node
    BY <2>1
  <2>3. Unpaid(n)'
    BY <1>1, <2>1, <2>2, UnpaidStays DEF ServeInv
  <2> QED
    BY <2>1, <2>2, <2>3 DEF Unpaid
<1>2. CASE ~Serving
  <2>1. PICK n \in queue : ServeFromMemo(n) /\ node' = n /\ UNCHANGED batches
    BY <1>2, ServingStarts
  <2>2. Unpaid(n)
    BY <2>1, FrontierUnpaid DEF ServeFromMemo
  <2> QED
    BY <2>1, <2>2 DEF Unpaid
<1> QED
  BY <1>1, <1>2

\* What is known of the waves, the nodes and the rows, at every step.
LEMMA GroundInvariant == FindExact => (Spec => []Ground)
<1> SUFFICES ASSUME FindExact PROVE Spec => []Ground
  OBVIOUS
<1>1. Init => PendInv /\ ServeInv
  BY DEF Init, PendInv, ServeInv, Serving, ItemPcs
<1>2. FindExact /\ Known /\ NodeInv /\ OnceInv /\ MissInv /\ PendInv /\ ServeInv /\ [Next]_vars
        => PendInv' /\ ServeInv'
  BY PendStep, ServeStep
<1>3. Ground <=> /\ Known /\ NodeInv /\ ExpiredInv /\ OnceInv /\ RecordInv
                 /\ MissInv /\ PendInv /\ ServeInv
  BY DEF Ground
<1>4. ReuseInv => MissInv
  BY DEF ReuseInv
<1> QED
  BY <1>1, <1>2, <1>3, <1>4, OnceInvariant, RecordInvariant, ReuseInvariant, PTL DEF Spec

\* A served node that stays as it is stays accounted for.
LEMMA AstrayStays ==
  ASSUME Ground, [Next]_vars, NEW n \in Node, Astray(n),
         status'[n] \in {"HARVESTED", "RETURNED"}
  PROVE  Astray(n)'
<1> USE DEF durable, waves, tables, world, memory, frontier, group, hand, process, bounds
<1>1. MemoHit(n)' /\ Unpaid(n)'
  BY UnpaidStays DEF Ground, Astray
<1>2. ASSUME crashes' = 0 PROVE Serving' /\ node' = n
  <2>1. Serving /\ node = n /\ ~Crash
    BY <1>2, CrashesCounted DEF Ground, Astray
  <2>2. pc' \in ItemPcs
    <3> USE DEF SetStatus
    <3>1. ~ReEnqueue
      BY <2>1 DEF ReEnqueue, Ground, ExpiredInv, Refused, Serving
    <3>2. ASSUME Validate, pc' \notin ItemPcs PROVE FALSE
      BY <2>1, <3>2 DEF Validate, ItemPcs
    <3>3. ASSUME ApplyDiff, pc' \notin ItemPcs PROVE FALSE
      BY <2>1, <3>3 DEF ApplyDiff, ItemPcs
    <3>4. ~NodeDone
      BY <2>1 DEF NodeDone
    <3>5. ~ForeignKeyError
      BY <2>1 DEF ForeignKeyError, Refused, Serving
    <3> HIDE DEF SetStatus
    <3> QED
      BY <2>1, <3>1, <3>2, <3>3, <3>4, <3>5, StepsAt
      DEF vars, Provider, BatchEnds, Serving, ItemPcs, PutMemo, ItemReturned, LinkItem,
          ItemExpired, RecordApplied, RecordAs
  <2> QED
    BY <2>1, <2>2, ItemStays DEF Ground, Serving
<1> QED
  BY <1>1, <1>2 DEF Astray

\* The step that ends the processing of the node in hand.
Leaves(n) ==
  /\ InHand(n)
  /\ \/ ReEnqueue \/ Validate \/ NodeDone
     \/ ApplyDiff /\ status'[n] = "NEEDS_HUMAN"

\* A node the wave in flight has still to come to stays ahead until its item
\* is done, unless the provider left its item out.
LEMMA AheadStep ==
  ASSUME Ground, [Next]_vars, NEW n \in Node, Ahead(n)
  PROVE  \/ Ahead(n)'
         \/ Leaves(n) /\ pc' = "fetch"
         \/ OnWave /\ n \in wave.items /\ batches[ref].out[n] = "missing"
<1> USE DEF durable, waves, tables, world, memory, frontier, group, hand, process, bounds
<1>0. /\ HandInv /\ AnswerInv /\ BarrierInv /\ PlaceInv /\ ~Serving /\ Known
      /\ ref \in 0..Len(batches)
  <2>1. /\ HandInv /\ AnswerInv /\ BarrierInv /\ PlaceInv /\ Known
        /\ ref \in 0..Len(batches)
    BY DEF Ground, Known, TypeInv, LoopInv, NodeInv, TypeOK, ProcessType
  <2>2. ~Serving
    BY <2>1 DEF Ahead, BarrierInv, Serving, OnWave, ItemPcs
  <2> QED
    BY <2>1, <2>2
<1>1. PICK w \in InFlight : n \in w.items
  BY DEF Ahead
<1>2. CASE CompleteWave
  BY <1>0, <1>2 DEF CompleteWave, CloseWave, Ahead, InHand, HandInv, WavePcs, ItemPcs
<1>3. ASSUME ~CompleteWave PROVE w \in InFlight'
  <2>1. completed' = completed
    BY <1>3, Writers
  <2> QED
    BY <1>1, <2>1, SubmittedGrows DEF InFlight
<1>4. ASSUME w \in InFlight', ref' = 0 \/ pc' \notin {"fetch"} \cup ItemPcs PROVE Ahead(n)'
  BY <1>1, <1>4 DEF Ahead
<1>5. ASSUME w \in InFlight', UNCHANGED <<ref, queue>>,
             pc \in {"fetch"} \cup ItemPcs,
             InHand(n) => pc' \in ItemPcs /\ node' = node
      PROVE  Ahead(n)'
  BY <1>1, <1>5 DEF Ahead, InHand
<1>6. CASE FetchResults
  <2>1. n \in wave.items /\ OnWave
    BY <1>0, <1>1, <1>6 DEF FetchResults, BarrierInv, OnWave
  <2>2. completed' = completed
    BY <1>6 DEF FetchResults
  <2>3. batches[ref].out[n] # "missing" => n \in queue'
    BY <1>6, <2>1 DEF FetchResults
  <2>4. w \in InFlight' /\ ref' = ref
    BY <1>1, <1>6, <2>2 DEF FetchResults, InFlight
  <2> QED
    BY <1>1, <2>1, <2>3, <2>4 DEF Ahead
<1>7. ASSUME NEW m \in queue, TakeItem(m) PROVE Ahead(n)'
  <2>1. /\ pc = "fetch" /\ pc' = "item" /\ node' = m /\ queue' = queue \ {m}
        /\ ref # 0 /\ ref' = ref
        /\ UNCHANGED <<submitted, completed>>
    BY <1>0, <1>7 DEF TakeItem, HandInv, WavePcs
  <2>2. n \in queue
    BY <2>1 DEF Ahead, InHand, ItemPcs
  <2> QED
    BY <1>1, <2>1, <2>2 DEF Ahead, InHand, ItemPcs, InFlight
<1>8. ASSUME pc \in ItemPcs, pc' \in ItemPcs PROVE Ahead(n)'
  <2>1. UNCHANGED <<node, ref, queue>>
    BY <1>0, <1>8, ItemStays
  <2>2. ~CompleteWave
    BY <1>8 DEF CompleteWave, CloseWave, ItemPcs
  <2> QED
    BY <1>3, <1>5, <1>8, <2>1, <2>2
<1>9. ASSUME pc \in ItemPcs, pc' \notin ItemPcs PROVE Ahead(n)' \/ (Leaves(n) /\ pc' = "fetch")
  <2>1. ref # 0
    BY <1>0, <1>9 DEF Serving
  <2>2. ~CompleteWave
    BY <1>9 DEF CompleteWave, CloseWave, ItemPcs
  <2>3. \/ pc' = "idle"
        \/ /\ \/ ReEnqueue \/ Validate \/ NodeDone
              \/ ApplyDiff /\ status' = SetStatus({node}, "NEEDS_HUMAN")
           /\ pc' = "fetch" /\ UNCHANGED <<ref, queue>>
    <3>1. ReEnqueue \/ Validate \/ NodeDone \/ ApplyDiff \/ pc' = "idle"
      BY <1>9, <2>1, StepsAt
      DEF vars, Provider, BatchEnds, Crash, Exit, ItemPcs, PutMemo, ItemReturned, LinkItem,
          ItemExpired, ForeignKeyError, RecordApplied, RecordAs
    <3>2. CASE ReEnqueue
      BY <2>1, <3>2 DEF ReEnqueue, ItemDone
    <3>3. CASE Validate
      BY <1>9, <2>1, <3>3 DEF Validate, ItemDone, ItemPcs
    <3>4. CASE NodeDone
      BY <2>1, <3>4 DEF NodeDone, ItemDone
    <3>5. CASE ApplyDiff
      BY <1>9, <2>1, <3>5 DEF ApplyDiff, ItemDone, ItemPcs
    <3> QED
      BY <3>1, <3>2, <3>3, <3>4, <3>5
  <2>4. ASSUME n = node PROVE InHand(n) /\ SetStatus({node}, "NEEDS_HUMAN")[n] = "NEEDS_HUMAN"
    BY <1>9, <2>1, <2>4 DEF InHand, SetStatus
  <2> QED
    BY <1>3, <1>4, <1>5, <1>9, <2>2, <2>3, <2>4 DEF Leaves, InHand, ItemPcs
<1>10. ASSUME pc = "fetch", pc' = "fetch" PROVE Ahead(n)'
  <2>1. UNCHANGED <<ref, queue>> /\ ~CompleteWave
    BY <1>10, StepsAt DEF vars, Provider, BatchEnds, Crash, Exit, TakeItem, CompleteWave, CloseWave
  <2> QED
    BY <1>3, <1>5, <1>10, <2>1 DEF InHand, ItemPcs
<1>11. CASE pc \in ItemPcs
  BY <1>8, <1>9, <1>11
<1>12. CASE pc = "fetch"
  <2>1. \/ \E m \in queue : TakeItem(m)
        \/ CompleteWave \/ pc' = "fetch" \/ pc' = "idle"
    BY <1>12, StepsAt DEF vars, Provider, BatchEnds, Crash, Exit
  <2>2. pc' = "idle" => ~CompleteWave
    BY DEF CompleteWave, CloseWave
  <2> QED
    BY <1>2, <1>3, <1>4, <1>7, <1>10, <1>12, <2>1, <2>2 DEF ItemPcs
<1>13. CASE pc \notin {"fetch"} \cup ItemPcs
  <2>1. ASSUME pc' \in {"fetch"} \cup ItemPcs, ~FetchResults PROVE ref' = 0
    <3>1. ASSUME NEW m \in queue, ServeFromMemo(m) PROVE ref' = 0
      BY <1>0, <3>1 DEF ServeFromMemo, HandInv, WavePcs, ItemPcs
    <3>2. \E m \in queue : ServeFromMemo(m)
      BY <1>13, <2>1, Enters
    <3> QED
      BY <3>1, <3>2
  <2>2. ~CompleteWave
    BY <1>13 DEF CompleteWave, CloseWave
  <2> QED
    BY <1>3, <1>4, <1>6, <2>1, <2>2
<1> QED
  BY <1>11, <1>12, <1>13

\* A served node that was RETURNED is moved by its own processing only, and is in no wave.
LEMMA StrayStays ==
  ASSUME FindExact, Ground, [Next]_vars, NEW n \in Node, MemoHit(n), Unpaid(n),
         status[n] = "RETURNED", \A w \in InFlight : n \notin w.items
  PROVE  /\ \A w \in InFlight' : n \notin w.items
         /\ status'[n] = "RETURNED" \/ (Serving /\ node = n)
<1> USE DEF durable, waves, tables, world, memory, frontier, group, hand, process, bounds
<1>0. /\ Known /\ NodeInv /\ PlaceInv /\ StatusInv /\ UnrecordedInv /\ LogInv
  BY DEF Ground, Known, LoopInv, NodeInv
<1>1. ASSUME NEW w \in InFlight', w \notin InFlight PROVE n \notin w.items
  <2>1. completed \subseteq completed'
    BY Writers DEF CompleteWave, CloseWave
  <2>2. w \notin DOMAIN submitted
    BY <1>1, <2>1 DEF InFlight
  <2>3. RecordSubmit \/ \E v \in recon, b \in 1..Len(batches) : AdoptBatch(v, b)
    BY <1>1, <2>2, Writers DEF InFlight
  <2>4. CASE RecordSubmit
    <3>1. w = wave
      BY <1>1, <2>2, <2>4 DEF RecordSubmit, Put, InFlight
    <3> QED
      BY <1>0, <2>4, <3>1 DEF RecordSubmit, StatusInv
  <2>5. ASSUME NEW v \in recon, NEW b \in 1..Len(batches), AdoptBatch(v, b)
        PROVE  n \notin w.items
    <3>1. w = v /\ batches[b].key = w
      BY <1>1, <2>2, <2>5 DEF AdoptBatch, Put, InFlight
    <3> QED
      BY <1>0, <2>2, <3>1 DEF UnrecordedInv
  <2> QED
    BY <2>3, <2>4, <2>5
<1>2. ASSUME pc \in ItemPcs, node = n PROVE Serving
  <2>1. ASSUME ref # 0 PROVE FALSE
    BY <1>0, <1>2, <2>1, InHandInFlight DEF InHand
  <2> QED
    BY <1>2, <2>1 DEF Serving
<1>3. ~(pc = "local" /\ node = n)
  BY <1>0 DEF StatusInv
<1> QED
  BY <1>0, <1>1, <1>2, <1>3, HeldStays

\* A diff that is only in the worktree stays one a resume comes to, or that of a memo hit.
LEMMA RecoverStep ==
  ASSUME FindExact, Ground, RecoverInv, [Next]_vars
  PROVE  RecoverInv'
<1> USE DEF durable, waves, tables, world, memory, frontier, group, hand, process, bounds
<1> DEFINE Comes(n, d) == DiffOf[n] = d /\ GoodIn(n) /\ (status[n] = "NEEDS_HUMAN" \/ Ahead(n))
           Strays(n, d) == /\ MemoHit(n) /\ Unpaid(n) /\ DiffOf[memo[Prompt[n]].by] = d
                           /\ status[n] = "RETURNED" /\ \A w \in InFlight : n \notin w.items
                           /\ Serving /\ node = n => pc \in {"ledger", "done"}
<1>0. /\ Known /\ NodeInv /\ ExpiredInv /\ OnceInv /\ RecordInv /\ KindInv /\ MissInv
      /\ HandInv /\ AnswerInv /\ StatusInv /\ BarrierInv
  BY DEF Ground, RecordInv, Known, TypeInv, NodeInv, LoopInv
<1>1. ASSUME NEW d \in landed', d \notin landed, ref # 0
      PROVE  \E n \in Node : Kind[n] = "diff" /\ Comes(n, d)'
  <2>1. ApplyDiff
    BY <1>1, Writers
  <2>2. ref # 0 /\ pc \in ItemPcs
    BY <1>1, <2>1 DEF ApplyDiff, ItemPcs
  <2>3. node \in Node /\ InHand(node)
    BY <1>0, <2>2 DEF HandInv, NodePcs, InHand
  <2>4. /\ node \in wave.items /\ wave \in InFlight /\ batches[ref].key = wave
        /\ ref \in 1..Len(batches)
    BY <1>0, <2>3, InHandInFlight
  <2>5. Kind[node] = "diff" /\ batches[ref].out[node] = "good"
    BY <1>0, <2>1, <2>2 DEF ApplyDiff, KindInv, Answer
  <2>6. GoodIn(node)
    BY <2>4, <2>5 DEF GoodIn, InFlight
  <2>7. DiffOf[node] = d /\ pc' = "ledger"
    BY <1>1, <2>1, <2>2 DEF ApplyDiff, AnswerBy
  <2>8. UNCHANGED <<submitted, completed, ref>> /\ node' = node
    BY <2>1, <2>2, <2>7, ItemStays, <1>0 DEF ApplyDiff, ItemPcs
  <2>9. Ahead(node)'
    BY <2>2, <2>4, <2>7, <2>8 DEF Ahead, InHand, InFlight, ItemPcs
  <2>10. PICK n \in Node : n = node
    BY <2>3
  <2>11. GoodIn(n) /\ Ahead(n)'
    BY <2>6, <2>8, <2>9, <2>10
  <2>12. GoodIn(n)'
    BY <1>0, <2>11, GoodStays
  <2> QED
    BY <2>5, <2>7, <2>10, <2>11, <2>12
<1>2. ASSUME NEW d \in landed', d \notin landed, ref = 0
      PROVE  \E n \in Node : Kind[n] = "diff" /\ Strays(n, d)'
  <2>1. ApplyDiff
    BY <1>2, Writers
  <2>2. Serving /\ pc = "apply"
    BY <1>2, <2>1 DEF ApplyDiff, Serving, ItemPcs
  <2>3. /\ node \in Node /\ MemoHit(node) /\ Unpaid(node) /\ Kind[node] = "diff"
        /\ status[node] = "RETURNED"
    BY <1>0, <2>2 DEF HandInv, NodePcs, AnswerInv, KindInv, StatusInv, Serving, Ground, ServeInv
  <2>4. /\ DiffOf[memo[Prompt[node]].by] = d /\ pc' = "ledger"
        /\ UNCHANGED <<status, memo, batches, submitted, completed, node>>
    BY <1>2, <2>1 DEF ApplyDiff, AnswerBy
  <2>5. InFlight = {}
    BY <1>0, <2>2 DEF BarrierInv, OnWave, Serving
  <2>6. PICK n \in Node : n = node
    BY <2>3
  <2>7. InFlight' = {}
    BY <2>4, <2>5 DEF InFlight
  <2>8. MemoHit(n)' /\ Unpaid(n)'
    BY <2>3, <2>4, <2>6 DEF MemoHit, Unpaid
  <2>9. DiffOf[memo'[Prompt[n]].by] = d /\ status'[n] = "RETURNED"
    BY <2>3, <2>4, <2>6
  <2> QED
    BY <2>3, <2>4, <2>6, <2>7, <2>8, <2>9
<1>3. ASSUME NEW d \in landed \ ledger, d \notin ledger', NEW n \in Node, Kind[n] = "diff",
             Comes(n, d)
      PROVE  Comes(n, d)'
  <2>2. GoodIn(n)'
    BY <1>0, <1>3, GoodStays
  <2>3. \/ status'[n] = "NEEDS_HUMAN"
        \/ Ahead(n)
    <3>1. ASSUME status[n] = "NEEDS_HUMAN", status'[n] # "NEEDS_HUMAN" PROVE InHand(n)
      BY <1>0, <3>1, NodeMoves DEF Moves, Settled
    <3>2. ASSUME InHand(n) PROVE Ahead(n)
      BY <1>0, <3>2, InHandInFlight DEF Ahead
    <3> QED
      BY <1>3, <3>1, <3>2
  <2>4. ASSUME Ahead(n) PROVE status'[n] = "NEEDS_HUMAN" \/ Ahead(n)'
    <3>1. OnWave => n \in wave.items /\ batches[ref].out[n] = "good"
      BY <1>0, <1>3, <2>4, GoodInWave DEF Ahead
    <3>2. ASSUME Leaves(n), pc' = "fetch" PROVE status'[n] = "NEEDS_HUMAN"
      <4>1. pc \in ItemPcs /\ ref # 0 /\ n = node /\ OnWave
        BY <3>2 DEF Leaves, InHand, OnWave
      <4>2. Answer = "good" /\ ~Refused /\ DiffOf[AnswerBy] = d
        BY <1>3, <3>1, <4>1 DEF Answer, Refused, AnswerBy
      <4>3. ~ReEnqueue
        BY <1>0, <4>2 DEF ReEnqueue, ExpiredInv
      <4>4. ~NodeDone
        BY <1>0, <1>3, <4>2 DEF NodeDone, KindInv
      <4>5. ~Validate
        BY <1>3, <3>2, <4>1, <4>2 DEF Validate, Breaks, NothingToApply
      <4> QED
        BY <3>2, <4>3, <4>4, <4>5 DEF Leaves
    <3> QED
      BY <2>4, <3>1, <3>2, AheadStep
  <2> QED
    BY <1>3, <2>2, <2>3, <2>4
<1>4. ASSUME NEW d \in landed \ ledger, d \notin ledger', NEW n \in Node, Kind[n] = "diff",
             Strays(n, d)
      PROVE  Strays(n, d)'
  <2>1. MemoHit(n)' /\ Unpaid(n)' /\ DiffOf[memo'[Prompt[n]].by] = d
    BY <1>0, <1>4, UnpaidStays
  <2>2. /\ \A w \in InFlight' : n \notin w.items
        /\ status'[n] = "RETURNED" \/ (Serving /\ node = n)
    BY <1>4, StrayStays
  <2>3. ASSUME Serving, node = n PROVE ~NodeDone /\ ~RecordApplied
    <3>1. DiffOf[AnswerBy] = d
      BY <1>4, <2>3 DEF AnswerBy, Serving
    <3> QED
      BY <1>0, <1>4, <3>1 DEF NodeDone, KindInv, RecordApplied, RecordAs
  <2>4. ASSUME Serving, node = n PROVE UNCHANGED status /\ pc' \in {pc, "idle"}
    <3>1. pc \in {"ledger", "done"}
      BY <1>4, <2>4
    <3> QED
      BY <2>3, <2>4, <3>1, StepsAt DEF vars, Provider, BatchEnds, Crash, Exit
  <2>5. ASSUME Serving', node' = n PROVE pc' \in {"ledger", "done"}
    <3>1. CASE Serving
      <4>1. node' = node
        BY <1>0, <2>5, <3>1, ItemStays DEF Serving
      <4> QED
        BY <1>4, <2>4, <2>5, <3>1, <4>1 DEF Serving, ItemPcs
    <3>2. CASE ~Serving
      <4>1. PICK m \in queue : ServeFromMemo(m) /\ node' = m
        BY <1>0, <2>5, <3>2, ServingStarts
      <4>2. status[m] \in Runnable
        BY <1>0, <4>1 DEF StatusInv, Waiting, ServeFromMemo
      <4> QED
        BY <1>4, <2>5, <4>1, <4>2 DEF Runnable
    <3> QED
      BY <3>1, <3>2
  <2> QED
    BY <1>4, <2>1, <2>2, <2>4, <2>5
<1>5. ledger \subseteq ledger'
  BY Writers DEF RecordApplied, RecordAs
<1>6. ASSUME NEW d \in landed' \ ledger'
      PROVE  \E n \in Node : Kind[n] = "diff" /\ (Comes(n, d)' \/ Strays(n, d)')
  <2>1. CASE d \notin landed
    BY <1>1, <1>2, <2>1
  <2>2. CASE d \in landed
    <3>1. PICK n \in Node : Kind[n] = "diff" /\ (Comes(n, d) \/ Strays(n, d))
      BY <1>5, <1>6, <2>2 DEF RecoverInv
    <3>2. d \in landed \ ledger
      BY <1>5, <1>6, <2>2
    <3>3. Comes(n, d) => Comes(n, d)'
      BY <1>3, <1>6, <3>1, <3>2
    <3>4. Strays(n, d) => Strays(n, d)'
      BY <1>4, <1>6, <3>1, <3>2
    <3> HIDE DEF Comes, Strays
    <3> QED
      BY <3>1, <3>3, <3>4
  <2> QED
    BY <2>1, <2>2
<1> QED
  BY <1>6 DEF RecoverInv

\* orchestrator.py:585, 776, 782, apply.py:147: if find_batch sees every batch, a diff that
\* is in the worktree and not in the ledger, a crash having come between, is one the wave in
\* flight brings the next process back to, or one whose node waits for a human, or the diff
\* of a cached answer, which is being processed or whose node the crash left behind.
THEOREM LandedNeverLost == FindExact => (Spec => []LandedIsRecovered)
<1> SUFFICES ASSUME FindExact PROVE Spec => []LandedIsRecovered
  OBVIOUS
<1>1. Init => RecoverInv
  BY DEF Init, RecoverInv
<1>2. FindExact /\ Ground /\ RecoverInv /\ [Next]_vars => RecoverInv'
  BY RecoverStep
<1>3. RecoverInv => LandedIsRecovered
  BY DEF RecoverInv, LandedIsRecovered, Ahead, Served
<1> QED
  BY <1>1, <1>2, <1>3, GroundInvariant, PTL DEF Spec

-----------------------------------------------------------------------------
(* No node is stranded.                                                    *)

\* How a node comes to be part of the wave in flight, or is served from the memo.
LEMMA TakenUp ==
  ASSUME Ground, [Next]_vars, NEW n \in Node, status'[n] # status[n],
         status'[n] \in {"SUBMITTED", "RETURNED", "EXPIRED"}
  PROVE  Ahead(n)' \/ (status'[n] = "RETURNED" /\ Astray(n)')
<1> USE DEF durable, waves, tables, world, memory, frontier, group, hand, process, bounds
<1> USE DEF SetStatus
<1>0. /\ Known /\ PlaceInv /\ LogInv /\ PhaseInv
  BY DEF Ground, Known, LoopInv, NodeInv
<1>1. ASSUME NEW w \in recon, NEW b \in 1..Len(batches), AdoptBatch(w, b) PROVE Ahead(n)'
  <2>1. n \in w.items /\ w \in DOMAIN submitted' /\ completed' = completed /\ pc' = "poll"
    BY <1>1 DEF AdoptBatch, Put
  <2>2. w \notin completed
    BY <1>0 DEF PlaceInv, LogInv
  <2> QED
    BY <2>1, <2>2 DEF Ahead, InFlight, ItemPcs
<1>2. CASE RecordSubmit
  <2>1. n \in wave.items /\ wave \in DOMAIN submitted' /\ completed' = completed /\ pc' = "poll"
        /\ wave' = wave
    BY <1>2 DEF RecordSubmit, Put
  <2>2. wave \notin DOMAIN submitted
    BY <1>0, <1>2, FormedIsNew DEF RecordSubmit
  <2>3. wave \notin completed
    BY <1>0, <2>2 DEF LogInv
  <2> QED
    BY <2>1, <2>3 DEF Ahead, InFlight, ItemPcs
<1>s. CASE (ItemReturned \/ ItemExpired) /\ Serving
  <2>1. /\ pc = "link" /\ n = node /\ pc' \in ItemPcs /\ status'[n] = "RETURNED"
        /\ UNCHANGED <<ref, node, memo, batches>>
    BY <1>s DEF ItemReturned, LinkItem, ItemExpired, ItemPcs, Refused, Serving
  <2>2. MemoHit(n) /\ Unpaid(n)
    BY <1>0, <1>s, <2>1 DEF Serving, Ground, ServeInv, Known, TypeInv, AnswerInv
  <2> QED
    BY <1>s, <2>1, <2>2 DEF Astray, MemoHit, Unpaid, Serving
<1>3. CASE (ItemReturned \/ ItemExpired) /\ ~Serving
  <2>1. /\ pc = "link" /\ n = node /\ pc' \in ItemPcs
        /\ UNCHANGED <<submitted, completed, ref, wave, queue, node>>
    BY <1>3 DEF ItemReturned, LinkItem, ItemExpired, ItemPcs
  <2>2. ref # 0
    BY <1>3, <2>1 DEF Serving, ItemPcs
  <2>3. n \in wave.items /\ wave \in InFlight
    BY <1>0, <2>1, <2>2
    DEF Known, TypeInv, AnswerInv, PhaseInv, PlaceInv, OnWave, InFlight, ItemPcs
  <2> QED
    BY <2>1, <2>2, <2>3 DEF Ahead, InHand, InFlight
<1>4. ASSUME NEW S, NEW s, status' = SetStatus(S, s), s \notin {"SUBMITTED", "RETURNED", "EXPIRED"}
      PROVE  FALSE
  BY <1>4
<1>5. CASE UNCHANGED status
  BY <1>5
<1> HIDE DEF SetStatus
<1>6. \A s \in {"RE_ENQUEUED", "READY", "PENDING", "NEEDS_HUMAN", "HARVESTED", "EXECUTING_LOCAL",
                "DONE", "APPLIED"} : s \notin {"SUBMITTED", "RETURNED", "EXPIRED"}
  OBVIOUS
<1> QED
  BY <1>1, <1>2, <1>s, <1>3, <1>4, <1>5, <1>6, StatusWriters
  DEF ServeFromMemo, ApplyDiff, AutoApproveGate, Harvest, TemplateDone, FinishLocal, Validate,
      RecordApplied, RecordAs, NodeDone

\* What is harvested stays part of a wave a resume will ask the provider about, but for
\* what is served from the memo.
LEMMA FormedStep ==
  ASSUME FindExact, Ground, StrandInv, [Next]_vars, NEW n \in Node, status'[n] = "HARVESTED",
         ~Astray(n)'
  PROVE  Formed(n)'
<1> USE DEF durable, waves, tables, world, memory, frontier, group, hand, process, bounds
<1>0. /\ Known /\ PlaceInv /\ LogInv /\ PhaseInv /\ HandInv /\ NodeInv /\ OnceInv
  BY DEF Ground, Known, TypeInv, LoopInv, NodeInv
<1>s. \A S, s : status' = SetStatus(S, s) =>
        IF n \in S THEN s = "HARVESTED" ELSE status[n] = "HARVESTED"
  BY DEF SetStatus
<1>1. ASSUME status[n] # "HARVESTED" PROVE \E m \in queue : Harvest(m) /\ m = n
  <2>1. ASSUME NEW m \in queue, ServeFromMemo(m) PROVE FALSE
    <3>1. m = n /\ pc = "memo" /\ MemoHit(n) /\ pc' = "item" /\ ref' = ref /\ node' = n
          /\ UNCHANGED <<memo, batches>>
      BY <1>1, <1>s, <2>1 DEF ServeFromMemo
    <3>2. Unpaid(n)
      BY <1>0, <2>1, <3>1, FrontierUnpaid
    <3>3. Serving'
      BY <1>0, <3>1 DEF Serving, HandInv, WavePcs, ItemPcs
    <3> QED
      BY <3>1, <3>2, <3>3 DEF Astray, MemoHit, Unpaid
  <2>2. ASSUME NEW m \in queue, Harvest(m) PROVE m = n
    BY <1>1, <1>s, <2>2 DEF Harvest
  <2>3. ASSUME NEW S, NEW s, status' = SetStatus(S, s), s # "HARVESTED" PROVE FALSE
    BY <1>1, <1>s, <2>3
  <2>4. CASE UNCHANGED status
    BY <1>1, <2>4
  <2>5. \A s \in {"RE_ENQUEUED", "READY", "PENDING", "NEEDS_HUMAN", "EXECUTING_LOCAL",
                "DONE", "APPLIED", "SUBMITTED", "RETURNED", "EXPIRED"} : s # "HARVESTED"
    OBVIOUS
  <2> QED
    BY <2>1, <2>2, <2>3, <2>4, <2>5, StatusWriters
    DEF ApplyDiff, AutoApproveGate, RecordSubmit, AdoptBatch, ItemReturned, LinkItem, ItemExpired,
        TemplateDone, FinishLocal, Validate, RecordApplied, RecordAs, NodeDone
<1>2. CASE status[n] # "HARVESTED"
  BY <1>0, <1>1, <1>2 DEF Harvest, PlaceInv, Formed
<1>3. CASE status[n] = "HARVESTED"
  <2>0. Formed(n)
    BY <1>3, AstrayStays DEF StrandInv
  <2>1. CASE pc = "idle" /\ \E w \in formed \ DOMAIN submitted : n \in w.items
    <3>1. PICK w \in formed \ DOMAIN submitted : n \in w.items
      BY <2>1
    <3>2. w \notin completed
      BY <1>0, <3>1 DEF LogInv
    <3>3. CASE Start
      BY <3>1, <3>2, <3>3 DEF Start, Resumes, Formed, Resuming
    <3>4. UNCHANGED <<formed, submitted>>
      BY <2>1, StepsAt DEF vars, Provider, BatchEnds, Crash, Exit, Start, Resumes
    <3>5. CASE pc' = "idle"
      BY <3>1, <3>4, <3>5 DEF Formed
    <3> QED
      BY <2>1, <3>3, <3>5, StepsAt DEF vars, Provider, BatchEnds, Crash, Exit
  <2>2. ASSUME NEW w \in recon, n \in w.items, Resuming PROVE Formed(n)'
    <3>1. w \in formed \ DOMAIN submitted /\ iter = 0
      BY <1>0, <2>2 DEF LogInv, PlaceInv, Resuming, PhaseInv
    <3>2. pc \in {"resume", "unharvest", "poll", "fetch"} \cup ItemPcs
      BY <2>2 DEF Resuming, OnWave
    <3>3. ASSUME Resuming', w \in recon' PROVE Formed(n)'
      BY <2>2, <3>3 DEF Formed
    <3>4. ASSUME pc' = "idle", UNCHANGED <<formed, submitted>> PROVE Formed(n)'
      BY <2>2, <3>1, <3>4 DEF Formed
    <3>5. CASE pc = "resume"
      <4>1. ASSUME NEW v \in recon, NEW b \in 1..Len(batches), AdoptBatch(v, b) PROVE Formed(n)'
        <5>1. v # w
          BY <1>s, <2>2, <4>1 DEF AdoptBatch
        <5> QED
          BY <2>2, <3>1, <3>3, <4>1, <5>1 DEF AdoptBatch, Resuming, OnWave
      <4>2. ASSUME NEW v \in recon, NoBatchFound(v) PROVE Formed(n)'
        BY <1>3, <2>2, <3>3, <4>2 DEF NoBatchFound, GiveUpWave, Resuming, Formed
      <4>3. ASSUME NEW v \in DOMAIN submitted, ResumeInFlight(v) PROVE Formed(n)'
        BY <2>2, <3>1, <3>3, <4>3 DEF ResumeInFlight, Resuming, OnWave
      <4>4. CASE Crash
        BY <3>4, <4>4 DEF Crash, Exit
      <4>5. CASE UNCHANGED process
        BY <2>2, <3>3, <3>5, <4>5 DEF Resuming
      <4> QED
        BY <2>2, <3>5, <4>1, <4>2, <4>3, <4>4, <4>5, StepsAt
        DEF vars, Provider, BatchEnds, Resumed, EnterLoop
    <3>6. CASE pc # "resume"
      <4>1. OnWave => ref # 0
        BY <1>0 DEF OnWave, HandInv, WavePcs
      <4>2. \/ pc' = "idle" /\ UNCHANGED <<formed, submitted>>
            \/ recon' = recon /\ pc' \in {"resume", "unharvest"}
            \/ recon' = recon /\ iter' = iter /\ ref' # 0 /\ pc' \in {"poll", "fetch"} \cup ItemPcs
        <5>1. CASE pc = "unharvest"
          BY <5>1, StepsAt DEF vars, Provider, BatchEnds, Crash, Exit, Unharvest
        <5>2. CASE pc \in ItemPcs
          <6>1. ref # 0 /\ pc # "idle"
            BY <2>2, <4>1, <5>2 DEF Resuming, OnWave, ItemPcs
          <6> QED
            BY <5>2, <6>1, StepsAt
            DEF vars, Provider, BatchEnds, Crash, Exit, ItemPcs, PutMemo, ItemReturned, LinkItem,
                ItemExpired, ForeignKeyError, ReEnqueue, ItemDone, Validate, ApplyDiff,
                RecordApplied, RecordAs, NodeDone
        <5>3. CASE pc \in {"poll", "fetch"}
          BY <3>1, <4>1, <5>3, StepsAt
          DEF vars, Provider, BatchEnds, Crash, Exit, OnWave, ItemPcs, FetchResults, TakeItem,
              CompleteWave, CloseWave
        <5> QED
          BY <2>2, <3>2, <3>6, <5>1, <5>2, <5>3
      <4> QED
        BY <2>2, <3>1, <3>3, <3>4, <4>2 DEF Resuming, OnWave
    <3> QED
      BY <3>5, <3>6
  <2>3. CASE pc = "unharvest" /\ n \in queue
    <3>1. wave \in formed \ DOMAIN submitted /\ n \in wave.items
      BY <2>3 DEF StrandInv
    <3>2. CASE Unharvest
      <4>1. queue # {}
        BY <2>3
      <4>2. PICK m \in queue : /\ status' = SetStatus({m}, "RE_ENQUEUED")
                               /\ queue' = queue \ {m} /\ pc' = pc
        BY <3>2, <4>1 DEF Unharvest
      <4> QED
        BY <1>s, <2>3, <4>2 DEF Formed
    <3>3. CASE Crash
      BY <3>1, <3>3 DEF Crash, Exit, Formed
    <3>4. CASE UNCHANGED process
      BY <2>3, <3>4 DEF Formed
    <3> QED
      BY <2>3, <3>2, <3>3, <3>4, StepsAt DEF vars, Provider, BatchEnds
  <2>4. CASE pc \in {"harvest", "record"} /\ n \in wave.items
    <3>1. wave \in formed \ DOMAIN submitted
      BY <1>0, <2>4, FormedIsNew DEF PhaseInv
    <3>2. CASE Crash
      BY <2>4, <3>1, <3>2 DEF Crash, Exit, Formed
    <3>3. ~RecordSubmit
      BY <1>s, <2>4 DEF RecordSubmit
    <3>4. CASE UNCHANGED wave /\ pc' \in {"harvest", "record"}
      BY <2>4, <3>4 DEF Formed
    <3> QED
      BY <2>4, <3>2, <3>3, <3>4, StepsAt DEF vars, Provider, BatchEnds, Harvest, Submit
  <2> QED
    BY <2>0, <2>1, <2>2, <2>3, <2>4 DEF Formed
<1> QED
  BY <1>2, <1>3

\* A node is in the middle of a wave only while a process, or a resume, has the wave, or if
\* it was served from the memo, or left out.
LEMMA StrandStep ==
  ASSUME FindExact, Ground, StrandInv, [Next]_vars
  PROVE  StrandInv'
<1> USE DEF durable, waves, tables, world, memory, frontier, group, hand, process, bounds
<1>0. Known /\ NodeInv /\ PlaceInv /\ LogInv /\ HandInv /\ PhaseInv /\ OnceInv /\ PendInv
  BY DEF Ground, Known, TypeInv, LoopInv, NodeInv
<1>1. ASSUME NEW n \in Node, status'[n] \in {"SUBMITTED", "RETURNED", "EXPIRED"}
      PROVE  Ahead(n)' \/ LeftOut(n)' \/ (status'[n] = "RETURNED" /\ Astray(n)')
  <2>1. CASE status'[n] # status[n]
    BY <1>1, <2>1, TakenUp
  <2>2. CASE status'[n] = status[n]
    <3>1. Ahead(n) \/ LeftOut(n) \/ (status[n] = "RETURNED" /\ Astray(n))
      BY <1>1, <2>2 DEF StrandInv
    <3>2. ASSUME Leaves(n), pc' = "fetch" PROVE FALSE
      <4>1. \A s : status' = SetStatus({node}, s) => status'[n] = s
        BY <3>2 DEF Leaves, InHand, SetStatus
      <4> QED
        BY <1>1, <3>2, <4>1 DEF Leaves, ReEnqueue, Validate, NodeDone
    <3>3. ASSUME OnWave, n \in wave.items, batches[ref].out[n] = "missing" PROVE LeftOut(n)
      <4>1. ref \in 1..Len(batches) /\ batches[ref].key = wave
        BY <1>0, <3>3, BatchParts DEF OnWave, HandInv, WavePcs, Known, TypeInv, TypeOK, ProcessType
      <4>2. wave \in DOMAIN submitted
        BY <1>0, <3>3 DEF PhaseInv
      <4>3. status[n] = "SUBMITTED"
        BY <1>0, <3>3, <4>1, <4>2 DEF PendInv
      <4> QED
        BY <3>3, <4>1, <4>3 DEF LeftOut
    <3>4. ASSUME LeftOut(n) PROVE LeftOut(n)'
      <4>1. PICK b \in 1..Len(batches) : /\ n \in batches[b].key.items
                                         /\ batches[b].out[n] = "missing"
        BY <3>4 DEF LeftOut
      <4>2. b \in 1..Len(batches') /\ batches'[b] = batches[b]
        BY <1>0, <4>1, OutStays
      <4> QED
        BY <2>2, <3>4, <4>1, <4>2 DEF LeftOut
    <3>5. ASSUME status[n] = "RETURNED", Astray(n) PROVE Astray(n)'
      BY <2>2, <3>5, AstrayStays
    <3> QED
      BY <2>2, <3>1, <3>2, <3>3, <3>4, <3>5, AheadStep
  <2> QED
    BY <2>1, <2>2
<1>2. ASSUME pc' = "unharvest"
      PROVE  wave' \in formed' \ DOMAIN submitted' /\ queue' \subseteq wave'.items
  <2>1. ASSUME NEW w \in recon, NoBatchFound(w)
        PROVE  wave' \in formed' \ DOMAIN submitted' /\ queue' \subseteq wave'.items
    BY <1>0, <2>1 DEF NoBatchFound, GiveUpWave, LogInv, PlaceInv
  <2>2. ASSUME pc = "unharvest", UNCHANGED <<wave, formed, submitted>>, queue' \subseteq queue
        PROVE  wave' \in formed' \ DOMAIN submitted' /\ queue' \subseteq wave'.items
    BY <2>2 DEF StrandInv
  <2> QED
    BY <1>2, <2>1, <2>2, Enters, StepsAt DEF vars, Provider, BatchEnds, Crash, Exit, Unharvest
<1> QED
  BY <1>1, <1>2, FormedStep DEF StrandInv

\* Who is in the middle of a wave, through every step.
LEMMA StrandInvariant == FindExact => (Spec => [](Ground /\ StrandInv))
<1> SUFFICES ASSUME FindExact PROVE Spec => [](Ground /\ StrandInv)
  OBVIOUS
<1>1. Init => StrandInv
  BY DEF Init, StrandInv
<1>2. FindExact /\ Ground /\ StrandInv /\ [Next]_vars => StrandInv'
  BY StrandStep
<1> QED
  BY <1>1, <1>2, GroundInvariant, PTL DEF Spec

-----------------------------------------------------------------------------
(* How many waves there are.                                               *)

\* The nodes an iteration has taken further, and left to no later one.
Spent == {n \in Node : status[n] \notin Runnable \cup {"ABSENT"}}

\* The items of the wave at hand whose results are still to be processed.
ToCome == IF pc \in {"record", "poll"} THEN wave.items
          ELSE queue \cup IF pc \in {"item", "link", "expired"} THEN {node} ELSE {}

\* The failed ones among them: each of these nodes goes back on the frontier.
Owed == IF ref = 0 THEN {} ELSE {n \in ToCome : batches[ref].out[n] = "failed"}

\* The nodes of this iteration's frontier that it has not taken further yet.
Pending == Waiting \cup IF pc = "fanout" THEN {node} ELSE {}

\* Every iteration takes a node further for good, or is paid for by a failed item.
Paid(spare) == iter + Cardinality(Owed) <= Cardinality(Spent) + failed + spare

WavesInv ==
  /\ pc \in ItemPcs => node \notin queue
  /\ iter # 0 => Paid(1) /\ (Pending = {} => Paid(0))

\* As many iterations as there are nodes and failed items: the frontier is empty.
WavesBounded == pc = "loop" /\ Frontier # {} => iter < Cardinality(Node) + failed

\* The wave cap does not stop a job that has nodes to run.
EnoughWaves == Cardinality(Node) + MaxFailed <= MaxWaves

\* A step on which no node goes back: what was pending is pending or spent.
Forward ==
  /\ UNCHANGED <<iter, failed>>
  /\ Spent \subseteq Spent'
  /\ Owed' \subseteq Owed
  /\ Pending' \subseteq Pending
  /\ Pending \subseteq Pending' \cup Spent'

\* The sets that are counted are finite, and no pending node is spent.
LEMMA Counted ==
  Known /\ NodeInv =>
    /\ IsFiniteSet(Spent) /\ Spent \subseteq Node /\ Cardinality(Spent) \in Nat
    /\ IsFiniteSet(Owed) /\ Cardinality(Owed) \in Nat
    /\ Pending \subseteq Node /\ Pending \cap Spent = {}
    /\ iter \in Nat /\ failed \in Nat
<1> SUFFICES ASSUME Known, NodeInv
             PROVE  /\ IsFiniteSet(Spent) /\ Spent \subseteq Node /\ Cardinality(Spent) \in Nat
                    /\ IsFiniteSet(Owed) /\ Cardinality(Owed) \in Nat
                    /\ Pending \subseteq Node /\ Pending \cap Spent = {}
                    /\ iter \in Nat /\ failed \in Nat
  OBVIOUS
<1> USE PlanAssumption, BoundAssumption
<1>1. /\ todo \subseteq Node /\ remote \subseteq Node /\ queue \subseteq Node /\ miss \subseteq Node
      /\ wave.items \subseteq Node /\ (pc \in NodePcs => node \in Node)
      /\ iter \in Nat /\ failed \in Nat
  BY BatchParts DEF Known, TypeInv, TypeOK, ProcessType, BoundType, HandInv
<1>2. Spent \subseteq Node /\ ToCome \subseteq Node /\ Owed \subseteq Node
  BY <1>1 DEF Spent, ToCome, Owed, NodePcs, ItemPcs
<1>3. IsFiniteSet(Spent) /\ IsFiniteSet(Owed)
  BY <1>2, FS_Subset
<1>4. Pending \subseteq Node
  BY <1>1 DEF Pending, Waiting, NodePcs
<1>5. \A n \in Pending : status[n] \in Runnable
  BY DEF NodeInv, StatusInv, Pending
<1> QED
  BY <1>1, <1>2, <1>3, <1>4, <1>5, FS_CardinalityType DEF Spent

\* A step forward keeps the count.
LEMMA ForwardCounts ==
  ASSUME Known, NodeInv, Forward, Paid(1), Pending = {} => Paid(0)
  PROVE  Paid(1)' /\ (Pending' = {} => Paid(0)')
<1>1. /\ IsFiniteSet(Spent) /\ IsFiniteSet(Owed)
      /\ Cardinality(Spent) \in Nat /\ Cardinality(Owed) \in Nat
      /\ Pending \cap Spent = {} /\ iter \in Nat /\ failed \in Nat
  BY Counted
<1>2. IsFiniteSet(Spent') /\ Cardinality(Spent') \in Nat /\ Cardinality(Owed') \in Nat
  <2>1. Spent' \in SUBSET Node /\ Owed' \in SUBSET Owed
    BY DEF Spent, Forward
  <2> QED
    BY <1>1, <2>1, PlanAssumption, FS_Subset, FS_CardinalityType
<1>3. Cardinality(Spent) <= Cardinality(Spent') /\ Cardinality(Owed') <= Cardinality(Owed)
  BY <1>1, <1>2, FS_Subset DEF Forward
<1>4. ASSUME Pending # {}, Pending' = {} PROVE Cardinality(Spent) < Cardinality(Spent')
  <2>1. Spent \in SUBSET Spent' /\ Spent # Spent'
    BY <1>1, <1>4 DEF Forward
  <2>2. Cardinality(Spent) # Cardinality(Spent')
    BY <1>2, <2>1, FS_Subset
  <2> QED
    BY <1>1, <1>2, <1>3, <2>2
<1>5. iter' = iter /\ failed' = failed /\ (Pending = {} => Pending' = {})
  BY DEF Forward
<1>6. Paid(1)'
  BY <1>1, <1>2, <1>3, <1>5 DEF Paid
<1>7. CASE Pending = {}
  BY <1>1, <1>2, <1>3, <1>5, <1>6, <1>7 DEF Paid
<1>8. CASE Pending # {} /\ Pending' = {}
  BY <1>1, <1>2, <1>3, <1>4, <1>5, <1>6, <1>8 DEF Paid
<1> QED
  BY <1>6, <1>7, <1>8

\* What a new status does to the nodes that are spent.
LEMMA SpentBy ==
  ASSUME NEW S, NEW s, status' = SetStatus(S, s)
  PROVE  /\ s \notin Runnable \cup {"ABSENT"} => Spent' = Spent \cup (S \cap Node)
         /\ s \in Runnable \cup {"ABSENT"} => Spent' = Spent \ S
  BY DEF Spent, SetStatus

\* Dispatching takes a node off the iteration's hands or on to the remote wave.
LEMMA DispatchForward ==
  ASSUME Known, NodeInv, pc = "dispatch", NEW n \in todo,
         \/ MarkReady(n) \/ AutoApproveGate(n) \/ ResolveTemplate(n)
         \/ NoBindings(n) \/ StartLocal(n) \/ CollectRemote(n)
  PROVE  Forward
<1> USE DEF durable, waves, tables, world, memory, frontier, group, hand, process, bounds
<1>0. /\ ref = 0 /\ n \in Pending /\ n \in Node
      /\ Pending = todo \cup remote /\ Pending \cap Spent = {} /\ n \notin remote
  BY Counted
  DEF Known, TypeInv, HandInv, WavePcs, ItemPcs, Pending, Waiting, Serving, NodeInv, PlaceInv
<1> USE DEF Forward, Owed, Pending, Waiting, Serving, ItemPcs, Runnable
<1>1. CASE MarkReady(n)
  <2>1. Spent' = Spent
    BY <1>0, <1>1, SpentBy DEF MarkReady
  <2> QED
    BY <1>0, <1>1, <2>1 DEF MarkReady
<1>2. CASE AutoApproveGate(n)
  BY <1>0, <1>2, SpentBy DEF AutoApproveGate, Dispatching
<1>3. CASE ResolveTemplate(n)
  <2>1. Spent' = Spent
    BY <1>0, <1>3, SpentBy DEF ResolveTemplate, Spent
  <2> QED
    BY <1>0, <1>3, <2>1 DEF ResolveTemplate, Dispatching
<1>4. CASE NoBindings(n)
  BY <1>0, <1>4, SpentBy DEF NoBindings, Dispatching
<1>5. CASE StartLocal(n)
  BY <1>0, <1>5, SpentBy DEF StartLocal, Dispatching
<1>6. CASE CollectRemote(n)
  <2>1. Spent' = Spent
    BY <1>6 DEF CollectRemote, Spent
  <2> QED
    BY <1>0, <1>6, <2>1 DEF CollectRemote, Dispatching
<1> QED
  BY <1>1, <1>2, <1>3, <1>4, <1>5, <1>6

\* The rest of an iteration outside the waves: the node at hand, the ends of its parts.
LEMMA IterationForward ==
  ASSUME Known, NodeInv,
         TemplateDone \/ FinishLocal \/ EndDispatch \/ NextGroup \/ EndGroups
  PROVE  Forward
<1> USE DEF durable, waves, tables, world, memory, frontier, group, hand, process, bounds
<1>0. /\ HandInv /\ PlaceInv /\ (pc \in {"fanout", "local"} => node \in Node)
  BY DEF Known, TypeInv, HandInv, NodePcs, NodeInv
<1> USE DEF Forward, Owed, Pending, Waiting, Serving, ItemPcs, HandInv, WavePcs, PlaceInv
<1>1. CASE TemplateDone
  BY <1>0, <1>1, SpentBy DEF TemplateDone, Runnable
<1>2. CASE FinishLocal
  BY <1>0, <1>2, SpentBy DEF FinishLocal, Runnable
<1>3. CASE EndDispatch \/ EndGroups
  <2>1. Spent' = Spent
    BY <1>3 DEF EndDispatch, EndGroups, Spent
  <2> QED
    BY <1>0, <1>3, <2>1 DEF EndDispatch, EndGroups
<1>4. CASE NextGroup
  <2>1. Spent' = Spent
    BY <1>4 DEF NextGroup, Spent
  <2>2. queue' \subseteq remote /\ remote' = remote \ queue' /\ miss' = {} /\ todo' = todo
    BY <1>4 DEF NextGroup
  <2> QED
    BY <1>0, <1>4, <2>1, <2>2 DEF NextGroup
<1> QED
  BY <1>1, <1>2, <1>3, <1>4

\* Asking the memo, and harvesting the nodes of a new wave.
LEMMA MemoForward ==
  ASSUME Known, NodeInv,
         \/ \E n \in queue : ServeFromMemo(n) \/ MissMemo(n) \/ Harvest(n)
         \/ AllCached \/ FormWave
  PROVE  Forward
<1> USE DEF durable, waves, tables, world, memory, frontier, group, hand, process, bounds
<1>0. /\ HandInv /\ PlaceInv /\ queue \subseteq Node
  BY DEF Known, TypeInv, TypeOK, ProcessType, NodeInv
<1> USE DEF Forward, Owed, Pending, Waiting, Serving, ItemPcs, HandInv, WavePcs, PlaceInv
<1>1. ASSUME NEW n \in queue, ServeFromMemo(n) PROVE Forward
  BY <1>0, <1>1, SpentBy DEF ServeFromMemo, Runnable
<1>2. ASSUME NEW n \in queue, MissMemo(n) PROVE Forward
  <2>1. Spent' = Spent
    BY <1>2 DEF MissMemo, Spent
  <2> QED
    BY <1>0, <1>2, <2>1 DEF MissMemo
<1>3. ASSUME NEW n \in queue, Harvest(n) PROVE Forward
  BY <1>0, <1>3, SpentBy DEF Harvest, Runnable
<1>4. CASE AllCached
  <2>1. Spent' = Spent
    BY <1>4 DEF AllCached, Spent
  <2> QED
    BY <1>0, <1>4, <2>1 DEF AllCached
<1>5. CASE FormWave
  <2>1. Spent' = Spent
    BY <1>5 DEF FormWave, SealWave, Spent
  <2> QED
    BY <1>0, <1>5, <2>1 DEF FormWave, SealWave
<1> QED
  BY <1>1, <1>2, <1>3, <1>4, <1>5

\* A wave in the loop is new to the provider: submitting it makes a batch.
LEMMA NewBatch ==
  ASSUME FindExact, Known, Submit
  PROVE  /\ ref' = Len(batches) + 1 /\ Len(batches) \in Nat
         /\ \A n \in Node : batches'[ref'].out[n] = "pending"
<1>1. wave \notin DOMAIN known
  <2>1. ASSUME wave \in DOMAIN known PROVE FALSE
    <3>1. known[wave] \in 1..Len(batches) /\ batches[known[wave]].key = wave
      BY <2>1 DEF Known, TypeInv, TypeOK, ProcessType, RefsMatch
    <3>2. wave \in DOMAIN submitted
      BY <3>1, QuietInTheLoop DEF Submit, Known, Bought
    <3> QED
      BY <3>2, FormedIsNew DEF Submit
  <2> QED
    BY <2>1
<1>2. batches \in Seq(Batch)
  BY DEF Known, TypeInv, TypeOK, WorldType
<1>3. /\ ref' = Len(batches) + 1
      /\ batches' = Append(batches, [key |-> wave, out |-> [n \in Node |-> "pending"]])
  BY <1>1 DEF Submit
<1>4. /\ Len(batches) \in Nat
      /\ batches'[Len(batches) + 1] = [key |-> wave, out |-> [n \in Node |-> "pending"]]
  BY <1>2, <1>3
<1> QED
  BY <1>3, <1>4

\* Sending a wave, and taking up its results one by one.
LEMMA WaveForward ==
  ASSUME FindExact, Known, NodeInv, iter # 0,
         \/ Submit \/ RecordSubmit \/ FetchResults \/ CompleteWave
         \/ \E n \in queue : TakeItem(n)
  PROVE  Forward
<1> USE DEF durable, waves, tables, world, memory, frontier, group, hand, process, bounds
<1>0. /\ HandInv /\ PlaceInv /\ queue \subseteq Node /\ wave.items \subseteq Node
  BY BatchParts DEF Known, TypeInv, TypeOK, ProcessType, NodeInv
<1> USE DEF Forward, Owed, ToCome, Pending, Waiting, Serving, ItemPcs, HandInv, WavePcs, PlaceInv
<1>1. CASE Submit
  <2>1. Spent' = Spent /\ pc' = "record" /\ wave' = wave
    BY <1>1 DEF Submit, Spent
  <2>2. Owed' = {}
    BY <1>0, <1>1, <2>1, NewBatch
  <2> QED
    BY <1>0, <1>1, <2>1, <2>2 DEF Submit
<1>2. CASE RecordSubmit
  <2>1. Spent \subseteq Spent'
    BY <1>2, SpentBy DEF RecordSubmit, Runnable
  <2> QED
    BY <1>0, <1>2, <2>1 DEF RecordSubmit
<1>3. CASE FetchResults
  <2>1. Spent' = Spent
    BY <1>3 DEF FetchResults, Spent
  <2> QED
    BY <1>0, <1>3, <2>1 DEF FetchResults
<1>4. CASE CompleteWave
  <2>1. Spent' = Spent
    BY <1>4 DEF CompleteWave, CloseWave, Spent
  <2> QED
    BY <1>0, <1>4, <2>1 DEF CompleteWave, CloseWave
<1>5. ASSUME NEW n \in queue, TakeItem(n) PROVE Forward
  <2>1. Spent' = Spent
    BY <1>5 DEF TakeItem, Spent
  <2> QED
    BY <1>0, <1>5, <2>1 DEF TakeItem
<1> QED
  BY <1>1, <1>2, <1>3, <1>4, <1>5

\* Processing an item to its end.
LEMMA ItemForward ==
  ASSUME Known, NodeInv,
         \/ PutMemo \/ ItemReturned \/ ItemExpired \/ Validate \/ ApplyDiff \/ RecordApplied
         \/ NodeDone
  PROVE  Forward
<1> USE DEF durable, waves, tables, world, memory, frontier, group, hand, process, bounds
<1>0. HandInv /\ PlaceInv
  BY DEF Known, TypeInv, NodeInv
<1> USE DEF Forward, Owed, ToCome, Pending, Waiting, Serving, ItemPcs
<1>1. CASE PutMemo
  <2>1. Spent' = Spent
    BY <1>1 DEF PutMemo, Spent
  <2> QED
    BY <1>0, <1>1, <2>1 DEF PutMemo
<1>2. CASE ItemReturned
  BY <1>0, <1>2, SpentBy DEF ItemReturned, LinkItem, Runnable
<1>3. CASE ItemExpired
  BY <1>0, <1>3, SpentBy DEF ItemExpired, Runnable
<1>4. CASE Validate
  <2>1. Spent \subseteq Spent'
    BY <1>4, SpentBy DEF Validate, Runnable, Spent
  <2> QED
    BY <1>0, <1>4, <2>1 DEF Validate, ItemDone
<1>5. CASE ApplyDiff
  <2>1. Spent \subseteq Spent'
    BY <1>5, SpentBy DEF ApplyDiff, Runnable, Spent
  <2> QED
    BY <1>0, <1>5, <2>1 DEF ApplyDiff, ItemDone
<1>6. CASE RecordApplied
  <2>1. Spent \subseteq Spent'
    BY <1>6, SpentBy DEF RecordApplied, RecordAs, Runnable, Spent
  <2> QED
    BY <1>0, <1>6, <2>1 DEF RecordApplied, RecordAs
<1>7. CASE NodeDone
  <2>1. Spent \subseteq Spent'
    BY <1>7, SpentBy DEF NodeDone, Runnable
  <2> QED
    BY <1>0, <1>7, <2>1 DEF NodeDone, ItemDone
<1> QED
  BY <1>1, <1>2, <1>3, <1>4, <1>5, <1>6, <1>7

\* A failed item goes back on the frontier: it is owed no longer.
LEMMA ReEnqueueCounts ==
  ASSUME Known, NodeInv, ExpiredInv, node \notin queue, ReEnqueue, Paid(1), Pending = {} => Paid(0)
  PROVE  Paid(1)' /\ (Pending' = {} => Paid(0)')
<1> USE DEF durable, waves, tables, world, memory, frontier, group, hand, process, bounds
<1>1. /\ pc = "expired" /\ ref # 0 /\ batches[ref].out[node] = "failed" /\ node \in Node
      /\ status' = SetStatus({node}, "RE_ENQUEUED") /\ pc' = "fetch"
      /\ UNCHANGED <<iter, failed, ref, queue, batches, todo, remote>>
  BY DEF ReEnqueue, ItemDone, ExpiredInv, Refused, Known, TypeInv, HandInv, NodePcs, ItemPcs
<1>2. /\ IsFiniteSet(Spent) /\ IsFiniteSet(Owed)
      /\ Cardinality(Spent) \in Nat /\ Cardinality(Owed) \in Nat
      /\ iter \in Nat /\ failed \in Nat
  BY Counted
<1>3. Spent' = Spent \ {node}
  BY <1>1, SpentBy DEF Runnable
<1>4. node \in Owed /\ Owed' = Owed \ {node}
  BY <1>1 DEF Owed, ToCome
<1>5. Pending' = Pending
  BY <1>1 DEF Pending, Waiting, Serving, ItemPcs
<1>6. Cardinality(Owed') = Cardinality(Owed) - 1
  BY <1>2, <1>4, FS_RemoveElement
<1>7. /\ Cardinality(Spent') \in Nat
      /\ Cardinality(Spent') = Cardinality(Spent) \/ Cardinality(Spent') = Cardinality(Spent) - 1
  BY <1>2, <1>3, FS_RemoveElement, FS_CardinalityType
<1> QED
  BY <1>1, <1>2, <1>5, <1>6, <1>7 DEF Paid

\* A batch ends: what it owes the loop are the failures it counts.
LEMMA EndCounts ==
  ASSUME Known, NodeInv, NEW b \in 1..Len(batches), BatchEnds(b),
         Paid(1), Pending = {} => Paid(0)
  PROVE  Paid(1)' /\ (Pending' = {} => Paid(0)')
<1> USE DEF durable, waves, tables, world, memory, frontier, group, hand, process, bounds
<1>1. PICK out \in [batches[b].key.items -> Outcome \ {"pending"}] :
        /\ failed' = failed + Cardinality({n \in DOMAIN out : out[n] = "failed"})
        /\ batches' = [batches EXCEPT ![b].out =
                         [n \in Node |-> IF n \in DOMAIN out THEN out[n] ELSE @[n]]]
  BY DEF BatchEnds
<1> DEFINE bad == {n \in DOMAIN out : out[n] = "failed"}
<1>2. /\ batches \in Seq(Batch) /\ batches[b] \in Batch /\ batches[b].key.items \subseteq Node
      /\ ref \in 0..Len(batches)
  BY BatchParts DEF Known, TypeInv, TypeOK, WorldType, ProcessType
<1>3. IsFiniteSet(bad) /\ Cardinality(bad) \in Nat
  <2>1. bad \in SUBSET Node
    BY <1>2
  <2> HIDE DEF bad
  <2> QED
    BY <2>1, PlanAssumption, FS_Subset, FS_CardinalityType
<1>4. /\ IsFiniteSet(Spent) /\ IsFiniteSet(Owed)
      /\ Cardinality(Spent) \in Nat /\ Cardinality(Owed) \in Nat
      /\ iter \in Nat /\ failed \in Nat
  BY Counted
<1>5. /\ UNCHANGED <<status, pc, todo, remote, queue, miss, node, ref, wave, iter>>
      /\ Spent' = Spent /\ Pending' = Pending /\ ToCome' = ToCome
  BY DEF BatchEnds, Spent, Pending, Waiting, Serving, ToCome
<1>6. /\ \A n \in Node : batches'[b].out[n] = IF n \in DOMAIN out THEN out[n] ELSE batches[b].out[n]
      /\ \A a \in 1..Len(batches) : a # b => batches'[a] = batches[a]
  BY <1>1, <1>2 DEF Batch
<1>7. CASE ref # b
  <2>1. Owed' = Owed
    <3>1. ref # 0 => batches'[ref] = batches[ref]
      BY <1>2, <1>6, <1>7
    <3> QED
      BY <1>5, <3>1 DEF Owed
  <2>2. failed' \in Nat /\ failed <= failed'
    BY <1>1, <1>3, <1>4
  <2> HIDE DEF bad
  <2> QED
    BY <1>4, <1>5, <2>1, <2>2 DEF Paid
<1>8. CASE ref = b
  <2>1. pc \in {"record", "poll"}
    BY <1>8 DEF BatchEnds, Known, TypeInv, HandInv, AnswerInv, WavePcs
  <2>2. wave.items = batches[b].key.items /\ ref # 0
    BY <1>8 DEF Known, TypeInv, HandInv
  <2>3. Owed' = bad
    BY <1>2, <1>5, <1>6, <1>8, <2>1, <2>2 DEF Owed, ToCome
  <2>4. failed' = failed + Cardinality(Owed')
    BY <1>1, <2>3
  <2>5. Cardinality(Owed') \in Nat
    BY <1>3, <2>3
  <2>6. iter' = iter /\ Spent' = Spent /\ Pending' = Pending
    BY <1>5
  <2> HIDE DEF bad
  <2> QED
    BY <1>4, <2>4, <2>5, <2>6 DEF Paid
<1> QED
  BY <1>7, <1>8

\* An iteration begins with nothing owed and a frontier to take further.
LEMMA IterationCounts ==
  ASSUME Known, NodeInv, NextIteration, iter # 0 => Paid(1) /\ (Pending = {} => Paid(0))
  PROVE  Paid(1)' /\ (Pending' = {} => Paid(0)')
<1> USE DEF durable, waves, tables, world, memory, frontier, group, hand, process, bounds
<1>1. /\ pc = "loop" /\ pc' = "dispatch" /\ iter' = iter + 1 /\ todo' = Frontier /\ Frontier # {}
      /\ UNCHANGED <<status, ref, failed>>
  BY DEF NextIteration, TakeFrontier
<1>2. ref = 0 /\ todo = {} /\ remote = {}
  BY <1>1 DEF Known, TypeInv, HandInv, WavePcs, ItemPcs, NodeInv, PlaceInv
<1>3. /\ Cardinality(Spent) \in Nat /\ iter \in Nat /\ failed \in Nat
  BY Counted
<1>4. /\ Owed = {} /\ Owed' = {} /\ Spent' = Spent /\ Pending = {} /\ Pending' # {}
  BY <1>1, <1>2 DEF Owed, Spent, Pending, Waiting, Serving, ItemPcs
<1>5. Cardinality(Owed) = 0 /\ Cardinality(Owed') = 0
  BY <1>4, FS_EmptySet
<1>6. iter # 0 => iter <= Cardinality(Spent) + failed
  BY <1>3, <1>4, <1>5 DEF Paid
<1>7. iter + 1 <= Cardinality(Spent) + failed + 1
  BY <1>3, <1>6
<1> QED
  BY <1>1, <1>3, <1>4, <1>5, <1>7 DEF Paid

\* The iteration counter goes up at the top of the loop only.
LEMMA IterWriters ==
  ASSUME [Next]_vars
  PROVE  UNCHANGED iter \/ iter' = 0 \/ NextIteration
<1> USE DEF durable, waves, tables, world, memory, frontier, group, hand, process, bounds
<1> QED
  BY DEF Next, Run, Resume, Dispatch, RemoteWave, ProcessWave, Provider, vars, Crash, Exit, Start,
      Resumes, ResumeInFlight, NoBatchFound, AdoptBatch, GiveUpWave, Unharvest, Resumed, EnterLoop,
      MarkReady, AutoApproveGate, ResolveTemplate, NoBindings, StartLocal,
      CollectRemote, Dispatching, TemplateDone, FinishLocal, EndDispatch, NextGroup, EndGroups,
      ServeFromMemo, MissMemo, AllCached, FormWave, SealWave, Harvest, Submit, RecordSubmit,
      FetchResults, TakeItem, PutMemo, ItemReturned, LinkItem, ItemExpired, ForeignKeyError,
      ReEnqueue, ItemDone, Validate, ApplyDiff, RecordApplied, RecordAs, NodeDone,
      CompleteWave, CloseWave, Finalize, BatchEnds

\* Every step keeps the count, whatever crashes.
LEMMA WavesStep ==
  ASSUME FindExact, Known, NodeInv, ExpiredInv, WavesInv, [Next]_vars
  PROVE  WavesInv'
<1> USE DEF durable, waves, tables, world, memory, frontier, group, hand, process, bounds
<1>1. ASSUME pc' \in ItemPcs PROVE node' \notin queue'
  <2>1. CASE pc \in ItemPcs
    BY <1>1, <2>1, ItemStays DEF WavesInv
  <2>2. ASSUME NEW n \in queue, ServeFromMemo(n) \/ TakeItem(n) PROVE node' \notin queue'
    BY <2>2 DEF ServeFromMemo, TakeItem
  <2> QED
    BY <1>1, <2>1, <2>2, Enters, StepsAt
    DEF vars, Provider, BatchEnds, Crash, Exit, ItemPcs, FetchResults, CompleteWave, CloseWave
<1>2. ASSUME iter' # 0 PROVE Paid(1)' /\ (Pending' = {} => Paid(0)')
  <2>1. CASE NextIteration
    BY <2>1, IterationCounts DEF WavesInv
  <2>2. CASE iter = 0
    BY <1>2, <2>1, <2>2, IterWriters
  <2>3. CASE iter # 0 /\ ~NextIteration
    <3>1. Paid(1) /\ (Pending = {} => Paid(0))
      BY <2>3 DEF WavesInv
    <3>2. CASE Forward
      BY <3>1, <3>2, ForwardCounts
    <3>3. CASE ReEnqueue
      BY <3>1, <3>3, ReEnqueueCounts DEF ReEnqueue, ItemPcs, WavesInv
    <3>4. ASSUME NEW b \in 1..Len(batches), BatchEnds(b)
          PROVE  Paid(1)' /\ (Pending' = {} => Paid(0)')
      BY <3>1, <3>4, EndCounts
    <3>5. CASE UNCHANGED vars
      BY <3>5, <3>2 DEF vars, Forward, Spent, Owed, ToCome, Pending, Waiting, Serving
    <3>6. ~(Crash \/ Finalize \/ ForeignKeyError)
      BY <1>2 DEF Crash, Finalize, ForeignKeyError, Exit
    <3>7. pc \notin {"idle", "resume", "unharvest"}
      BY <2>3 DEF Known, LoopInv, PhaseInv
    <3> QED
      BY <2>3, <3>2, <3>3, <3>4, <3>5, <3>6, <3>7, StepsAt, DispatchForward, IterationForward,
         MemoForward, WaveForward, ItemForward DEF Provider
  <2> QED
    BY <2>1, <2>2, <2>3
<1> QED
  BY <1>1, <1>2 DEF WavesInv

\* orchestrator.py:269, config.py:25: the loop does not run away.  It takes as many
\* frontiers as the job has nodes and failed items, at the most, whatever crashed: a cap
\* (max_waves) as high never stops a job that has nodes to run.
THEOREM WavesAreBounded == FindExact => (Spec => []WavesBounded)
<1> SUFFICES ASSUME FindExact PROVE Spec => []WavesBounded
  OBVIOUS
<1>1. Init => WavesInv
  BY DEF Init, WavesInv, ItemPcs
<1>2. FindExact /\ Known /\ NodeInv /\ ExpiredInv /\ WavesInv /\ [Next]_vars => WavesInv'
  BY WavesStep
<1>3. Known /\ NodeInv /\ WavesInv => WavesBounded
  <2> SUFFICES ASSUME Known, NodeInv, WavesInv, pc = "loop", NEW n \in Frontier
               PROVE  iter < Cardinality(Node) + failed
    BY DEF WavesBounded
  <2>1. /\ Cardinality(Spent) \in Nat /\ Spent \in SUBSET Node /\ iter \in Nat /\ failed \in Nat
        /\ Cardinality(Owed) \in Nat
    BY Counted
  <2>2. n \in Node /\ n \notin Spent
    BY DEF Frontier, Spent
  <2>3. Cardinality(Spent) < Cardinality(Node) /\ Cardinality(Node) \in Nat
    <3>1. IsFiniteSet(Node)
      BY PlanAssumption
    <3>2. Cardinality(Spent) <= Cardinality(Node) /\ Cardinality(Node) \in Nat
      BY <2>1, <3>1, FS_Subset, FS_CardinalityType
    <3>3. Cardinality(Node) # Cardinality(Spent)
      BY <2>1, <2>2, <3>1, FS_Subset
    <3> QED
      BY <2>1, <3>2, <3>3
  <2>4. Pending = {}
    BY DEF NodeInv, PlaceInv, Pending, Waiting, Serving, ItemPcs
  <2>5. iter # 0 => iter + Cardinality(Owed) <= Cardinality(Spent) + failed + 0
    BY <2>4 DEF WavesInv, Paid
  <2> QED
    BY <2>1, <2>3, <2>5
<1> QED
  BY <1>1, <1>2, <1>3, NodeInvariant, PTL DEF Spec

-----------------------------------------------------------------------------
(* What a template waits for.                                              *)

\* The kinds with an answer in _local_outputs.
Content == {"explore", "call", "diff"}

\* A template that waits for a list of bindings waits for no answer that is none:
\* _resolve_template takes the first dependency that has an answer.
ListPlan ==
  /\ \A d \in ListAnswer : Kind[d] \in Content
  /\ \A t \in Node : Kind[t] = "template" /\ Deps[t] \cap ListAnswer # {} =>
       \A d \in Deps[t] \cup StarDeps[t] : Kind[d] \in Content => d \in ListAnswer

\* No wave is open but the one at hand.
OpenInv ==
  /\ recon = {} /\ pc # "unharvest"
  /\ formed \subseteq DOMAIN submitted \cup IF pc \in {"harvest", "record"} THEN {wave} ELSE {}

\* What is in _local_outputs.
OutputInv ==
  /\ \A n \in outputs : Kind[n] \in Content
  /\ pc \in {"validate", "apply", "ledger", "done"} => node \in outputs

\* Every answer that was given is in _local_outputs.
Live ==
  /\ \A n \in Node : Kind[n] \in Content /\ status[n] \in Success => n \in outputs
  /\ iter = 0 => InFlight = {}

\* There is nothing left to dispatch.
Over == pc \in {"idle", "resume", "loop"} /\ Frontier = {} /\ InFlight = {}

\* A failed item of w whose call_items row would have no llm_calls row to refer to.
Dangling(w, n) ==
  /\ Terminal(batches[submitted[w]]) /\ batches[submitted[w]].out[n] = "failed"
  /\ memo[Prompt[n]].answer # "absent"
  /\ ~RowExists(<<w, n>>)

\* Every resume comes to such an item, and fails on it.
Stuck ==
  /\ iter = 0 /\ (pc \in {"idle", "resume"} \/ OnWave)
  /\ \E w \in InFlight : \E n \in w.items :
       /\ Dangling(w, n)
       /\ pc \in {"fetch"} \cup ItemPcs => n \in queue \/ (n = node /\ pc \in {"item", "link"})

\* What goes to the provider, or comes from the memo instead, is for remote nodes.
RemoteInv ==
  /\ \A n \in remote : Kind[n] \in Remote
  /\ pc = "memo" \/ Serving => \A n \in queue \cup miss : Kind[n] \in Remote
  /\ Serving => Kind[node] \in Remote
  /\ \A w \in formed : \A n \in w.items : Kind[n] \in Remote

LinkInv == pc = "link" => memo[Prompt[node]].answer # "absent"

KeepInv == crashes = 0 => OpenInv /\ OutputInv /\ (Live \/ Over \/ Stuck)

\* A call_items row is only ever short of the llm_calls row by an item that failed.
LEMMA LinkStep ==
  ASSUME Known, LinkInv, [Next]_vars
  PROVE  LinkInv'
<1> USE DEF durable, waves, tables, world, memory, frontier, group, hand, process, bounds
<1> SUFFICES ASSUME pc' = "link" PROVE memo'[Prompt[node']].answer # "absent"
  BY DEF LinkInv
<1>1. pc \in ItemPcs
  BY Enters, StepsAt
  DEF vars, Provider, BatchEnds, Crash, Exit, ItemPcs, ServeFromMemo, FetchResults, TakeItem,
      CompleteWave, CloseWave
<1>2. node' = node /\ node \in Node /\ Prompt[node] \in Key
  BY <1>1, ItemStays, BatchParts DEF ItemPcs, Known, TypeInv, HandInv, NodePcs
<1>3. CASE PutMemo
  <2>1. memo \in [Key -> Row \cup {NoRow}]
    BY DEF Known, TypeInv, TypeOK, DurableType
  <2>2. CASE memo[Prompt[node]] # NoRow
    <3>1. memo[Prompt[node]].answer # "absent"
      BY <1>2, <2>1, <2>2 DEF Row
    <3> QED
      BY <1>2, <1>3, <2>2, <3>1 DEF PutMemo
  <2>3. CASE memo[Prompt[node]] = NoRow
    <3>1. Refused \/ Answer \in {"good", "bad"}
      BY <1>1, AnswerType DEF Known
    <3>2. memo'[Prompt[node]].answer = IF Refused THEN "none" ELSE Answer
      BY <1>2, <1>3, <2>1, <2>3 DEF PutMemo
    <3> QED
      BY <1>2, <3>1, <3>2
  <2> QED
    BY <2>2, <2>3
<1>4. CASE pc = "link"
  BY <1>2, <1>4, RowsStay DEF LinkInv
<1> QED
  BY <1>1, <1>3, <1>4, StepsAt
  DEF vars, Provider, BatchEnds, Crash, Exit, ItemPcs, ReEnqueue, Validate, ApplyDiff,
      RecordApplied, RecordAs, NodeDone, ItemDone

\* Only nodes of a remote kind are collected for the remote wave.
LEMMA RemoteStep ==
  ASSUME Known, NodeInv, RemoteInv, [Next]_vars
  PROVE  RemoteInv'
<1> USE DEF durable, waves, tables, world, memory, frontier, group, hand, process, bounds
<1>0. HandInv /\ PlaceInv
  BY DEF Known, TypeInv, NodeInv
<1>1. \A w \in formed' : \A n \in w.items : Kind[n] \in Remote
  <2>1. CASE FormWave
    BY <2>1 DEF FormWave, SealWave, RemoteInv
  <2>2. CASE UNCHANGED formed
    BY <2>2 DEF RemoteInv
  <2> QED
    BY <2>1, <2>2, StepsAt
    DEF vars, Provider, BatchEnds, Crash, Start, Resumes, ResumeInFlight, NoBatchFound, GiveUpWave,
        AdoptBatch, Resumed, EnterLoop, Unharvest, NextIteration, TakeFrontier, Finalize,
        MarkReady, AutoApproveGate, ResolveTemplate, NoBindings, StartLocal, CollectRemote,
        EndDispatch, TemplateDone, FinishLocal, NextGroup, EndGroups, ServeFromMemo, MissMemo,
        AllCached, Harvest, Submit, RecordSubmit, FetchResults, TakeItem, CompleteWave, CloseWave,
        PutMemo, ItemReturned, LinkItem, ItemExpired, ForeignKeyError, ReEnqueue, Validate,
        ApplyDiff, RecordApplied, RecordAs, NodeDone
<1>2. \A n \in remote' : Kind[n] \in Remote
  <2>1. ASSUME NEW n \in todo, CollectRemote(n) PROVE \A m \in remote' : Kind[m] \in Remote
    BY <2>1 DEF CollectRemote, RemoteInv
  <2>2. CASE remote' \subseteq remote
    BY <2>2 DEF RemoteInv
  <2> QED
    BY <2>1, <2>2, StepsAt
    DEF vars, Provider, BatchEnds, Crash, Exit, Start, Resumes, ResumeInFlight, NoBatchFound,
        GiveUpWave,
        AdoptBatch, Resumed, EnterLoop, Unharvest, NextIteration, TakeFrontier, Finalize,
        MarkReady, AutoApproveGate, ResolveTemplate, NoBindings, StartLocal,
        EndDispatch, TemplateDone, FinishLocal, NextGroup, EndGroups, ServeFromMemo, MissMemo,
        AllCached, FormWave, SealWave, Harvest, Submit, RecordSubmit, FetchResults, TakeItem,
        CompleteWave, CloseWave,
        PutMemo, ItemReturned, LinkItem, ItemExpired, ForeignKeyError, ReEnqueue, Validate,
        ApplyDiff, RecordApplied, RecordAs, NodeDone
<1>3. ASSUME pc' = "memo" \/ Serving'
      PROVE  \A n \in queue' \cup miss' : Kind[n] \in Remote
  <2>1. CASE NextGroup
    BY <2>1 DEF NextGroup, RemoteInv
  <2>2. ASSUME pc = "memo" \/ Serving, queue' \cup miss' \subseteq queue \cup miss
        PROVE  \A n \in queue' \cup miss' : Kind[n] \in Remote
    BY <2>2 DEF RemoteInv
  <2>3. CASE pc = "memo"
    BY <1>3, <2>2, <2>3, StepsAt
    DEF vars, Provider, BatchEnds, Crash, Exit, ServeFromMemo, MissMemo, AllCached, FormWave,
        SealWave, Serving, ItemPcs
  <2>4. CASE Serving
    BY <1>3, <2>2, <2>4, StepsAt
    DEF vars, Provider, BatchEnds, Crash, Exit, Serving, ItemPcs, PutMemo, ItemReturned, LinkItem,
        ItemExpired, ForeignKeyError, ReEnqueue, Validate, ApplyDiff, RecordApplied, RecordAs,
        NodeDone, ItemDone
  <2>5. CASE pc # "memo" /\ ~Serving
    BY <1>0, <1>3, <2>1, <2>5, StepsAt, StepsTo
    DEF vars, Provider, BatchEnds, Crash, Exit, Serving, ItemPcs, PutMemo, ItemReturned, LinkItem,
        ItemExpired, ForeignKeyError, ReEnqueue, Validate, ApplyDiff, RecordApplied, RecordAs,
        NodeDone, ItemDone, TakeItem, FetchResults, HandInv, WavePcs
  <2> QED
    BY <2>3, <2>4, <2>5
<1>4. ASSUME Serving' PROVE Kind[node'] \in Remote
  <2>1. CASE pc \in ItemPcs
    BY <1>4, <2>1, ItemStays DEF Serving, RemoteInv
  <2>2. ASSUME NEW n \in queue, ServeFromMemo(n) PROVE Kind[node'] \in Remote
    BY <2>2 DEF ServeFromMemo, RemoteInv
  <2>3. ~\E n \in queue : TakeItem(n)
    BY <1>0, <1>4 DEF Serving, TakeItem, HandInv, WavePcs
  <2> QED
    BY <1>4, <2>1, <2>2, <2>3, Enters, StepsAt
    DEF vars, Provider, BatchEnds, Crash, Exit, Serving, ItemPcs, FetchResults, CompleteWave,
        CloseWave
<1> QED
  BY <1>1, <1>2, <1>3, <1>4 DEF RemoteInv

\* What the proof that the answers are kept is from.
Kept == /\ Known /\ NodeInv /\ ExpiredInv /\ ReadyInv /\ RecordInv /\ LinkInv /\ RemoteInv
        /\ KeepInv

\* While nothing crashed, no wave is left open.
LEMMA OpenStep ==
  ASSUME Known, OpenInv, [Next]_vars, ~Crash
  PROVE  OpenInv'
<1> USE DEF durable, waves, tables, world, memory, frontier, group, hand, process, bounds
<1>1. recon' = {}
  <2>1. CASE Start
    BY <2>1 DEF Start, Resumes, OpenInv
  <2>2. CASE recon' \subseteq recon
    BY <2>2 DEF OpenInv
  <2> QED
    BY <2>1, <2>2, StepsAt
    DEF vars, Provider, BatchEnds, Exit, ResumeInFlight, NoBatchFound,
        GiveUpWave, AdoptBatch, Resumed, EnterLoop, Unharvest, NextIteration, TakeFrontier,
        Finalize, MarkReady, AutoApproveGate, ResolveTemplate, NoBindings, StartLocal,
        CollectRemote,
        EndDispatch, TemplateDone, FinishLocal, NextGroup, EndGroups, ServeFromMemo, MissMemo,
        AllCached, FormWave, SealWave, Harvest, Submit, RecordSubmit, FetchResults, TakeItem,
        CompleteWave, CloseWave,
        PutMemo, ItemReturned, LinkItem, ItemExpired, ForeignKeyError, ReEnqueue, Validate,
        ApplyDiff, RecordApplied, RecordAs, NodeDone
<1>2. pc' # "unharvest"
  BY Enters DEF OpenInv
<1>3. DOMAIN submitted \subseteq DOMAIN submitted'
  BY SubmittedGrows
<1>4. CASE FormWave
  BY <1>1, <1>2, <1>3, <1>4 DEF FormWave, SealWave, OpenInv
<1>5. CASE RecordSubmit
  BY <1>1, <1>2, <1>5 DEF RecordSubmit, Put, OpenInv
<1>6. CASE /\ formed' = formed
           /\ pc \in {"harvest", "record"} => pc' \in {"harvest", "record"} /\ wave' = wave
  BY <1>1, <1>2, <1>3, <1>6 DEF OpenInv
<1> QED
  BY <1>1, <1>2, <1>4, <1>5, <1>6, StepsAt
    DEF vars, Provider, BatchEnds, Start, Resumes, ResumeInFlight, NoBatchFound, GiveUpWave,
        AdoptBatch, Resumed, EnterLoop, Unharvest, NextIteration, TakeFrontier, Finalize,
        MarkReady, AutoApproveGate, ResolveTemplate, NoBindings, StartLocal, CollectRemote,
        EndDispatch, TemplateDone, FinishLocal, NextGroup, EndGroups, ServeFromMemo, MissMemo,
        AllCached, Harvest, Submit, FetchResults, TakeItem, CompleteWave, CloseWave,
        PutMemo, ItemReturned, LinkItem, ItemExpired, ForeignKeyError, ReEnqueue, Validate,
        ApplyDiff, RecordApplied, RecordAs, NodeDone

\* The item at hand is a remote node's.
LEMMA ItemRemote ==
  ASSUME Known, RemoteInv, pc \in ItemPcs
  PROVE  node \in Node /\ Kind[node] \in Remote
<1>1. node \in Node
  BY DEF Known, TypeInv, HandInv, NodePcs
<1>2. CASE ref = 0
  BY <1>1, <1>2 DEF Serving, RemoteInv
<1>3. CASE ref # 0
  BY <1>1, <1>3
  DEF Known, TypeInv, AnswerInv, LoopInv, PhaseInv, LogInv, OnWave, RemoteInv
<1> QED
  BY <1>2, <1>3

\* An answer stays in _local_outputs until the process is gone.
LEMMA OutputsStay ==
  ASSUME [Next]_vars, ~Crash, ~Finalize, ~ForeignKeyError
  PROVE  /\ outputs \subseteq outputs'
         /\ outputs' = outputs \/ FinishLocal \/ ItemReturned
<1> USE DEF durable, waves, tables, world, memory, frontier, group, hand, process, bounds
<1>1. CASE FinishLocal \/ ItemReturned
  BY <1>1 DEF FinishLocal, ItemReturned
<1>2. CASE outputs' = outputs
  BY <1>2
<1> QED
  BY <1>1, <1>2
  DEF Next, Run, Resume, Dispatch, RemoteWave, ProcessWave, Provider, vars, Start,
      Resumes, ResumeInFlight, NoBatchFound, AdoptBatch, GiveUpWave, Unharvest, Resumed, EnterLoop,
      NextIteration, TakeFrontier,
      MarkReady, AutoApproveGate, ResolveTemplate, NoBindings, StartLocal,
      CollectRemote, Dispatching, TemplateDone, EndDispatch, NextGroup, EndGroups,
      ServeFromMemo, MissMemo, AllCached, FormWave, SealWave, Harvest, Submit, RecordSubmit,
      FetchResults, TakeItem, PutMemo, ItemExpired,
      ReEnqueue, ItemDone, Validate, ApplyDiff, RecordApplied, RecordAs, NodeDone,
      CompleteWave, CloseWave, BatchEnds

\* ... and the iteration counter does not go back.
LEMMA IterStays ==
  ASSUME Known, [Next]_vars, ~Crash, ~Finalize, ~ForeignKeyError
  PROVE  iter' = 0 => iter = 0
<1> USE DEF durable, waves, tables, world, memory, frontier, group, hand, process, bounds
<1>1. NextIteration => iter' = iter + 1 /\ iter \in Nat
  BY DEF NextIteration, TakeFrontier, Known, TypeInv, TypeOK, ProcessType
<1>2. NextIteration \/ iter' = iter
  BY DEF Next, Run, Resume, Dispatch, RemoteWave, ProcessWave, Provider, vars, Start,
      Resumes, ResumeInFlight, NoBatchFound, AdoptBatch, GiveUpWave, Unharvest, Resumed, EnterLoop,
      MarkReady, AutoApproveGate, ResolveTemplate, NoBindings, StartLocal,
      CollectRemote, Dispatching, TemplateDone, FinishLocal, EndDispatch, NextGroup, EndGroups,
      ServeFromMemo, MissMemo, AllCached, FormWave, SealWave, Harvest, Submit, RecordSubmit,
      FetchResults, TakeItem, PutMemo, ItemReturned, LinkItem, ItemExpired,
      ReEnqueue, ItemDone, Validate, ApplyDiff, RecordApplied, RecordAs, NodeDone,
      CompleteWave, CloseWave, BatchEnds
<1> QED
  BY <1>1, <1>2

\* What _local_outputs holds stays what it says.
LEMMA OutputStep ==
  ASSUME Known, NodeInv, RecordInv, RemoteInv, OutputInv, [Next]_vars
  PROVE  OutputInv'
<1> USE DEF durable, waves, tables, world, memory, frontier, group, hand, process, bounds
<1>1. CASE Crash \/ Finalize \/ ForeignKeyError
  BY <1>1 DEF Crash, Finalize, ForeignKeyError, Exit, OutputInv
<1>2. CASE ~Crash /\ ~Finalize /\ ~ForeignKeyError
  <2>1. outputs \subseteq outputs' /\ (outputs' = outputs \/ FinishLocal \/ ItemReturned)
    BY <1>2, OutputsStay
  <2>2. \A n \in outputs' : Kind[n] \in Content
    <3>1. CASE FinishLocal
      BY <3>1 DEF FinishLocal, OutputInv, Content
    <3>2. CASE ItemReturned
      <4>1. Kind[node] \in Remote
        BY <3>2, ItemRemote DEF ItemReturned, LinkItem, ItemPcs
      <4> QED
        BY <3>2, <4>1 DEF ItemReturned, OutputInv, Content, Remote
    <3> QED
      BY <2>1, <3>1, <3>2 DEF OutputInv
  <2>3. ASSUME pc' \in {"validate", "apply", "ledger", "done"} PROVE node' \in outputs'
    <3>1. pc \in ItemPcs
      BY <2>3, Enters, StepsAt
      DEF vars, Provider, BatchEnds, Crash, Exit, ItemPcs, ServeFromMemo, FetchResults, TakeItem,
          CompleteWave, CloseWave
    <3>2. node' = node
      BY <2>3, <3>1, ItemStays DEF ItemPcs
    <3>3. CASE ItemReturned
      BY <3>2, <3>3 DEF ItemReturned
    <3>4. CASE pc \in {"validate", "apply", "ledger", "done"}
      BY <2>1, <3>2, <3>4 DEF OutputInv
    <3> QED
      BY <1>2, <2>3, <3>1, <3>3, <3>4, StepsAt
      DEF vars, Provider, BatchEnds, ItemPcs, PutMemo, ItemExpired, ReEnqueue, ItemDone
  <2> QED
    BY <2>2, <2>3 DEF OutputInv
<1> QED
  BY <1>1, <1>2

\* How a node comes to succeed.
LEMMA Succeeds ==
  ASSUME Known, RecordInv, [Next]_vars, NEW n \in Node,
         status[n] \notin Success, status'[n] \in Success
  PROVE  \/ Kind[n] \in {"gate", "template"}
         \/ FinishLocal /\ n = node /\ status'[n] = "DONE"
         \/ pc \in {"validate", "apply", "ledger", "done"} /\ n = node
<1> USE DEF durable, waves, tables, world, memory, frontier, group, hand, process, bounds
<1> USE DEF SetStatus, Success
<1>1. ASSUME NEW m \in todo, AutoApproveGate(m) PROVE Kind[n] = "gate"
  BY <1>1 DEF AutoApproveGate
<1>2. CASE TemplateDone
  BY <1>2 DEF TemplateDone, RecordInv, KindInv
<1>3. CASE FinishLocal
  BY <1>3 DEF FinishLocal
<1>4. CASE Validate \/ ApplyDiff \/ RecordApplied \/ NodeDone
  BY <1>4 DEF Validate, ApplyDiff, RecordApplied, RecordAs, NodeDone
<1>5. ASSUME NEW S, NEW s, status' = SetStatus(S, s), s \notin Success PROVE FALSE
  BY <1>5
<1>6. CASE UNCHANGED status
  BY <1>6
<1> HIDE DEF SetStatus
<1>7. \A s \in {"READY", "PENDING", "NEEDS_HUMAN", "RE_ENQUEUED", "EXECUTING_LOCAL", "HARVESTED",
                "SUBMITTED", "RETURNED", "EXPIRED"} : s \notin Success
  OBVIOUS
<1> QED
  BY <1>1, <1>2, <1>3, <1>4, <1>5, <1>6, <1>7, StatusWriters
  DEF Harvest, ServeFromMemo, RecordSubmit, AdoptBatch, ItemReturned, LinkItem, ItemExpired

\* While the process lives and resumes nothing, every answer is kept.
LEMMA LiveStep ==
  ASSUME Known, NodeInv, RecordInv, OutputInv, OpenInv, Live, [Next]_vars,
         ~Crash, ~ForeignKeyError, Finalize => Frontier = {}
  PROVE  Live' \/ Over'
<1> USE DEF durable, waves, tables, world, memory, frontier, group, hand, process, bounds
<1>1. CASE Finalize
  <2>1. InFlight = {}
    BY <1>1 DEF Finalize, Known, LoopInv, BarrierInv, OnWave, ItemPcs
  <2> QED
    BY <1>1, <2>1 DEF Finalize, Exit, Over, Frontier, DepsSatisfied, InFlight
<1>2. CASE ~Finalize
  <2>1. ASSUME NEW n \in Node, Kind[n] \in Content, status'[n] \in Success PROVE n \in outputs'
    <3>1. outputs \subseteq outputs'
      BY <1>2, OutputsStay
    <3>2. CASE status[n] \in Success
      BY <2>1, <3>1, <3>2 DEF Live
    <3>3. CASE status[n] \notin Success
      <4>1. Kind[n] \notin {"gate", "template"}
        BY <2>1 DEF Content
      <4>2. CASE FinishLocal /\ n = node /\ status'[n] = "DONE"
        <5>1. Kind[node] = "explore"
          BY <2>1, <4>2 DEF Content, RecordInv, KindInv, FinishLocal, Local
        <5> QED
          BY <4>2, <5>1 DEF FinishLocal
      <4>3. CASE pc \in {"validate", "apply", "ledger", "done"} /\ n = node
        BY <3>1, <4>3 DEF OutputInv
      <4> QED
        BY <2>1, <3>3, <4>1, <4>2, <4>3, Succeeds
    <3> QED
      BY <3>2, <3>3
  <2>2. ASSUME iter' = 0 PROVE InFlight' = {}
    <3>1. iter = 0
      BY <1>2, <2>2, IterStays
    <3>2. InFlight = {}
      BY <3>1 DEF Live
    <3>3. ~RecordSubmit /\ ~\E w \in recon, b \in 1..Len(batches) : AdoptBatch(w, b)
      BY <3>1 DEF RecordSubmit, Known, LoopInv, PhaseInv, OpenInv
    <3>4. submitted' = submitted /\ completed \subseteq completed'
      BY <3>3, Writers DEF CompleteWave, CloseWave
    <3> QED
      BY <3>2, <3>4 DEF InFlight
  <2> QED
    BY <2>1, <2>2 DEF Live
<1> QED
  BY <1>1, <1>2

\* When nothing is left to dispatch, a resume finds nothing either.
LEMMA OverStep ==
  ASSUME OpenInv, Over, [Next]_vars, ~Crash
  PROVE  Over'
<1> USE DEF durable, waves, tables, world, memory, frontier, group, hand, process, bounds
<1>1. UNCHANGED <<status, submitted, completed>> /\ pc' \in {"idle", "resume", "loop"}
  BY StepsAt
  DEF OpenInv, Over, vars, Provider, BatchEnds, Start, Resumes, ResumeInFlight, Resumed, EnterLoop,
      NextIteration, TakeFrontier, Finalize, Exit
<1> QED
  BY <1>1 DEF Over, Frontier, DepsSatisfied, InFlight

\* The batch a wave is on record with is the one at hand.
LEMMA RefOnRecord ==
  ASSUME FindExact, Known, OnWave
  PROVE  ref \in 1..Len(batches) /\ wave \in DOMAIN submitted /\ submitted[wave] = ref
<1>1. ref # 0 /\ batches[ref].key = wave /\ ref \in 0..Len(batches) /\ wave \in DOMAIN submitted
  BY DEF Known, TypeInv, HandInv, WavePcs, OnWave, TypeOK, ProcessType, LoopInv, PhaseInv
<1>2. ref \in 1..Len(batches)
  BY <1>1, BatchParts
<1>3. submitted[wave] \in 1..Len(batches) /\ batches[submitted[wave]].key = wave
  BY <1>1 DEF Known, TypeInv, TypeOK, DurableType, RefsMatch
<1> QED
  BY <1>1, <1>2, <1>3 DEF Known, LoopInv, PaidInv, NoDoubleSubmit

\* An item that dangles stays so: its batch has ended, and no row gets its call id.
LEMMA DanglingStep ==
  ASSUME Known, [Next]_vars, NEW n \in Node, NEW w \in DOMAIN submitted,
         submitted'[w] = submitted[w], Dangling(w, n)
  PROVE  Dangling(w, n)'
<1> DEFINE b == submitted[w]
<1>1. b \in 1..Len(batches) /\ Terminal(batches[b]) /\ batches[b].out[n] = "failed"
  BY DEF Dangling, Known, TypeInv, TypeOK, DurableType
<1>2. batches'[b] = batches[b]
  BY <1>1, BatchesStay
<1>3. Prompt[n] \in Key /\ memo[Prompt[n]].answer # "absent" /\ memo \in [Key -> Row \cup {NoRow}]
  BY DEF Dangling, Key, Known, TypeInv, TypeOK, DurableType
<1>4. memo'[Prompt[n]] = memo[Prompt[n]]
  BY <1>3, RowsStay
<1>5. \A k \in Key : memo[k].call # <<w, n>>
  BY DEF Dangling, RowExists
<1>6. \A k \in Key : memo'[k].call # <<w, n>>
  <2>1. CASE PutMemo
    <3>1. CASE memo[Prompt[node]] # NoRow
      BY <1>5, <2>1, <3>1 DEF PutMemo
    <3>2. CASE memo[Prompt[node]] = NoRow
      <4>1. node # n
        BY <1>3, <3>2 DEF NoRow
      <4>2. \A k \in Key : memo'[k].call \in {memo[k].call, <<wave, node>>}
        BY <1>3, <2>1, <3>2 DEF PutMemo, CallId
      <4> QED
        BY <1>5, <4>1, <4>2
    <3> QED
      BY <3>1, <3>2
  <2>2. CASE memo' = memo
    BY <1>5, <2>2
  <2> QED
    BY <2>1, <2>2, Writers
<1>7. Terminal(batches[b])' /\ submitted'[w] = b
  BY <1>1, <1>2 DEF Terminal
<1> QED
  BY <1>1, <1>2, <1>3, <1>4, <1>6, <1>7 DEF Dangling, RowExists, Terminal

\* The foreign key fails: the wave stays in flight, with an item no resume gets past.
LEMMA KeyErrorStep ==
  ASSUME FindExact, Known, NodeInv, LinkInv, [Next]_vars, ForeignKeyError
  PROVE  Stuck'
<1> USE DEF durable, waves, tables, world, memory, frontier, group, hand, process, bounds
<1>1. /\ pc = "link" /\ ref # 0 /\ batches[ref].out[node] = "failed" /\ ~RowExists(<<wave, node>>)
      /\ pc' = "idle" /\ iter' = 0 /\ UNCHANGED <<submitted, completed>>
  BY DEF ForeignKeyError, Refused, CallId, Exit
<1>2. OnWave
  BY <1>1 DEF OnWave, ItemPcs
<1>3. /\ wave \in InFlight /\ node \in wave.items /\ Terminal(batches[ref])
      /\ submitted[wave] = ref /\ wave.items \subseteq Node
  BY <1>1, <1>2, RefOnRecord, BatchParts
  DEF InFlight, NodeInv, PlaceInv, Known, TypeInv, AnswerInv, ItemPcs
<1>4. Dangling(wave, node)
  BY <1>1, <1>3 DEF LinkInv, Dangling
<1>5. PICK w \in InFlight : w = wave
  BY <1>3
<1>6. PICK n \in w.items : n = node
  BY <1>3, <1>5
<1>7. n \in Node /\ w \in DOMAIN submitted /\ submitted'[w] = submitted[w] /\ w \in InFlight'
  BY <1>1, <1>3, <1>5, <1>6 DEF InFlight
<1>8. Dangling(w, n)'
  BY <1>4, <1>5, <1>6, <1>7, DanglingStep
<1> QED
  BY <1>1, <1>7, <1>8 DEF Stuck, ItemPcs

\* ... and every resume comes back to it.
LEMMA StuckStep ==
  ASSUME FindExact, Known, NodeInv, OpenInv, Stuck, [Next]_vars, ~Crash, ~ForeignKeyError
  PROVE  Stuck'
<1> USE DEF durable, waves, tables, world, memory, frontier, group, hand, process, bounds
<1>1. PICK w \in InFlight : \E n \in w.items :
        /\ Dangling(w, n)
        /\ pc \in {"fetch"} \cup ItemPcs => n \in queue \/ (n = node /\ pc \in {"item", "link"})
  BY DEF Stuck
<1>2. PICK n \in w.items :
        /\ Dangling(w, n)
        /\ pc \in {"fetch"} \cup ItemPcs => n \in queue \/ (n = node /\ pc \in {"item", "link"})
  BY <1>1
<1>3. n \in Node /\ w \in DOMAIN submitted
  BY DEF InFlight, Known, TypeInv, TypeOK, DurableType, WaveId
<1>4. iter = 0 /\ recon = {} /\ (pc \in {"idle", "resume"} \/ OnWave)
  BY DEF Stuck, OpenInv
<1>5. ~RecordSubmit /\ ~CompleteWave /\ ~\E v \in recon, b \in 1..Len(batches) : AdoptBatch(v, b)
  BY <1>2, <1>4 DEF RecordSubmit, CompleteWave, CloseWave, OnWave, ItemPcs
<1>6. submitted' = submitted /\ completed' = completed
  BY <1>5, Writers
<1>7. w \in InFlight' /\ Dangling(w, n)'
  BY <1>2, <1>3, <1>6, DanglingStep DEF InFlight
<1> DEFINE There == n \in queue \/ (n = node /\ pc \in {"item", "link"})
<1> SUFFICES /\ iter' = 0 /\ (pc \in {"idle", "resume"} \/ OnWave)'
             /\ pc' \in {"fetch"} \cup ItemPcs => There'
  BY <1>7 DEF Stuck
<1>8. CASE pc \in {"idle", "resume"}
  <2>1. \/ UNCHANGED vars \/ Provider \/ Start
        \/ \E v \in DOMAIN submitted : ResumeInFlight(v)
    BY <1>4, <1>8, StepsAt DEF Resumed
  <2> QED
    BY <1>4, <1>8, <2>1
    DEF vars, Provider, BatchEnds, Start, Resumes, ResumeInFlight, OnWave, ItemPcs
<1>9. CASE OnWave
  <2>1. /\ wave = w /\ submitted[w] = ref /\ ref # 0
        /\ batches[ref].out[n] = "failed" /\ ~RowExists(<<w, n>>)
    BY <1>2, <1>9, RefOnRecord
    DEF Known, LoopInv, BarrierInv, TypeInv, HandInv, WavePcs, OnWave, Dangling
  <2>2. CASE UNCHANGED vars \/ Provider
    BY <1>2, <1>4, <1>9, <2>2 DEF vars, Provider, BatchEnds, OnWave
  <2>3. CASE FetchResults
    BY <1>4, <2>1, <2>3 DEF FetchResults, OnWave
  <2>4. ASSUME NEW m \in queue, TakeItem(m)
        PROVE  iter' = 0 /\ OnWave' /\ There'
    BY <1>2, <1>4, <2>1, <2>4 DEF TakeItem, OnWave, ItemPcs
  <2>5. CASE PutMemo
    BY <1>2, <1>4, <2>1, <2>5 DEF PutMemo, OnWave, ItemPcs
  <2>6. CASE ItemReturned \/ ItemExpired
    <3>1. n \in queue
      BY <1>2, <2>1, <2>6 DEF ItemReturned, ItemExpired, LinkItem, Refused, CallId, ItemPcs
    <3> QED
      BY <1>4, <2>1, <2>6, <3>1 DEF ItemReturned, ItemExpired, LinkItem, OnWave, ItemPcs
  <2>7. CASE ReEnqueue \/ Validate \/ ApplyDiff \/ RecordApplied \/ NodeDone
    <3>1. n \in queue
      BY <1>2, <2>7 DEF ReEnqueue, Validate, ApplyDiff, RecordApplied, RecordAs, NodeDone, ItemPcs
    <3>2. UNCHANGED <<iter, ref, queue>> /\ pc' \in {"fetch"} \cup ItemPcs
      BY <2>1, <2>7
      DEF ReEnqueue, Validate, ApplyDiff, RecordApplied, RecordAs, NodeDone, ItemDone, ItemPcs
    <3> QED
      BY <1>4, <2>1, <3>1, <3>2 DEF OnWave
  <2> QED
    BY <1>5, <1>9, <2>2, <2>3, <2>4, <2>5, <2>6, <2>7, StepsAt DEF OnWave, ItemPcs
<1> QED
  BY <1>4, <1>8, <1>9

\* With waves enough, run_job ends where there is nothing left to dispatch.
LEMMA LastFrontier ==
  ASSUME EnoughWaves, Known, WavesBounded
  PROVE  Finalize => Frontier = {}
<1> SUFFICES ASSUME Finalize, Frontier # {} PROVE FALSE
  OBVIOUS
<1>1. iter < Cardinality(Node) + failed /\ iter >= MaxWaves
  BY DEF Finalize, LoopEnds, WavesBounded
<1>2. iter \in Nat /\ failed \in 0..MaxFailed /\ Cardinality(Node) \in Nat
  BY PlanAssumption, BoundAssumption, FS_CardinalityType
  DEF Known, TypeInv, TypeOK, ProcessType, BoundType
<1> QED
  BY <1>1, <1>2, BoundAssumption DEF EnoughWaves

\* With waves enough, answers are kept until nothing is left to dispatch, or until
\* an item no resume gets past ends the job.
LEMMA KeepStep ==
  ASSUME FindExact, EnoughWaves, Kept, WavesBounded, [Next]_vars
  PROVE  KeepInv'
<1> SUFFICES ASSUME crashes' = 0 PROVE OpenInv' /\ OutputInv' /\ (Live' \/ Over' \/ Stuck')
  BY DEF KeepInv
<1> USE DEF Kept
<1>1. ~Crash /\ OpenInv /\ OutputInv /\ (Live \/ Over \/ Stuck)
  BY CrashesCounted DEF KeepInv
<1>2. OpenInv' /\ OutputInv'
  BY <1>1, OpenStep, OutputStep
<1>3. Finalize => Frontier = {}
  BY LastFrontier
<1>4. CASE ForeignKeyError
  BY <1>2, <1>4, KeyErrorStep
<1>5. CASE ~ForeignKeyError
  BY <1>1, <1>2, <1>3, <1>5, LiveStep, OverStep, StuckStep
<1> QED
  BY <1>4, <1>5

\* How a node comes to wait for a human.
LEMMA GoesToHuman ==
  ASSUME [Next]_vars, NEW t \in Node, status[t] # "NEEDS_HUMAN", status'[t] = "NEEDS_HUMAN"
  PROVE  \/ t \in todo /\ NoBindings(t)
         \/ FinishLocal /\ t = node
         \/ pc \in ItemPcs /\ t = node
<1> USE DEF durable, waves, tables, world, memory, frontier, group, hand, process, bounds
<1> USE DEF SetStatus
<1>1. ASSUME NEW n \in todo, NoBindings(n) PROVE t \in todo /\ NoBindings(t)
  BY <1>1 DEF NoBindings
<1>2. CASE FinishLocal
  BY <1>2 DEF FinishLocal
<1>3. CASE Validate \/ ApplyDiff \/ RecordApplied \/ NodeDone
  BY <1>3 DEF Validate, ApplyDiff, RecordApplied, RecordAs, NodeDone, ItemPcs
<1>4. ASSUME NEW S, NEW s, status' = SetStatus(S, s), s # "NEEDS_HUMAN" PROVE FALSE
  BY <1>4
<1>5. CASE UNCHANGED status
  BY <1>5
<1> HIDE DEF SetStatus
<1> QED
  BY <1>1, <1>2, <1>3, <1>4, <1>5
  DEF Next, Run, Resume, Dispatch, RemoteWave, ProcessWave, Provider, vars, Crash, Exit, Start,
      Resumes, ResumeInFlight, NoBatchFound, GiveUpWave, AdoptBatch, Unharvest, Resumed, EnterLoop,
      NextIteration, TakeFrontier, MarkReady, AutoApproveGate, ResolveTemplate, StartLocal,
      CollectRemote, Dispatching, TemplateDone, EndDispatch, NextGroup, EndGroups, MissMemo,
      ServeFromMemo, AllCached, FormWave, SealWave, Harvest, Submit, RecordSubmit, FetchResults,
      TakeItem, PutMemo, ItemReturned, LinkItem, ItemExpired, ForeignKeyError, ReEnqueue, ItemDone,
      CompleteWave, CloseWave, Finalize, BatchEnds

\* A template whose bindings are not found waits for none.
LEMMA BindStep ==
  ASSUME ListPlan, Kept, BindingsNeedNoHuman, [Next]_vars
  PROVE  BindingsNeedNoHuman'
<1> USE DEF Kept
<1> SUFFICES ASSUME NEW t \in Node, Kind[t] = "template", status'[t] = "NEEDS_HUMAN", crashes' = 0,
                    NEW d \in Deps[t], d \in ListAnswer
             PROVE  FALSE
  BY DEF BindingsNeedNoHuman
<1>1. crashes = 0 /\ status[t] # "NEEDS_HUMAN"
  BY CrashesCounted DEF BindingsNeedNoHuman
<1>2. t \in todo /\ NoBindings(t)
  <2>1. ~(FinishLocal /\ t = node)
    BY DEF FinishLocal, RecordInv, KindInv, Local
  <2>2. ~(pc \in ItemPcs /\ t = node)
    BY ItemRemote DEF Remote
  <2> QED
    BY <1>1, <2>1, <2>2, GoesToHuman
<1>3. pc = "dispatch" /\ iter # 0
  BY <1>2 DEF NoBindings, Dispatching, Known, LoopInv, PhaseInv
<1>4. Live /\ OutputInv
  BY <1>1, <1>3 DEF KeepInv, Over, Stuck
<1>5. d \in Node /\ Kind[d] \in Content /\ status[d] \in Success
  <2>1. DepsSafe(t)
    BY <1>2 DEF ReadyInv, Held, Waiting
  <2> QED
    BY <2>1, PlanAssumption DEF ListPlan, DepsSafe, Safe
<1>6. d \in (Deps[t] \cup StarDeps[t]) \cap outputs
  BY <1>4, <1>5 DEF Live
<1>7. \A e \in (Deps[t] \cup StarDeps[t]) \cap outputs : e \in ListAnswer
  BY <1>4, <1>5 DEF OutputInv, ListPlan
<1> QED
  BY <1>2, <1>6, <1>7 DEF NoBindings

\* orchestrator.py:269, 428, 443: if find_batch sees every batch and max_waves is at least
\* the number of nodes and failed items, a template whose bindings the answer of another
\* node lists goes to a human only after a crash took that answer.  (A run_job that stops
\* at the cap takes it too; the foreign key error does, but no resume gets past that.)
THEOREM BindingsFound ==
  FindExact /\ FanoutPlan /\ ListPlan /\ EnoughWaves => (Spec => []BindingsNeedNoHuman)
<1> SUFFICES ASSUME FindExact, FanoutPlan, ListPlan, EnoughWaves PROVE Spec => []BindingsNeedNoHuman
  OBVIOUS
<1> DEFINE More == LinkInv /\ RemoteInv /\ KeepInv /\ BindingsNeedNoHuman
<1>1. Init => More
  <2> SUFFICES ASSUME Init PROVE More
    OBVIOUS
  <2>1. LinkInv /\ RemoteInv
    BY DEF Init, LinkInv, RemoteInv, Serving, ItemPcs
  <2>2. OpenInv /\ OutputInv
    BY DEF Init, OpenInv, OutputInv, EmptyMap
  <2>3. Live
    BY DEF Init, Live, Success, InFlight, EmptyMap
  <2>4. BindingsNeedNoHuman
    BY DEF Init, BindingsNeedNoHuman
  <2> QED
    BY <2>1, <2>2, <2>3, <2>4 DEF KeepInv
<1>2. ASSUME Known, NodeInv, ExpiredInv, ReadyInv, RecordInv, WavesBounded, More, [Next]_vars
      PROVE  More'
  <2>1. Kept
    BY <1>2 DEF Kept
  <2> QED
    BY <1>2, <2>1, LinkStep, RemoteStep, KeepStep, BindStep
<1>3. Known /\ NodeInv /\ ExpiredInv /\ ReadyInv /\ RecordInv /\ WavesBounded /\ More /\ [Next]_vars
        => More'
  BY <1>2
<1> QED
  BY <1>1, <1>3, NodeInvariant, ReadyInvariant, RecordInvariant, WavesAreBounded, PTL DEF Spec

-----------------------------------------------------------------------------
(* Why a job is BLOCKED.                                                   *)

\* A plan that passes the validator: ids can be numbered so that a node comes after what it
\* waits for, and a child after its template.  Who waits for the children of a template
\* waits for some, and what was not planned is a child.
Ranks(rank) ==
  \A n \in Node :
    /\ \A d \in Deps[n] : rank[d] < rank[n]
    /\ \A t \in StarDeps[n] : \A c \in Children[t] : rank[c] < rank[n]
    /\ \A c \in Children[n] : rank[n] < rank[c]

RankedPlan ==
  /\ \E rank \in [Node -> Nat] : Ranks(rank)
  /\ \A n \in Node : \A t \in StarDeps[n] : Children[t] # {}
  /\ \A n \in Node \ Initial : \E t \in Node : Kind[t] = "template" /\ n \in Children[t]

\* Neither settled, nor on a frontier of a later iteration, nor still to appear.
Stranded == {n \in Node : status[n] \notin Settled \cup Runnable \cup {"ABSENT"}}

\* Where run_job returns BLOCKED, a node is lost.
EndsOverLost == Finalize /\ result' = "BLOCKED" => Lost # {}

\* A node that is EXECUTING_LOCAL is the one at hand, or a crash left it there.
ExecInv ==
  \A n \in Node : status[n] = "EXECUTING_LOCAL" =>
    Kind[n] \in Local /\ (crashes # 0 \/ (pc = "local" /\ node = n))

\* What the plan names is there, and what a template was resolved to.
KidsInv ==
  /\ \A n \in Initial : status[n] # "ABSENT"
  /\ \A t \in Node :
       Kind[t] = "template" /\ (status[t] \in Success \/ (pc = "fanout" /\ node = t)) =>
         \A c \in Children[t] : status[c] # "ABSENT"

\* A set of nodes has a lowest.
LEMMA Lowest ==
  ASSUME NEW rank \in [Node -> Nat], NEW U \in SUBSET Node, U # {}
  PROVE  \E n \in U : \A m \in U : rank[n] <= rank[m]
<1> DEFINE T == {rank[n] : n \in U}
<1>1. T \subseteq Nat /\ T # {}
  OBVIOUS
<1>2. IsWellFoundedOn(OpToRel(<, Nat), Nat)
  BY NatLessThanWellFounded
<1>3. PICK x \in T : \A y \in T : ~(<<y, x>> \in OpToRel(<, Nat))
  BY <1>1, <1>2, WFMin
<1>4. \A y \in T : ~(y < x)
  BY <1>1, <1>3 DEF OpToRel
<1>5. PICK n \in U : x = rank[n]
  OBVIOUS
<1>6. \A m \in U : rank[m] \in Nat /\ ~(rank[m] < rank[n])
  BY <1>4, <1>5
<1> QED
  BY <1>6

\* The lowest node that is left is on the frontier.
LEMMA LeftRuns ==
  ASSUME RankedPlan, Known, KidsInv, Stranded = {}, \A n \in Node : status[n] # "NEEDS_HUMAN",
         NEW m \in Node, status[m] \notin Success
  PROVE  Frontier # {}
<1> SUFFICES ASSUME Frontier = {} PROVE FALSE
  OBVIOUS
<1> DEFINE U == {n \in Node : status[n] \in Runnable \cup {"ABSENT"}}
<1>1. \A n \in Node : status[n] \in Success \/ n \in U
  BY DEF Stranded, Settled
<1>2. PICK rank \in [Node -> Nat] : Ranks(rank)
  BY DEF RankedPlan
<1>3. PICK n \in U : \A k \in U : rank[n] <= rank[k]
  <2>1. U \in SUBSET Node /\ U # {}
    BY <1>1
  <2> HIDE DEF U
  <2> QED
    BY <2>1, Lowest
<1>4. \A k \in Node : rank[k] < rank[n] => status[k] \in Success
  <2> SUFFICES ASSUME NEW k \in Node, rank[k] < rank[n], k \in U PROVE FALSE
    BY <1>1
  <2>1. rank[k] \in Nat /\ rank[n] \in Nat
    OBVIOUS
  <2> QED
    BY <1>3, <2>1
<1>5. /\ Deps[n] \subseteq Node /\ StarDeps[n] \subseteq Node
      /\ \A t \in Node : Children[t] \subseteq Node
  BY PlanAssumption
<1>6. CASE status[n] = "ABSENT"
  <2>1. PICK t \in Node : Kind[t] = "template" /\ n \in Children[t]
    BY <1>6 DEF KidsInv, RankedPlan
  <2>2. status[t] \in Success
    BY <1>2, <1>4, <2>1 DEF Ranks
  <2> QED
    BY <1>6, <2>1, <2>2 DEF KidsInv
<1>7. CASE status[n] \in Runnable
  <2>1. \A d \in Deps[n] : status[d] \in Success
    BY <1>2, <1>4, <1>5 DEF Ranks
  <2>2. \A t \in StarDeps[n] : \A c \in Children[t] : status[c] \in Success
    BY <1>2, <1>4, <1>5 DEF Ranks
  <2>3. ASSUME NEW t \in StarDeps[n] PROVE \E c \in Children[t] : status[c] # "ABSENT"
    <3>1. PICK c \in Children[t] : TRUE
      BY DEF RankedPlan
    <3> QED
      BY <2>2, <3>1, Apart DEF Settled
  <2>4. DepsSatisfied(n)
    BY <2>1, <2>2, <2>3 DEF DepsSatisfied
  <2> QED
    BY <1>7, <2>4 DEF Frontier
<1> QED
  BY <1>3, <1>6, <1>7

\* With waves enough, run_job returns BLOCKED only over a stranded node.
LEMMA EndsStranded ==
  ASSUME RankedPlan, EnoughWaves, Known, KidsInv, WavesBounded, Finalize, result' = "BLOCKED"
  PROVE  Stranded # {}
<1> SUFFICES ASSUME Stranded = {} PROVE FALSE
  OBVIOUS
<1>1. Frontier = {}
  BY LastFrontier
<1>2. /\ \A n \in Node : status[n] # "NEEDS_HUMAN"
      /\ \E m \in Node : status[m] \notin Success
  BY DEF Finalize
<1> QED
  BY <1>1, <1>2, LeftRuns

\* A template succeeds by its fan-out only.
LEMMA TemplateSucceeds ==
  ASSUME Known, RecordInv, RemoteInv, [Next]_vars, NEW t \in Node, Kind[t] = "template",
         status[t] \notin Success, status'[t] \in Success
  PROVE  pc = "fanout" /\ node = t
<1> USE DEF durable, waves, tables, world, memory, frontier, group, hand, process, bounds
<1> USE DEF SetStatus
<1>1. ASSUME NEW m \in todo, AutoApproveGate(m) PROVE FALSE
  BY <1>1 DEF AutoApproveGate
<1>2. CASE TemplateDone
  BY <1>2 DEF TemplateDone
<1>3. CASE FinishLocal
  BY <1>3 DEF FinishLocal, RecordInv, KindInv, Local
<1>4. CASE Validate \/ ApplyDiff \/ RecordApplied \/ NodeDone
  <2>1. t # node
    BY <1>4, ItemRemote DEF Validate, ApplyDiff, RecordApplied, RecordAs, NodeDone, ItemPcs, Remote
  <2> QED
    BY <1>4, <2>1 DEF Validate, ApplyDiff, RecordApplied, RecordAs, NodeDone
<1>5. ASSUME NEW S, NEW s, status' = SetStatus(S, s), s \notin Success PROVE FALSE
  BY <1>5
<1>6. CASE UNCHANGED status
  BY <1>6
<1> HIDE DEF SetStatus
<1>7. \A s \in {"READY", "PENDING", "NEEDS_HUMAN", "RE_ENQUEUED", "EXECUTING_LOCAL", "HARVESTED",
                "SUBMITTED", "RETURNED", "EXPIRED"} : s \notin Success
  BY DEF Success
<1> QED
  BY <1>1, <1>2, <1>3, <1>4, <1>5, <1>6, <1>7, StatusWriters
  DEF Harvest, ServeFromMemo, RecordSubmit, AdoptBatch, ItemReturned, LinkItem, ItemExpired

\* Children stay, and come before their template is done.
LEMMA KidsStep ==
  ASSUME Known, NodeInv, ReadyInv, RecordInv, RemoteInv, KidsInv, [Next]_vars
  PROVE  KidsInv'
<1> USE DEF durable, waves, tables, world, memory, frontier, group, hand, process, bounds
<1>1. \A n \in Node : status[n] # "ABSENT" => status'[n] # "ABSENT"
  BY AbsentStep
<1>2. ASSUME NEW t \in Node, Kind[t] = "template",
             status'[t] \in Success \/ (pc' = "fanout" /\ node' = t), NEW c \in Children[t]
      PROVE  status'[c] # "ABSENT"
  <2>1. c \in Node
    BY PlanAssumption
  <2>2. CASE status[t] \in Success \/ (pc = "fanout" /\ node = t)
    BY <1>1, <1>2, <2>1, <2>2 DEF KidsInv
  <2>3. CASE status'[t] \in Success /\ status[t] \notin Success
    BY <1>2, <2>2, <2>3, TemplateSucceeds
  <2>4. ASSUME NEW n \in todo, ResolveTemplate(n) PROVE status'[c] # "ABSENT"
    <3>1. CASE n = t
      BY <2>1, <2>4, <3>1 DEF ResolveTemplate, SetStatus
    <3>2. CASE n # t
      BY <1>2, <2>2, <2>3, <2>4, <3>2 DEF ResolveTemplate
    <3> QED
      BY <3>1, <3>2
  <2>5. ASSUME NEW n \in todo, StartLocal(n) PROVE pc' # "fanout"
    BY <2>5 DEF StartLocal
  <2> QED
    BY <1>2, <2>2, <2>3, <2>4, <2>5, Enters
<1>3. Initial \subseteq Node
  BY PlanAssumption
<1> QED
  BY <1>1, <1>2, <1>3 DEF KidsInv

\* How a node comes to run locally.
LEMMA RunsLocal ==
  ASSUME [Next]_vars, NEW n \in Node, status[n] # "EXECUTING_LOCAL", status'[n] = "EXECUTING_LOCAL"
  PROVE  Kind[n] \in Local /\ pc' = "local" /\ node' = n
<1> USE DEF durable, waves, tables, world, memory, frontier, group, hand, process, bounds
<1> USE DEF SetStatus
<1>1. ASSUME NEW m \in todo, StartLocal(m) PROVE Kind[n] \in Local /\ pc' = "local" /\ node' = n
  BY <1>1 DEF StartLocal
<1>2. CASE FinishLocal
  BY <1>2 DEF FinishLocal
<1>3. CASE Validate \/ ApplyDiff \/ RecordApplied \/ NodeDone
  BY <1>3 DEF Validate, ApplyDiff, RecordApplied, RecordAs, NodeDone
<1>4. ASSUME NEW S, NEW s, status' = SetStatus(S, s), s # "EXECUTING_LOCAL" PROVE FALSE
  BY <1>4
<1>5. CASE UNCHANGED status
  BY <1>5
<1> HIDE DEF SetStatus
<1> QED
  BY <1>1, <1>2, <1>3, <1>4, <1>5
  DEF Next, Run, Resume, Dispatch, RemoteWave, ProcessWave, Provider, vars, Crash, Exit, Start,
      Resumes, ResumeInFlight, NoBatchFound, GiveUpWave, AdoptBatch, Unharvest, Resumed, EnterLoop,
      NextIteration, TakeFrontier, MarkReady, AutoApproveGate, ResolveTemplate, NoBindings,
      CollectRemote, Dispatching, TemplateDone, EndDispatch, NextGroup, EndGroups, MissMemo,
      ServeFromMemo, AllCached, FormWave, SealWave, Harvest, Submit, RecordSubmit, FetchResults,
      TakeItem, PutMemo, ItemReturned, LinkItem, ItemExpired, ForeignKeyError, ReEnqueue, ItemDone,
      CompleteWave, CloseWave, Finalize, BatchEnds

\* A local node a crash left behind is in no frontier and in no wave: no step takes it up.
LEMMA LostStep ==
  ASSUME FindExact, Known, NodeInv, RemoteInv, ExecInv, [Next]_vars, NEW n \in Node,
         status[n] = "EXECUTING_LOCAL", ~(pc = "local" /\ node = n)
  PROVE  status'[n] = "EXECUTING_LOCAL" /\ ~(pc' = "local" /\ node' = n)
<1> USE DEF durable, waves, tables, world, memory, frontier, group, hand, process, bounds
<1>1. status'[n] = "EXECUTING_LOCAL"
  <2>1. Kind[n] \in Local
    BY DEF ExecInv
  <2>2. ~(pc \in ItemPcs /\ node = n)
    BY <2>1, ItemRemote DEF Local, Remote
  <2> QED
    BY <2>2, HeldStays
<1>2. ASSUME NEW m \in todo, ResolveTemplate(m) \/ StartLocal(m) PROVE node' # n
  <2>1. status[m] \in Runnable
    BY DEF NodeInv, StatusInv, Waiting
  <2> QED
    BY <1>2, <2>1 DEF ResolveTemplate, StartLocal, Runnable
<1>3. ~(pc' = "local" /\ node' = n)
  BY <1>2, Enters
<1> QED
  BY <1>1, <1>3

\* Only a crash takes a local node from the process that runs it.
LEMMA ExecStep ==
  ASSUME Known, NodeInv, ExecInv, [Next]_vars
  PROVE  ExecInv'
<1> USE DEF durable, waves, tables, world, memory, frontier, group, hand, process, bounds
<1> SUFFICES ASSUME NEW n \in Node, status'[n] = "EXECUTING_LOCAL"
             PROVE  Kind[n] \in Local /\ (crashes' # 0 \/ (pc' = "local" /\ node' = n))
  BY DEF ExecInv
<1>1. CASE status[n] # "EXECUTING_LOCAL"
  BY <1>1, RunsLocal
<1>2. CASE status[n] = "EXECUTING_LOCAL"
  <2>1. Kind[n] \in Local /\ (crashes # 0 \/ (pc = "local" /\ node = n))
    BY <1>2 DEF ExecInv
  <2> SUFFICES ASSUME crashes' = 0 PROVE pc' = "local" /\ node' = n
    BY <2>1
  <2>2. ~Crash /\ pc = "local" /\ node = n
    BY <2>1, CrashesCounted
  <2>3. ~FinishLocal
    BY <2>2 DEF FinishLocal, SetStatus
  <2> QED
    BY <2>2, <2>3, StepsAt DEF vars, Provider, BatchEnds, ItemPcs
<1> QED
  BY <1>1, <1>2

\* At the top of the loop no wave is in flight and none is formed: who is stranded is lost.
LEMMA BarrierLost ==
  ASSUME Ground, StrandInv, ExecInv, pc = "loop"
  PROVE  BarrierClean
<1> SUFFICES ASSUME NEW n \in Node, status[n] \notin Settled \cup Runnable \cup {"ABSENT"}
             PROVE  LocalLost(n) \/ ServedLost(n) \/ LeftOut(n)
  BY DEF BarrierClean, Lost
<1>0. crashes \in Nat /\ status[n] \in Status
  BY BoundAssumption DEF Ground, Known, TypeInv, TypeOK, DurableType, BoundType
<1>1. ~Ahead(n) /\ ~Formed(n) /\ ~Serving
  <2>1. InFlight = {}
    BY DEF Ground, Known, LoopInv, BarrierInv, OnWave, ItemPcs
  <2> QED
    BY <2>1 DEF Ahead, Formed, Resuming, OnWave, Serving, ItemPcs
<1>2. ASSUME Astray(n), status[n] \in {"HARVESTED", "RETURNED"} PROVE ServedLost(n)
  BY <1>0, <1>1, <1>2 DEF Astray, ServedLost, Served
<1>3. CASE status[n] = "EXECUTING_LOCAL"
  BY <1>0, <1>3 DEF ExecInv, LocalLost
<1>4. CASE status[n] = "HARVESTED"
  BY <1>1, <1>2, <1>4 DEF StrandInv
<1>5. CASE status[n] \in {"SUBMITTED", "RETURNED", "EXPIRED"}
  BY <1>1, <1>2, <1>5 DEF StrandInv
<1> QED
  BY <1>0, <1>3, <1>4, <1>5 DEF Status

\* What a resolved template has, and who runs locally, through every step.
LEMMA LeftInvariant ==
  FindExact /\ FanoutPlan => (Spec => [](Known /\ RemoteInv /\ KidsInv /\ ExecInv))
<1> SUFFICES ASSUME FindExact, FanoutPlan
             PROVE  Spec => [](Known /\ RemoteInv /\ KidsInv /\ ExecInv)
  OBVIOUS
<1>1. Init => RemoteInv /\ KidsInv /\ ExecInv
  <2> SUFFICES ASSUME Init PROVE RemoteInv /\ KidsInv /\ ExecInv
    OBVIOUS
  <2>1. \A n \in Node : status[n] = IF n \in Initial THEN "PENDING" ELSE "ABSENT"
    BY DEF Init
  <2>2. RemoteInv
    BY DEF Init, RemoteInv, Serving, ItemPcs
  <2>3. KidsInv /\ ExecInv
    BY <2>1, PlanAssumption DEF Init, KidsInv, ExecInv, Success
  <2> QED
    BY <2>2, <2>3
<1>2. Known /\ NodeInv /\ ReadyInv /\ RecordInv /\ RemoteInv /\ KidsInv /\ ExecInv /\ [Next]_vars
        => RemoteInv' /\ KidsInv' /\ ExecInv'
  BY RemoteStep, KidsStep, ExecStep
<1> QED
  BY <1>1, <1>2, NodeInvariant, ReadyInvariant, RecordInvariant, PTL DEF Spec

\* orchestrator.py:459, 585, 682: if find_batch sees every batch, at each barrier every node is
\* settled, can be picked up again, or is lost: a crash took its local run or the processing
\* of the cached answer it was served, or the provider left its item out of a terminal batch.
THEOREM BarrierStaysClean == FindExact => (Spec => []BarrierClean)
<1> SUFFICES ASSUME FindExact PROVE Spec => []BarrierClean
  OBVIOUS
<1>1. Init => ExecInv
  <2> SUFFICES ASSUME Init PROVE ExecInv
    OBVIOUS
  <2>1. \A n \in Node : status[n] = IF n \in Initial THEN "PENDING" ELSE "ABSENT"
    BY DEF Init
  <2> QED
    BY <2>1 DEF ExecInv
<1>2. Ground /\ ExecInv /\ [Next]_vars => ExecInv'
  BY ExecStep DEF Ground
<1>3. Ground /\ StrandInv /\ ExecInv => BarrierClean
  BY BarrierLost DEF BarrierClean
<1> QED
  BY <1>1, <1>2, <1>3, StrandInvariant, PTL DEF Spec

\* orchestrator.py:359-380, 829: if find_batch sees every batch, the plan has an order and
\* max_waves is high enough, run_job returns BLOCKED only over a lost node: it never leaves
\* nodes that wait for each other, or a node on the frontier.
THEOREM BlockedOverLost ==
  FindExact /\ FanoutPlan /\ RankedPlan /\ EnoughWaves => (Spec => [][EndsOverLost]_vars)
<1> SUFFICES ASSUME FindExact, FanoutPlan, RankedPlan, EnoughWaves
             PROVE  Spec => [][EndsOverLost]_vars
  OBVIOUS
<1>1. ASSUME Known, KidsInv, WavesBounded, BarrierClean, Finalize, result' = "BLOCKED"
      PROVE  Lost # {}
  <2>1. PICK n \in Stranded : TRUE
    BY <1>1, EndsStranded
  <2>2. n \in Lost
    BY <1>1, <2>1 DEF BarrierClean, Stranded, Finalize
  <2> QED
    BY <2>2
<1>2. Known /\ KidsInv /\ WavesBounded /\ BarrierClean => EndsOverLost
  BY <1>1 DEF EndsOverLost
<1> QED
  BY <1>2, LeftInvariant, WavesAreBounded, BarrierStaysClean, PTL

\* A local node whose run a crash took stays as it is.
StaysLost ==
  \A n \in Node :
    status[n] = "EXECUTING_LOCAL" /\ ~(pc = "local" /\ node = n)
      => status'[n] = "EXECUTING_LOCAL" /\ ~(pc' = "local" /\ node' = n)

\* orchestrator.py:459: a local node that was running when the process died is never run
\* again: no frontier, no reconciliation of a resume and no wave takes it up.
THEOREM LocalIsLostForGood == FindExact /\ FanoutPlan => (Spec => [][StaysLost]_vars)
<1> SUFFICES ASSUME FindExact, FanoutPlan PROVE Spec => [][StaysLost]_vars
  OBVIOUS
<1>1. ASSUME Known, NodeInv, RemoteInv, ExecInv, [Next]_vars, NEW n \in Node,
             status[n] = "EXECUTING_LOCAL", ~(pc = "local" /\ node = n)
      PROVE  status'[n] = "EXECUTING_LOCAL" /\ ~(pc' = "local" /\ node' = n)
  BY <1>1, LostStep
<1>2. Known /\ NodeInv /\ RemoteInv /\ ExecInv /\ [Next]_vars => StaysLost
  BY <1>1 DEF StaysLost
<1> QED
  BY <1>2, NodeInvariant, LeftInvariant, PTL DEF Spec

=============================================================================
