--------------------------- MODULE WaveLoop_proofs ---------------------------
(***************************************************************************)
(* What WaveLoop promises for every plan and every number of crashes, and  *)
(* that it implements WaveLedger.                                          *)
(***************************************************************************)
EXTENDS WaveLoop_refines, FiniteSetTheorems, TLAPS

\* Where run_job holds one node, and where it processes one item.
ItemPcs == {"item", "link", "expired", "validate", "apply", "ledger", "done"}
NodePcs == ItemPcs \cup {"fanout", "local"}
WavePcs == {"record", "poll", "fetch"}

\* The refs on record, and those in memory, are refs of the right batches.
RefsMatch ==
  /\ \A w \in DOMAIN submitted : batches[submitted[w]].key = w
  /\ \A w \in DOMAIN known : batches[known[w]].key = w

\* What the process has in hand fits where it stands.
HandInv ==
  /\ pc \in NodePcs => node \in Node
  /\ pc \in WavePcs => ref # 0
  /\ ref # 0 => pc \in WavePcs \cup ItemPcs /\ batches[ref].key = wave

\* An item in hand, or still to be taken, has its outcome.
AnswerInv ==
  /\ ref # 0 /\ pc \in {"fetch"} \cup ItemPcs => Terminal(batches[ref])
  /\ ref # 0 /\ pc \in {"fetch"} \cup ItemPcs =>
       \A n \in queue : n \in wave.items /\ batches[ref].out[n] # "missing"
  /\ ref # 0 /\ pc \in ItemPcs => node \in wave.items /\ batches[ref].out[node] # "missing"
  /\ ref = 0 /\ pc \in ItemPcs => MemoHit(node)

TypeInv == TypeOK /\ RefsMatch /\ HandInv /\ AnswerInv

-----------------------------------------------------------------------------
(* Facts about the helpers.                                                *)

\* SetStatus gives every node a status.
LEMMA SetStatusType ==
  ASSUME TypeOK, NEW S, NEW s \in Status
  PROVE  SetStatus(S, s) \in [Node -> Status]
  BY DEF SetStatus, TypeOK, DurableType

\* The statuses by name.
LEMMA StatusNames ==
  {"DONE", "APPLIED", "NEEDS_HUMAN", "PENDING", "READY", "RE_ENQUEUED", "ABSENT", "HARVESTED",
   "SUBMITTED", "RETURNED", "EXPIRED", "EXECUTING_LOCAL"} \subseteq Status
  BY DEF Status, Settled, Success, Runnable

\* "No wave" is a wave id.
LEMMA NoWaveType == NoWave \in WaveId
  BY DEF NoWave, WaveId

\* The answer of the item in hand is one a node was given.
LEMMA AnswerType ==
  ASSUME TypeInv, pc \in ItemPcs
  PROVE  /\ node \in Node
         /\ AnswerBy \in Node
         /\ DiffOf[AnswerBy] \in Diff
         /\ ~Refused => Answer \in {"good", "bad"}
<1>1. node \in Node
  BY DEF TypeInv, HandInv, NodePcs
<1>2. AnswerBy \in Node
  BY <1>1
    DEF AnswerBy, TypeInv, TypeOK, DurableType, AnswerInv, MemoHit, Row, NoRow,
        Key
<1>3. DiffOf[AnswerBy] \in Diff
  BY <1>2 DEF Diff
<1>4. ASSUME ~Refused PROVE Answer \in {"good", "bad"}
  <2>1. CASE ref = 0
    BY <2>1 DEF Answer, TypeInv, AnswerInv, MemoHit
  <2>2. CASE ref # 0
    <3>1. batches[ref] \in Batch /\ batches[ref].key = wave
      BY <2>2 DEF TypeInv, TypeOK, WorldType, ProcessType, HandInv
    <3>2. batches[ref].out[node] \in Outcome
      BY <1>1, <3>1 DEF Batch
    <3>3. batches[ref].out[node] \notin {"pending", "missing", "failed"}
      BY <1>4, <2>2, <3>1 DEF Refused, TypeInv, AnswerInv, Terminal
    <3> QED
      BY <2>2, <3>2, <3>3 DEF Answer, Outcome
  <2> QED
    BY <2>1, <2>2
<1> QED
  BY <1>1, <1>2, <1>3, <1>4

-----------------------------------------------------------------------------
(* The type invariant.                                                     *)

\* Every variable keeps its type whatever the plan, the crashes and the
\* provider do.  TypeOK alone is not inductive: what _process_item stores
\* depends on the batch ref at hand being the one of the wave at hand.
LEMMA TypeInvariant == Spec => []TypeInv
<1> USE PlanAssumption, BoundAssumption
<1>1. Init => TypeInv
  <2> SUFFICES ASSUME Init PROVE TypeInv
    OBVIOUS
  <2>1. \A k \in Cached : CachedRow(k) \in Row
    BY NoWaveType DEF CachedRow, Row
  <2>2. memo \in [Key -> Row \cup {NoRow}]
    BY <2>1 DEF Init, Key
  <2>3. submits \in [SUBSET Node -> Nat]
    BY DEF Init
  <2>4. status \in [Node -> Status]
    BY StatusNames DEF Init
  <2>5. batches \in Seq(Batch) /\ Len(batches) = 0
    BY DEF Init
  <2>6. TypeOK
    BY NoWaveType, <2>2, <2>3, <2>4, <2>5
    DEF Init, TypeOK, DurableType, WorldType, ProcessType, BoundType, EmptyMap, Diff
  <2> QED
    BY <2>6
      DEF Init, TypeInv, RefsMatch, HandInv, AnswerInv, EmptyMap, ItemPcs,
          NodePcs, WavePcs
<1>2. TypeInv /\ [Next]_vars => TypeInv'
  <2> SUFFICES ASSUME TypeInv, [Next]_vars PROVE TypeInv'
    OBVIOUS
  <2> USE DEF durable, waves, tables, world, memory, frontier, group, hand, process, bounds
  <2> USE DEF TypeInv, DurableType, WorldType, ProcessType, BoundType
  <2>1. ASSUME NEW w \in recon, NEW b \in 1..Len(batches), AdoptBatch(w, b) PROVE TypeInv'
    <3>1. w \in WaveId /\ w.items \subseteq Node /\ submits[w.items] \in Nat
      BY <2>1 DEF AdoptBatch, TypeOK, WaveId
    <3>2. submits' \in [SUBSET Node -> Nat]
      BY <2>1, <3>1 DEF AdoptBatch, TypeOK
    <3>3. status' \in [Node -> Status]
      BY <2>1, StatusNames, SetStatusType DEF AdoptBatch
    <3>4. submitted' = Put(submitted, w, b) /\ known' = Put(known, w, b)
      BY <2>1 DEF AdoptBatch
    <3>5. /\ DOMAIN submitted' = DOMAIN submitted \cup {w}
          /\ \A z \in DOMAIN submitted' : submitted'[z] = IF z = w THEN b ELSE submitted[z]
          /\ DOMAIN known' = DOMAIN known \cup {w}
          /\ \A z \in DOMAIN known' : known'[z] = IF z = w THEN b ELSE known[z]
      BY ONLY <3>4 DEF Put
    <3>6. TypeOK'
      <4>1. /\ DOMAIN submitted' \subseteq WaveId /\ DOMAIN known' \subseteq WaveId
            /\ \A z \in DOMAIN submitted' : submitted'[z] \in 1..Len(batches)
            /\ \A z \in DOMAIN known' : known'[z] \in 1..Len(batches)
        BY <3>1, <3>5 DEF TypeOK
      <4>2. DurableType'
        BY <2>1, <3>1, <3>2, <3>3, <4>1 DEF AdoptBatch, TypeOK
      <4>3. ProcessType'
        BY <2>1, <3>1, <4>1 DEF AdoptBatch, TypeOK
      <4> QED
        BY <2>1, <4>2, <4>3 DEF AdoptBatch, TypeOK
    <3> QED
      BY <2>1, <3>5, <3>6
        DEF AdoptBatch, RefsMatch, HandInv, AnswerInv, ItemPcs, NodePcs, WavePcs
  <2>2. CASE Unharvest
    <3>1. CASE queue = {}
      BY <2>2, <3>1, NoWaveType
        DEF Unharvest, First, TypeOK, RefsMatch, HandInv, AnswerInv, ItemPcs,
            NodePcs, WavePcs
    <3>2. ASSUME NEW n \in queue, status' = SetStatus({n}, "RE_ENQUEUED"), queue' = queue \ {n},
                 UNCHANGED <<pc, wave>>
          PROVE TypeInv'
      BY <2>2, <3>2, StatusNames, SetStatusType
        DEF Unharvest, TypeOK, RefsMatch, HandInv, AnswerInv, ItemPcs, NodePcs,
            WavePcs
    <3> QED
      BY <2>2, <3>1, <3>2 DEF Unharvest
  <2>3. ASSUME NEW n \in todo, ResolveTemplate(n) PROVE TypeInv'
    <3>1. status' \in [Node -> Status]
      BY <2>3, StatusNames, SetStatusType DEF ResolveTemplate
    <3>2. n \in Node /\ node' = n
      BY <2>3 DEF ResolveTemplate, TypeOK
    <3>3. TypeOK'
      BY <2>3, <3>1, <3>2 DEF ResolveTemplate, Dispatching, TypeOK
    <3> QED
      BY <2>3, <3>2, <3>3
        DEF ResolveTemplate, Dispatching, RefsMatch, HandInv, AnswerInv,
            ItemPcs, NodePcs, WavePcs
  <2>4. CASE FinishLocal
    <3>1. status' \in [Node -> Status]
      BY <2>4, StatusNames, SetStatusType DEF FinishLocal
    <3>2. outputs' \subseteq Node
      BY <2>4 DEF FinishLocal, TypeOK, HandInv, NodePcs
    <3> QED
      BY <2>4, <3>1, <3>2
        DEF FinishLocal, TypeOK, RefsMatch, HandInv, AnswerInv, ItemPcs,
            NodePcs, WavePcs
  <2>5. ASSUME NEW n \in queue, MissMemo(n) PROVE TypeInv'
    <3>1. queue' \subseteq Node /\ miss' \subseteq Node
      <4>1. n \in Node /\ miss \subseteq Node /\ queue \subseteq Node
        BY DEF TypeOK
      <4>2. queue' = queue \ {n} /\ miss' = miss \cup {n}
        BY <2>5 DEF MissMemo
      <4> QED
        BY ONLY <4>1, <4>2
    <3>2. TypeOK'
      BY <2>5, <3>1 DEF MissMemo, TypeOK
    <3> QED
      BY <2>5, <3>2
        DEF MissMemo, RefsMatch, HandInv, AnswerInv, ItemPcs, NodePcs, WavePcs
  <2>6. CASE FormWave
    <3>1. wave' \in WaveId /\ formed' \subseteq WaveId
      <4>1. submits[miss] \in Nat /\ miss \in SUBSET Node
        BY DEF TypeOK
      <4>2. wave' \in WaveId
        BY <2>6, <4>1 DEF FormWave, SealWave, WaveId
      <4> QED
        BY <2>6, <4>2 DEF FormWave, SealWave, TypeOK
    <3>2. TypeOK'
      BY <2>6, <3>1 DEF FormWave, SealWave, TypeOK
    <3> QED
      BY <2>6, <3>2
        DEF FormWave, SealWave, RefsMatch, HandInv, AnswerInv, ItemPcs, NodePcs,
            WavePcs
  <2>7. CASE Submit
    <3>1. /\ DOMAIN known' = DOMAIN known \cup {wave}
          /\ \A z \in DOMAIN known' : known'[z] = IF z = wave THEN ref' ELSE known[z]
      <4>1. known' = Put(known, wave, ref')
        BY <2>7 DEF Submit
      <4> QED
        BY ONLY <4>1 DEF Put
    <3>2. CASE wave \in DOMAIN known
      <4>1. ref' \in 1..Len(batches) /\ UNCHANGED batches /\ batches[ref'].key = wave
        BY <2>7, <3>2 DEF Submit, TypeOK, RefsMatch
      <4>2. TypeOK'
        BY <2>7, <3>1, <4>1 DEF Submit, TypeOK
      <4> QED
        BY <2>7, <3>1, <4>1, <4>2
          DEF Submit, RefsMatch, HandInv, AnswerInv, ItemPcs, NodePcs, WavePcs
    <3>3. CASE wave \notin DOMAIN known
      <4> DEFINE new == [key |-> wave, out |-> [n \in Node |-> "pending"]]
      <4>1. new \in Batch /\ new.key = wave
        BY DEF Batch, Outcome, TypeOK
      <4>2. batches' = Append(batches, new) /\ ref' = Len(batches) + 1
        BY <2>7, <3>3 DEF Submit
      <4> HIDE DEF new
      <4>3. /\ batches' \in Seq(Batch)
            /\ Len(batches') = Len(batches) + 1
            /\ \A i \in 1..Len(batches) : batches'[i] = batches[i]
            /\ batches'[Len(batches) + 1] = new
        BY <4>1, <4>2 DEF TypeOK
      <4>4. TypeOK'
        <5>1. /\ DOMAIN known' \subseteq WaveId
              /\ \A w \in DOMAIN known' : known'[w] \in 1..Len(batches')
              /\ \A w \in DOMAIN submitted : submitted[w] \in 1..Len(batches')
          BY <3>1, <4>2, <4>3 DEF TypeOK
        <5>2. DurableType'
          BY <2>7, <4>3, <5>1 DEF Submit, TypeOK
        <5>3. ProcessType'
          BY <2>7, <4>2, <4>3, <5>1 DEF Submit, TypeOK
        <5> QED
          BY <2>7, <4>3, <5>2, <5>3 DEF Submit, TypeOK
      <4>5. RefsMatch'
        BY <2>7, <3>1, <4>1, <4>2, <4>3 DEF Submit, TypeOK, RefsMatch
      <4> QED
        BY <2>7, <4>1, <4>2, <4>3, <4>4, <4>5
          DEF Submit, HandInv, AnswerInv, ItemPcs, NodePcs, WavePcs
    <3> QED
      BY <3>2, <3>3
  <2>8. CASE RecordSubmit
    <3>1. wave.items \subseteq Node /\ submits[wave.items] \in Nat
      BY <2>8 DEF RecordSubmit, TypeOK, WaveId
    <3>2. submits' \in [SUBSET Node -> Nat]
      BY <2>8, <3>1 DEF RecordSubmit, TypeOK
    <3>3. status' \in [Node -> Status]
      BY <2>8, StatusNames, SetStatusType DEF RecordSubmit
    <3>4. ref \in 1..Len(batches) /\ batches[ref].key = wave
      BY <2>8 DEF RecordSubmit, TypeOK, HandInv, WavePcs
    <3>5. /\ DOMAIN submitted' = DOMAIN submitted \cup {wave}
          /\ \A z \in DOMAIN submitted' : submitted'[z] = IF z = wave THEN ref ELSE submitted[z]
      <4>1. submitted' = Put(submitted, wave, ref)
        BY <2>8 DEF RecordSubmit
      <4> QED
        BY ONLY <4>1 DEF Put
    <3>6. TypeOK'
      BY <2>8, <3>2, <3>3, <3>4, <3>5 DEF RecordSubmit, TypeOK
    <3> QED
      BY <2>8, <3>4, <3>5, <3>6
        DEF RecordSubmit, RefsMatch, HandInv, AnswerInv, ItemPcs, NodePcs,
            WavePcs
  <2>9. ASSUME NEW b \in 1..Len(batches), BatchEnds(b) PROVE TypeInv'
    <3>1. PICK out \in [batches[b].key.items -> Outcome \ {"pending"}] :
            LET bad == {n \in DOMAIN out : out[n] = "failed"}
            IN  /\ failed + Cardinality(bad) <= MaxFailed
                /\ failed' = failed + Cardinality(bad)
                /\ batches' = [batches EXCEPT ![b].out =
                     [n \in Node |-> IF n \in DOMAIN out THEN out[n] ELSE @[n]]]
      BY <2>9 DEF BatchEnds
    <3> DEFINE bad == {n \in DOMAIN out : out[n] = "failed"}
    <3>2. batches[b] \in Batch /\ DOMAIN out \subseteq Node
      <4>1. batches[b] \in Batch
        BY DEF TypeOK
      <4>2. batches[b].key.items \subseteq Node
        BY <4>1 DEF Batch, WaveId
      <4> QED
        BY <3>1, <4>1, <4>2
    <3>3. Cardinality(bad) \in Nat /\ failed \in Nat
      <4>1. IsFiniteSet(bad)
        BY <3>2, FS_Subset
      <4> QED
        BY <4>1, FS_CardinalityType DEF TypeOK
    <3>4. failed' \in 0..MaxFailed
      BY <3>1, <3>3
    <3> DEFINE ended == [n \in Node |-> IF n \in DOMAIN out THEN out[n] ELSE batches[b].out[n]]
    <3>5. ended \in [Node -> Outcome]
      BY <3>2 DEF Batch
    <3>6. /\ batches' \in Seq(Batch)
          /\ Len(batches') = Len(batches)
          /\ \A i \in 1..Len(batches) : batches'[i].key = batches[i].key
          /\ \A i \in 1..Len(batches) : i # b => batches'[i] = batches[i]
      <4> DEFINE new == [batches[b] EXCEPT !.out = ended]
      <4>1. new \in Batch /\ new.key = batches[b].key
        BY <3>2, <3>5 DEF Batch
      <4>2. batches' = [batches EXCEPT ![b] = new]
        BY <3>1
      <4> HIDE DEF new
      <4> QED
        BY <4>1, <4>2 DEF TypeOK
    <3>7. ref # 0 /\ pc \in {"fetch"} \cup ItemPcs => ref # b
      BY <2>9 DEF BatchEnds, AnswerInv
    <3>8. TypeOK'
      BY <2>9, <3>4, <3>6 DEF BatchEnds, TypeOK
    <3>9. RefsMatch' /\ HandInv'
      BY <2>9, <3>6 DEF BatchEnds, TypeOK, RefsMatch, HandInv
    <3>10. AnswerInv'
      BY <2>9, <3>6, <3>7
        DEF BatchEnds, AnswerInv, TypeOK, Terminal, MemoHit, HandInv
    <3> QED
      BY <3>8, <3>9, <3>10
  <2>10. CASE FetchResults
    <3>1. queue' \subseteq Node
      BY <2>10 DEF FetchResults, WaveId, TypeOK
    <3> QED
      BY <2>10, <3>1
        DEF FetchResults, TypeOK, RefsMatch, HandInv, AnswerInv, ItemPcs,
            NodePcs, WavePcs
  <2>11. CASE PutMemo
    <3>1. node \in Node /\ (~Refused => Answer \in {"good", "bad"})
      BY <2>11, AnswerType DEF PutMemo, ItemPcs
    <3> DEFINE new == [call |-> CallId, answer |-> IF Refused THEN "none" ELSE Answer, by |-> node]
    <3>2. new \in Row
      BY <3>1 DEF Row, CallId, TypeOK
    <3>3. Prompt[node] \in Key
      BY <3>1 DEF Key
    <3>4. memo' \in [Key -> Row \cup {NoRow}]
      BY <2>11, <3>2, <3>3 DEF PutMemo, TypeOK
    <3>5. ref = 0 => memo' = memo
      BY <2>11, <3>3 DEF PutMemo, MemoHit, NoRow, AnswerInv, ItemPcs
    <3>6. TypeOK'
      BY <2>11, <3>4 DEF PutMemo, TypeOK
    <3>7. RefsMatch' /\ HandInv'
      BY <2>11 DEF PutMemo, RefsMatch, HandInv, ItemPcs, NodePcs, WavePcs
    <3>8. AnswerInv'
      BY <2>11, <3>5 DEF PutMemo, MemoHit, AnswerInv, ItemPcs
    <3> QED
      BY <3>6, <3>7, <3>8
  <2>12. CASE Validate
    <3>1. CASE pc' = "apply" /\ UNCHANGED <<status, node>>
      BY <2>12, <3>1
        DEF Validate, MemoHit, TypeOK, RefsMatch, HandInv, AnswerInv, ItemPcs,
            NodePcs, WavePcs
    <3>2. ASSUME NEW s \in {"DONE", "NEEDS_HUMAN"}, status' = SetStatus({node}, s), ItemDone
          PROVE  TypeInv'
      BY <2>12, <3>2, StatusNames, SetStatusType
        DEF Validate, ItemDone, TypeOK, RefsMatch, HandInv, AnswerInv, ItemPcs,
            NodePcs, WavePcs
    <3> QED
      BY <2>12, <3>1, <3>2 DEF Validate
  <2>13. CASE ApplyDiff
    <3>1. DiffOf[AnswerBy] \in Diff
      BY <2>13, AnswerType DEF ApplyDiff, ItemPcs
    <3>2. PICK wiped \in WipedBy(DiffOf[AnswerBy]) :
            \/ /\ landed' = (landed \ wiped) \cup {DiffOf[AnswerBy]}
               /\ pc' = "ledger"
               /\ UNCHANGED <<status, node>>
            \/ /\ landed' = landed \ wiped
               /\ status' = SetStatus({node}, "NEEDS_HUMAN")
               /\ ItemDone
      BY <2>13 DEF ApplyDiff
    <3>3. landed' \subseteq Diff
      BY <3>1, <3>2 DEF TypeOK
    <3>4. CASE pc' = "ledger" /\ UNCHANGED <<status, node>>
      BY <2>13, <3>3, <3>4
        DEF ApplyDiff, MemoHit, TypeOK, RefsMatch, HandInv, AnswerInv, ItemPcs,
            NodePcs, WavePcs
    <3>5. CASE status' = SetStatus({node}, "NEEDS_HUMAN") /\ ItemDone
      BY <2>13, <3>3, <3>5, StatusNames, SetStatusType
        DEF ApplyDiff, ItemDone, TypeOK, RefsMatch, HandInv, AnswerInv, ItemPcs,
            NodePcs, WavePcs
    <3> QED
      BY <3>2, <3>4, <3>5
  <2>14. CASE RecordApplied
    <3>1. DiffOf[AnswerBy] \in Diff
      BY <2>14, AnswerType DEF RecordApplied, RecordAs, ItemPcs
    <3> QED
      BY <2>14, <3>1, StatusNames, SetStatusType
        DEF RecordApplied, RecordAs, MemoHit, TypeOK, RefsMatch, HandInv,
            AnswerInv, ItemPcs, NodePcs, WavePcs
  \* The steps that only move run_job on, or give a node its next status.
  <2> USE DEF TypeOK, RefsMatch, HandInv, AnswerInv, MemoHit, ItemPcs, NodePcs, WavePcs
  <2>15. CASE UNCHANGED vars
    BY <2>15 DEF vars
  <2>16. CASE Crash
    BY <2>16, NoWaveType DEF Crash, Exit, EmptyMap
  <2>17. CASE Start
    BY <2>17 DEF Start, Resumes
  <2>18. ASSUME NEW w \in DOMAIN submitted, ResumeInFlight(w) PROVE TypeInv'
    BY <2>18 DEF ResumeInFlight, InFlight
  <2>19. ASSUME NEW w \in recon, NoBatchFound(w) PROVE TypeInv'
    BY <2>19 DEF NoBatchFound, GiveUpWave, WaveId
  <2>20. CASE Resumed
    BY <2>20 DEF Resumed, EnterLoop
  <2>21. CASE NextIteration
    BY <2>21 DEF NextIteration, TakeFrontier, Frontier
  <2>22. ASSUME NEW n \in todo, MarkReady(n) PROVE TypeInv'
    BY <2>22, StatusNames, SetStatusType DEF MarkReady
  <2>23. ASSUME NEW n \in todo, AutoApproveGate(n) PROVE TypeInv'
    BY <2>23, StatusNames, SetStatusType DEF AutoApproveGate, Dispatching
  <2>24. CASE TemplateDone
    BY <2>24, StatusNames, SetStatusType DEF TemplateDone
  <2>25. ASSUME NEW n \in todo, NoBindings(n) PROVE TypeInv'
    BY <2>25, StatusNames, SetStatusType DEF NoBindings, Dispatching
  <2>26. ASSUME NEW n \in todo, StartLocal(n) PROVE TypeInv'
    BY <2>26, StatusNames, SetStatusType DEF StartLocal, Dispatching
  <2>27. ASSUME NEW n \in todo, CollectRemote(n) PROVE TypeInv'
    BY <2>27 DEF CollectRemote, Dispatching
  <2>28. CASE EndDispatch
    BY <2>28 DEF EndDispatch
  <2>29. CASE NextGroup
    BY <2>29 DEF NextGroup
  <2>30. CASE EndGroups
    BY <2>30 DEF EndGroups
  <2>31. ASSUME NEW n \in queue, ServeFromMemo(n) PROVE TypeInv'
    BY <2>31, StatusNames, SetStatusType DEF ServeFromMemo
  <2>32. CASE AllCached
    BY <2>32 DEF AllCached
  <2>33. ASSUME NEW n \in queue, Harvest(n) PROVE TypeInv'
    BY <2>33, StatusNames, SetStatusType DEF Harvest
  <2>34. ASSUME NEW n \in queue, TakeItem(n) PROVE TypeInv'
    BY <2>34 DEF TakeItem
  <2>35. CASE ItemReturned
    BY <2>35, StatusNames, SetStatusType DEF ItemReturned, LinkItem
  <2>36. CASE ItemExpired
    BY <2>36, StatusNames, SetStatusType DEF ItemExpired
  <2>37. CASE ForeignKeyError
    BY <2>37, NoWaveType DEF ForeignKeyError, Exit, EmptyMap
  <2>38. CASE ReEnqueue
    BY <2>38, StatusNames, SetStatusType DEF ReEnqueue, ItemDone
  <2>39. CASE NodeDone
    BY <2>39, StatusNames, SetStatusType DEF NodeDone, ItemDone
  <2>40. CASE CompleteWave
    BY <2>40, NoWaveType DEF CompleteWave, CloseWave
  <2>41. CASE Finalize
    BY <2>41, NoWaveType DEF Finalize, Exit, EmptyMap
  <2> HIDE DEF TypeOK, RefsMatch, HandInv, AnswerInv, MemoHit, ItemPcs, NodePcs, WavePcs
  <2> QED
    BY <2>1, <2>2, <2>3, <2>4, <2>5, <2>6, <2>7, <2>8, <2>9, <2>10, <2>11,
       <2>12, <2>13, <2>14, <2>15, <2>16, <2>17, <2>18, <2>19, <2>20, <2>21,
       <2>22, <2>23, <2>24, <2>25, <2>26, <2>27, <2>28, <2>29, <2>30, <2>31,
       <2>32, <2>33, <2>34, <2>35, <2>36, <2>37, <2>38, <2>39, <2>40, <2>41
    DEF Next, Run, Resume, Dispatch, RemoteWave, ProcessWave, Provider
<1> QED
  BY <1>1, <1>2, PTL DEF Spec

\* Every variable of the loop keeps its type (orchestrator.py, memo.py, ledger.py).
THEOREM TypeCorrect == Spec => []TypeOK
  BY TypeInvariant, PTL DEF TypeInv

-----------------------------------------------------------------------------
(* The order of the log: WAVE_FORMED, submit, WAVE_SUBMITTED, results,     *)
(* WAVE_COMPLETED, and what each order says about the provider.            *)

\* The process awaits a wave, or works through its results.
OnWave == pc \in {"poll", "fetch"} \/ (pc \in ItemPcs /\ ref # 0)
Resuming == pc \in {"resume", "unharvest"} \/ (OnWave /\ iter = 0)

\* The log is in order, and an ordinal that was submitted is used up.
LogInv ==
  /\ DOMAIN submitted \subseteq formed
  /\ completed \subseteq DOMAIN submitted
  /\ recon \subseteq formed
  /\ \A w \in formed : w.ord <= submits[w.items]
  /\ \A w \in DOMAIN submitted : w.ord < submits[w.items]

\* Where run_job stands, as the iteration counter and the wave at hand tell it.
PhaseInv ==
  /\ pc \in {"idle", "resume", "unharvest"} => iter = 0
  /\ pc \in {"dispatch", "fanout", "local", "group", "memo", "harvest", "record"} => iter # 0
  /\ pc \in ItemPcs /\ ref = 0 => iter # 0
  /\ pc \in {"harvest", "record"} => wave \in formed /\ wave.ord = submits[wave.items]
  /\ OnWave => wave \in DOMAIN submitted

\* A wave in flight is the only one; in the loop it is the one at hand.
BarrierInv ==
  /\ pc \in {"idle", "resume"} => \A v, w \in InFlight : v = w
  /\ OnWave => InFlight \subseteq {wave}
  /\ ~OnWave /\ pc \notin {"idle", "resume"} => InFlight = {}

\* A batch is on record, or about to be, or a resume is about to ask for it.
PaidInv ==
  /\ NoDoubleSubmit
  /\ \A b \in 1..Len(batches) :
       \/ batches[b].key \in DOMAIN submitted
       \/ pc = "idle"
       \/ Resuming /\ batches[b].key \in recon
       \/ pc = "record" /\ batches[b].key = wave

LoopInv == WriteAhead /\ LogInv /\ PhaseInv /\ BarrierInv /\ (FindExact => PaidInv)

\* WAVE_SUBMITTED for a formed wave keeps the log in order.
LEMMA SubmittedInOrder ==
  ASSUME TypeInv, LogInv, NEW w \in formed, NEW b,
         submitted' = Put(submitted, w, b),
         submits' = [submits EXCEPT ![w.items] = @ + 1],
         UNCHANGED <<formed, completed>>,
         recon' \subseteq recon
  PROVE  /\ LogInv'
         /\ DOMAIN submitted' = DOMAIN submitted \cup {w}
<1>1. DOMAIN submitted' = DOMAIN submitted \cup {w}
  BY DEF Put
<1>2. formed \subseteq WaveId /\ submits \in [SUBSET Node -> Nat]
  BY DEF TypeInv, TypeOK, DurableType
<1>3. \A v \in formed : v.items \in SUBSET Node /\ v.ord \in Nat
  BY <1>2 DEF WaveId
<1>4. \A v \in formed : submits'[v.items] = IF v.items = w.items THEN submits[v.items] + 1
                                                               ELSE submits[v.items]
  BY <1>2, <1>3
<1>5. \A v \in formed : submits[v.items] \in Nat
  BY <1>2, <1>3
<1> QED
  BY <1>1, <1>3, <1>4, <1>5 DEF LogInv

\* The loop keeps its log in order through every step and crash, and with a
\* find_batch that sees every batch it never buys one twice.
LEMMA LoopInvariant == Spec => []LoopInv
<1> USE PlanAssumption, BoundAssumption
<1>1. Init => LoopInv
  BY
    DEF Init, LoopInv, WriteAhead, LogInv, PhaseInv, BarrierInv, PaidInv,
        NoDoubleSubmit, OnWave,
         Resuming, InFlight, ItemPcs, EmptyMap
<1>2. TypeInv /\ LoopInv /\ [Next]_vars => LoopInv'
  <2> SUFFICES ASSUME TypeInv, LoopInv, [Next]_vars PROVE LoopInv'
    OBVIOUS
  <2> USE DEF durable, waves, tables, world, memory, frontier, group, hand, process, bounds
  <2> USE DEF LoopInv
  <2>0. HandInv
    BY DEF TypeInv
  <2>1. ASSUME NEW w \in recon, NEW b \in 1..Len(batches), AdoptBatch(w, b) PROVE LoopInv'
    <3>1. w \in formed
      BY DEF LogInv
    <3>2. LogInv' /\ DOMAIN submitted' = DOMAIN submitted \cup {w}
      BY <2>1, <3>1, SubmittedInOrder DEF AdoptBatch
    <3>3. /\ pc' = "poll" /\ wave' = w /\ iter' = iter /\ iter = 0 /\ recon' = recon \ {w}
          /\ InFlight = {} /\ UNCHANGED <<formed, completed, batches>>
      BY <2>1 DEF AdoptBatch, PhaseInv
    <3>4. WriteAhead'
      BY <3>3 DEF WriteAhead
    <3>5. PhaseInv'
      BY <3>2, <3>3 DEF PhaseInv, OnWave, ItemPcs
    <3>6. BarrierInv'
      BY <3>2, <3>3 DEF BarrierInv, InFlight, OnWave, ItemPcs
    <3>7. FindExact => PaidInv'
      BY <2>1, <3>2, <3>3
        DEF AdoptBatch, PaidInv, NoDoubleSubmit, Resuming, OnWave, ItemPcs
    <3> QED
      BY <3>2, <3>4, <3>5, <3>6, <3>7
  <2>2. CASE NextIteration
    <3>1. iter' # 0
      BY <2>2 DEF NextIteration, TakeFrontier, TypeInv, TypeOK, ProcessType
    <3> QED
      BY <2>2, <3>1, <2>0
        DEF NextIteration, TakeFrontier, WriteAhead, LogInv, PhaseInv,
            BarrierInv, PaidInv, NoDoubleSubmit, OnWave, Resuming, InFlight,
            ItemPcs, HandInv, NodePcs, WavePcs
  <2>3. CASE FormWave
    <3>1. wave'.items = miss /\ wave'.ord = submits[miss] /\ submits[miss] \in Nat
      BY <2>3 DEF FormWave, SealWave, TypeInv, TypeOK, DurableType, ProcessType
    <3>2. /\ pc = "memo" /\ pc' = "harvest" /\ formed' = formed \cup {wave'}
          /\ UNCHANGED <<submitted, completed, submits, recon, batches, iter, ref>>
      BY <2>3 DEF FormWave, SealWave
    <3>3. WriteAhead'
      BY <3>2 DEF WriteAhead
    <3>4. LogInv'
      BY <3>1, <3>2 DEF LogInv
    <3>5. PhaseInv'
      BY <3>1, <3>2 DEF PhaseInv, OnWave, ItemPcs
    <3>6. BarrierInv'
      BY <3>2 DEF BarrierInv, InFlight, OnWave, ItemPcs
    <3>7. FindExact => PaidInv'
      BY <3>2 DEF PaidInv, NoDoubleSubmit, Resuming, OnWave, ItemPcs
    <3> QED
      BY <3>3, <3>4, <3>5, <3>6, <3>7
  <2>4. CASE Submit
    <3>1. /\ pc = "harvest" /\ pc' = "record" /\ wave \in formed /\ wave.ord = submits[wave.items]
          /\ UNCHANGED <<formed, submitted, completed, submits, recon, iter, wave>>
      BY <2>4 DEF Submit, PhaseInv
    <3>2. wave \notin DOMAIN submitted
      <4>1. submits[wave.items] \in Nat
        BY <3>1 DEF TypeInv, TypeOK, DurableType, ProcessType, WaveId
      <4> QED
        BY <3>1, <4>1 DEF LogInv
    <3>3. FindExact => \A b \in 1..Len(batches) : batches[b].key # wave
      BY <3>1, <3>2 DEF PaidInv, Resuming, OnWave, ItemPcs
    <3>4. PICK new : \/ UNCHANGED batches
                     \/ batches' = Append(batches, new) /\ new.key = wave
      BY <2>4 DEF Submit
    <3>5. \/ UNCHANGED batches
          \/ /\ Len(batches') = Len(batches) + 1
             /\ \A i \in 1..Len(batches) : batches'[i] = batches[i]
             /\ batches'[Len(batches) + 1].key = wave
             /\ Len(batches) \in Nat
      BY <3>4 DEF TypeInv, TypeOK, WorldType
    <3>6. WriteAhead'
      BY <3>1, <3>5 DEF WriteAhead
    <3>7. LogInv' /\ PhaseInv'
      BY <3>1 DEF LogInv, PhaseInv, OnWave, ItemPcs
    <3>8. BarrierInv'
      BY <3>1 DEF BarrierInv, InFlight, OnWave, ItemPcs
    <3>9. FindExact => PaidInv'
      BY <3>1, <3>3, <3>5 DEF PaidInv, NoDoubleSubmit, Resuming, OnWave, ItemPcs
    <3> QED
      BY <3>6, <3>7, <3>8, <3>9
  <2>5. CASE RecordSubmit
    <3>1. /\ pc = "record" /\ pc' = "poll" /\ wave \in formed
          /\ UNCHANGED <<formed, completed, recon, iter, wave, batches>>
      BY <2>5 DEF RecordSubmit, PhaseInv
    <3>2. LogInv' /\ DOMAIN submitted' = DOMAIN submitted \cup {wave}
      BY <2>5, <3>1, SubmittedInOrder DEF RecordSubmit
    <3>3. WriteAhead'
      BY <3>1 DEF WriteAhead
    <3>4. PhaseInv'
      BY <3>1, <3>2 DEF PhaseInv, OnWave, ItemPcs
    <3>5. BarrierInv'
      BY <3>1, <3>2 DEF BarrierInv, InFlight, OnWave, ItemPcs
    <3>6. FindExact => PaidInv'
      BY <3>1, <3>2 DEF PaidInv, NoDoubleSubmit, Resuming, OnWave, ItemPcs
    <3> QED
      BY <3>2, <3>3, <3>4, <3>5, <3>6
  \* The steps that write neither the log of waves nor a batch.
  <2> USE <2>0 DEF WriteAhead, LogInv, PhaseInv, BarrierInv, PaidInv, NoDoubleSubmit
  <2> USE DEF OnWave, Resuming, InFlight, HandInv, ItemPcs, NodePcs, WavePcs
  <2>6. CASE UNCHANGED vars
    BY <2>6 DEF vars
  <2>7. CASE Crash
    BY <2>7 DEF Crash, Exit
  <2>8. CASE Start
    BY <2>8 DEF Start, Resumes
  <2>9. ASSUME NEW w \in DOMAIN submitted, ResumeInFlight(w) PROVE LoopInv'
    BY <2>9 DEF ResumeInFlight
  <2>10. ASSUME NEW w \in recon, NoBatchFound(w) PROVE LoopInv'
    BY <2>10 DEF NoBatchFound, GiveUpWave
  <2>11. CASE Unharvest
    BY <2>11 DEF Unharvest
  <2>12. CASE Resumed
    BY <2>12 DEF Resumed, EnterLoop
  <2>13. ASSUME NEW n \in todo, MarkReady(n) PROVE LoopInv'
    BY <2>13 DEF MarkReady
  <2>14. ASSUME NEW n \in todo, AutoApproveGate(n) PROVE LoopInv'
    BY <2>14 DEF AutoApproveGate, Dispatching
  <2>15. ASSUME NEW n \in todo, ResolveTemplate(n) PROVE LoopInv'
    BY <2>15 DEF ResolveTemplate, Dispatching
  <2>16. CASE TemplateDone
    BY <2>16 DEF TemplateDone
  <2>17. ASSUME NEW n \in todo, NoBindings(n) PROVE LoopInv'
    BY <2>17 DEF NoBindings, Dispatching
  <2>18. ASSUME NEW n \in todo, StartLocal(n) PROVE LoopInv'
    BY <2>18 DEF StartLocal, Dispatching
  <2>19. CASE FinishLocal
    BY <2>19 DEF FinishLocal
  <2>20. ASSUME NEW n \in todo, CollectRemote(n) PROVE LoopInv'
    BY <2>20 DEF CollectRemote, Dispatching
  <2>21. CASE EndDispatch
    BY <2>21 DEF EndDispatch
  <2>22. CASE NextGroup
    BY <2>22 DEF NextGroup
  <2>23. CASE EndGroups
    BY <2>23 DEF EndGroups
  <2>24. ASSUME NEW n \in queue, ServeFromMemo(n) PROVE LoopInv'
    BY <2>24 DEF ServeFromMemo
  <2>25. ASSUME NEW n \in queue, MissMemo(n) PROVE LoopInv'
    BY <2>25 DEF MissMemo
  <2>26. CASE AllCached
    BY <2>26 DEF AllCached
  <2>27. ASSUME NEW n \in queue, Harvest(n) PROVE LoopInv'
    BY <2>27 DEF Harvest
  <2>28. ASSUME NEW b \in 1..Len(batches), BatchEnds(b) PROVE LoopInv'
    BY <2>28 DEF BatchEnds
  <2>29. CASE FetchResults
    BY <2>29 DEF FetchResults
  <2>30. ASSUME NEW n \in queue, TakeItem(n) PROVE LoopInv'
    BY <2>30 DEF TakeItem
  <2>31. CASE PutMemo
    BY <2>31 DEF PutMemo
  <2>32. CASE ItemReturned
    BY <2>32 DEF ItemReturned, LinkItem
  <2>33. CASE ItemExpired
    BY <2>33 DEF ItemExpired
  <2>34. CASE ForeignKeyError
    BY <2>34 DEF ForeignKeyError, Exit
  <2>35. CASE ReEnqueue
    BY <2>35 DEF ReEnqueue, ItemDone
  <2>36. CASE Validate
    BY <2>36 DEF Validate, ItemDone
  <2>37. CASE ApplyDiff
    BY <2>37 DEF ApplyDiff, ItemDone
  <2>38. CASE RecordApplied
    BY <2>38 DEF RecordApplied, RecordAs
  <2>39. CASE NodeDone
    BY <2>39 DEF NodeDone, ItemDone
  <2>40. CASE CompleteWave
    BY <2>40 DEF CompleteWave, CloseWave
  <2>41. CASE Finalize
    BY <2>41 DEF Finalize, Exit
  <2> HIDE DEF WriteAhead, LogInv, PhaseInv, BarrierInv, PaidInv, NoDoubleSubmit, OnWave, Resuming
  <2> HIDE DEF InFlight, HandInv, ItemPcs, NodePcs, WavePcs
  <2> QED
    BY <2>1, <2>2, <2>3, <2>4, <2>5, <2>6, <2>7, <2>8, <2>9, <2>10, <2>11,
       <2>12, <2>13, <2>14, <2>15, <2>16, <2>17, <2>18, <2>19, <2>20, <2>21,
       <2>22, <2>23, <2>24, <2>25, <2>26, <2>27, <2>28, <2>29, <2>30, <2>31,
       <2>32, <2>33, <2>34, <2>35, <2>36, <2>37, <2>38, <2>39, <2>40, <2>41
    DEF Next, Run, Resume, Dispatch, RemoteWave, ProcessWave, Provider
<1> QED
  BY <1>1, <1>2, TypeInvariant, PTL DEF Spec

-----------------------------------------------------------------------------
(* What follows for the job.                                               *)

\* orchestrator.py:615: WAVE_FORMED is durable before the provider hears of
\* the wave, in every reachable state and for every plan.
THEOREM AlwaysWriteAhead == Spec => []WriteAhead
  BY LoopInvariant, PTL DEF LoopInv

\* resume.py:18, orchestrator.py:520: if find_batch sees every batch, no crash
\* makes run_job buy a second batch for one idempotency key.
THEOREM NeverDoubleSubmit == FindExact => (Spec => []NoDoubleSubmit)
<1> SUFFICES ASSUME FindExact PROVE Spec => []NoDoubleSubmit
  OBVIOUS
<1>1. LoopInv => NoDoubleSubmit
  BY DEF LoopInv, PaidInv
<1> QED
  BY <1>1, LoopInvariant, PTL

\* DESIGN.md 7.2: waves are barriers, also across crashes and resumes.
THEOREM AlwaysOneWaveInFlight == Spec => []OneWaveInFlight
<1>1. LoopInv => OneWaveInFlight
  <2> SUFFICES ASSUME LoopInv PROVE OneWaveInFlight
    OBVIOUS
  <2>1. \A v, w \in InFlight : v = w
    BY DEF LoopInv, BarrierInv
  <2>2. CASE InFlight = {}
    BY <2>2, FS_EmptySet DEF OneWaveInFlight
  <2>3. CASE InFlight # {}
    <3>1. PICK w \in InFlight : TRUE
      BY <2>3
    <3>2. InFlight = {w}
      BY <2>1, <3>1
    <3> QED
      BY <3>2, FS_Singleton DEF OneWaveInFlight
  <2> QED
    BY <2>2, <2>3
<1> QED
  BY <1>1, LoopInvariant, PTL

\* orchestrator.py:689: when the loop takes its next frontier, every batch the
\* job ever paid for is on record and has been worked through.
THEOREM NeverOrphanBatch == FindExact => (Spec => []NoOrphanBatch)
<1> SUFFICES ASSUME FindExact PROVE Spec => []NoOrphanBatch
  OBVIOUS
<1>1. TypeInv /\ LoopInv => NoOrphanBatch
  <2> SUFFICES ASSUME TypeInv, LoopInv, pc = "loop", NEW b \in 1..Len(batches)
               PROVE  /\ batches[b].key \in completed \cap DOMAIN submitted
                      /\ submitted[batches[b].key] = b
    BY DEF NoOrphanBatch
  <2>1. batches[b].key \in DOMAIN submitted
    BY DEF LoopInv, PaidInv, Resuming, OnWave, ItemPcs
  <2>2. batches[b].key \in completed
    BY <2>1 DEF LoopInv, BarrierInv, InFlight, OnWave, ItemPcs
  <2>3. submitted[batches[b].key] = b
    BY <2>1
      DEF LoopInv, PaidInv, NoDoubleSubmit, TypeInv, TypeOK, DurableType,
          RefsMatch
  <2> QED
    BY <2>1, <2>2, <2>3
<1> QED
  BY <1>1, TypeInvariant, LoopInvariant, PTL

-----------------------------------------------------------------------------
(* WaveLoop implements WaveLedger.  Five of the loop's actions write what  *)
(* the ledger sees: each of them is one of its actions, the others leave   *)
(* it as it is.                                                            *)

\* The waves the provider was asked to run.
Bought == {batches[b].key : b \in 1..Len(batches)}

\* What the ledger sees of the loop.
Seen == <<formed, submitted, completed, batches>>

\* Outside a wave, and not resuming, the loop's record of the provider is
\* complete; the invariants of WaveLoop_proofs say so.
LEMMA QuietInTheLoop ==
  ASSUME FindExact, LoopInv, pc \in {"memo", "harvest"}
  PROVE  Bought \subseteq DOMAIN submitted /\ DOMAIN submitted = completed
<1>1. \A b \in 1..Len(batches) : batches[b].key \in DOMAIN submitted
  BY DEF LoopInv, PaidInv, Resuming, OnWave, ItemPcs
<1>2. InFlight = {} /\ completed \subseteq DOMAIN submitted
  BY DEF LoopInv, BarrierInv, LogInv, OnWave, ItemPcs
<1> QED
  BY <1>1, <1>2 DEF Bought, InFlight

\* A step that writes none of it is a stuttering step of the ledger.
LEMMA UnseenStep ==
  ASSUME UNCHANGED Seen
  PROVE  UNCHANGED Ledger!vars
  BY DEF Seen, Ledger!vars

\* The actions that only move run_job on, process an item or lose the process.
UnseenAction ==
  \/ Start \/ Crash \/ Unharvest \/ Resumed \/ NextIteration
  \/ \E w \in DOMAIN submitted : ResumeInFlight(w)
  \/ \E w \in recon : NoBatchFound(w)
  \/ \E n \in todo : \/ MarkReady(n) \/ AutoApproveGate(n) \/ ResolveTemplate(n)
                     \/ NoBindings(n) \/ StartLocal(n) \/ CollectRemote(n)
  \/ TemplateDone \/ FinishLocal \/ EndDispatch \/ NextGroup \/ EndGroups \/ AllCached
  \/ \E n \in queue : ServeFromMemo(n) \/ MissMemo(n) \/ Harvest(n) \/ TakeItem(n)
  \/ FetchResults \/ PutMemo \/ ItemReturned \/ ItemExpired \/ ForeignKeyError
  \/ ReEnqueue \/ Validate \/ ApplyDiff \/ RecordApplied \/ NodeDone \/ Finalize

LEMMA UnseenActions ==
  ASSUME UnseenAction
  PROVE  UNCHANGED Seen
<1> USE DEF Seen, durable, waves, world
<1>1. CASE Start \/ Crash \/ Unharvest \/ Resumed \/ NextIteration
  BY <1>1 DEF Start, Resumes, Crash, Unharvest, Resumed, EnterLoop, NextIteration, TakeFrontier
<1>2. ASSUME NEW w, ResumeInFlight(w) \/ NoBatchFound(w) PROVE UNCHANGED Seen
  BY <1>2 DEF ResumeInFlight, NoBatchFound, GiveUpWave
<1>3. ASSUME NEW n, \/ MarkReady(n) \/ AutoApproveGate(n) \/ ResolveTemplate(n)
                    \/ NoBindings(n) \/ StartLocal(n) \/ CollectRemote(n)
      PROVE  UNCHANGED Seen
  BY <1>3
  DEF MarkReady, AutoApproveGate, ResolveTemplate, NoBindings, StartLocal, CollectRemote
<1>4. CASE TemplateDone \/ FinishLocal \/ EndDispatch \/ NextGroup \/ EndGroups \/ AllCached
  BY <1>4 DEF TemplateDone, FinishLocal, EndDispatch, NextGroup, EndGroups, AllCached
<1>5. ASSUME NEW n, ServeFromMemo(n) \/ MissMemo(n) \/ Harvest(n) \/ TakeItem(n)
      PROVE  UNCHANGED Seen
  BY <1>5 DEF ServeFromMemo, MissMemo, Harvest, TakeItem
<1>6. CASE FetchResults \/ PutMemo \/ ItemReturned \/ ItemExpired \/ ForeignKeyError
  BY <1>6 DEF FetchResults, PutMemo, ItemReturned, LinkItem, ItemExpired, ForeignKeyError
<1>7. CASE ReEnqueue \/ Validate \/ ApplyDiff \/ RecordApplied \/ NodeDone \/ Finalize
  BY <1>7 DEF ReEnqueue, Validate, ApplyDiff, RecordApplied, RecordAs, NodeDone, Finalize
<1> QED
  BY <1>1, <1>2, <1>3, <1>4, <1>5, <1>6, <1>7 DEF UnseenAction

\* WAVE_FORMED.
LEMMA FormStep ==
  ASSUME FindExact, TypeInv, LoopInv, FormWave
  PROVE  Ledger!Form
<1>1. wave'.items = miss /\ wave'.ord = submits[miss] /\ submits[miss] \in Nat
  BY DEF FormWave, SealWave, TypeInv, TypeOK, DurableType, ProcessType
<1>2. wave' \notin DOMAIN submitted
  BY <1>1 DEF LoopInv, LogInv
<1>3. Bought \subseteq DOMAIN submitted /\ DOMAIN submitted = completed
  BY QuietInTheLoop DEF FormWave, SealWave
<1> QED
  BY <1>2, <1>3 DEF FormWave, SealWave, Ledger!Form, Ledger!Quiet, Bought, waves, world

\* adapter.submit, of a wave that is on record and was never bought.
LEMMA BuyStep ==
  ASSUME FindExact, TypeInv, LoopInv, Submit, ~UNCHANGED batches
  PROVE  Ledger!Buy
<1>1. Bought \subseteq DOMAIN submitted /\ DOMAIN submitted = completed
  BY QuietInTheLoop DEF Submit
<1>2. wave \in formed /\ wave.ord = submits[wave.items] /\ submits[wave.items] \in Nat
  BY DEF Submit, LoopInv, PhaseInv, TypeInv, TypeOK, DurableType, ProcessType, WaveId
<1>3. wave \notin Bought
  BY <1>1, <1>2 DEF LoopInv, LogInv
<1>4. PICK new : batches' = Append(batches, new) /\ new.key = wave
  BY DEF Submit
<1>5. /\ Len(batches') = Len(batches) + 1 /\ Len(batches) \in Nat
      /\ \A i \in 1..Len(batches) : batches'[i] = batches[i]
      /\ batches'[Len(batches) + 1].key = wave
  BY <1>4 DEF TypeInv, TypeOK, WorldType
<1>6. Bought' = Bought \cup {wave}
  BY <1>5 DEF Bought
<1> QED
  BY <1>1, <1>2, <1>3, <1>5, <1>6
  DEF Submit, Ledger!Buy, Ledger!Quiet, Bought, durable, waves

\* WAVE_SUBMITTED, whether the loop appends it or a resume that adopts.
LEMMA OnRecordStep ==
  ASSUME LogInv, DOMAIN submitted = completed, NEW w \in Bought \ DOMAIN submitted, NEW b,
         submitted' = Put(submitted, w, b), UNCHANGED <<formed, completed, batches>>
  PROVE  Ledger!Record
<1>1. DOMAIN submitted' = DOMAIN submitted \cup {w}
  BY DEF Put
<1> QED
  BY <1>1 DEF Ledger!Record, Bought

\* If find_batch sees every batch the provider holds, the loop implements the
\* ledger for every plan, whatever it crashes on (orchestrator.py:520, 589, 653).
THEOREM ImplementsTheLedger == FindExact => (Spec => BuysByTheLedger)
<1> SUFFICES ASSUME FindExact PROVE Spec => Ledger!Spec
  BY DEF BuysByTheLedger
<1>1. Init => Ledger!Init
  BY DEF Init, EmptyMap, Ledger!Init
<1>2. TypeInv /\ LoopInv /\ [Next]_vars => [Ledger!Next]_(Ledger!vars)
  <2> SUFFICES ASSUME TypeInv, LoopInv, [Next]_vars PROVE Ledger!Next \/ UNCHANGED Ledger!vars
    OBVIOUS
  <2>1. CASE FormWave
    BY <2>1, FormStep DEF Ledger!Next
  <2>2. CASE Submit
    <3>1. CASE UNCHANGED batches
      BY <2>2, <3>1, UnseenStep DEF Submit, Seen, durable, waves
    <3>2. CASE ~UNCHANGED batches
      BY <2>2, <3>2, BuyStep DEF Ledger!Next
    <3> QED
      BY <3>1, <3>2
  <2>3. CASE RecordSubmit
    <3>1. wave \in Bought
      <4>1. ref \in 1..Len(batches) /\ batches[ref].key = wave
        BY <2>3 DEF RecordSubmit, TypeInv, HandInv, WavePcs, TypeOK, ProcessType, WorldType
      <4> QED
        BY <4>1 DEF Bought
    <3>2. wave \notin DOMAIN submitted /\ DOMAIN submitted = completed
      <4>1. wave.ord = submits[wave.items] /\ submits[wave.items] \in Nat
        BY <2>3
        DEF RecordSubmit, LoopInv, PhaseInv, TypeInv, TypeOK, DurableType, ProcessType, WaveId
      <4>2. InFlight = {}
        BY <2>3 DEF RecordSubmit, LoopInv, BarrierInv, OnWave, ItemPcs
      <4>3. wave \notin DOMAIN submitted
        BY <4>1 DEF LoopInv, LogInv
      <4>4. completed \subseteq DOMAIN submitted
        BY DEF LoopInv, LogInv
      <4> QED
        BY <4>2, <4>3, <4>4 DEF InFlight
    <3>3. submitted' = Put(submitted, wave, ref) /\ UNCHANGED <<formed, completed, batches>>
      BY <2>3 DEF RecordSubmit, world
    <3> QED
      BY <3>1, <3>2, <3>3, OnRecordStep DEF LoopInv, Ledger!Next
  <2>4. ASSUME NEW w \in recon, NEW b \in 1..Len(batches), AdoptBatch(w, b)
        PROVE  Ledger!Next \/ UNCHANGED Ledger!vars
    <3>1. w \in Bought /\ DOMAIN submitted = completed
      BY <2>4 DEF AdoptBatch, Bought, InFlight, LoopInv, LogInv
    <3>2. submitted' = Put(submitted, w, b) /\ UNCHANGED <<formed, completed, batches>>
      BY <2>4 DEF AdoptBatch, world
    <3>3. CASE w \in DOMAIN submitted
      <4>1. DOMAIN submitted' = DOMAIN submitted
        BY <3>2, <3>3 DEF Put
      <4> QED
        BY <3>2, <4>1 DEF Ledger!vars
    <3>4. CASE w \notin DOMAIN submitted
      BY <3>1, <3>2, <3>4, OnRecordStep DEF LoopInv, Ledger!Next
    <3> QED
      BY <3>3, <3>4
  <2>5. CASE CompleteWave
    <3>1. wave \in DOMAIN submitted
      BY <2>5 DEF CompleteWave, CloseWave, LoopInv, PhaseInv, OnWave
    <3>2. completed' = completed \cup {wave} /\ UNCHANGED <<formed, submitted, batches>>
      BY <2>5 DEF CompleteWave, CloseWave, world
    <3>3. CASE wave \in completed
      BY <3>2, <3>3, UnseenStep DEF Seen
    <3>4. CASE wave \notin completed
      BY <3>1, <3>2, <3>4 DEF Ledger!Complete, Ledger!Next
    <3> QED
      BY <3>3, <3>4
  <2>6. ASSUME NEW b \in 1..Len(batches), BatchEnds(b) PROVE UNCHANGED Ledger!vars
    <3>1. /\ Len(batches') = Len(batches)
          /\ \A i \in 1..Len(batches) : batches'[i].key = batches[i].key
      <4>1. PICK out : batches' = [batches EXCEPT ![b].out = out]
        BY <2>6 DEF BatchEnds
      <4> QED
        BY <4>1 DEF TypeInv, TypeOK, WorldType, Batch
    <3>2. Bought' = Bought
      BY <3>1 DEF Bought
    <3> QED
      BY <2>6, <3>1, <3>2 DEF BatchEnds, Ledger!vars, Bought, durable, waves
  <2>7. ASSUME UnseenAction \/ UNCHANGED vars PROVE UNCHANGED Ledger!vars
    BY <2>7, UnseenActions, UnseenStep DEF vars, Seen, durable, waves, world
  <2> QED
    BY <2>1, <2>2, <2>3, <2>4, <2>5, <2>6, <2>7
    DEF Next, Run, Resume, Dispatch, RemoteWave, ProcessWave, Provider, UnseenAction
<1> QED
  BY <1>1, <1>2, TypeInvariant, LoopInvariant, PTL DEF Spec, Ledger!Spec

-----------------------------------------------------------------------------
(* Single nodes, for every plan and any number of crashes, if find_batch   *)
(* sees every batch: a settled node stays as it is, a node is in one live  *)
(* batch at most, and what it depends on has succeeded before it is in any.*)

\* The process serves a node from the memo.
Serving == pc \in ItemPcs /\ ref = 0

\* The nodes an iteration has still to take further.
Waiting == todo \cup remote \cup IF pc \in {"memo", "harvest"} \/ Serving THEN queue \cup miss
                                                                           ELSE {}

\* Which step holds which nodes: every node of the frontier is in one place.
PlaceInv ==
  /\ pc \notin {"dispatch", "fanout", "local"} => todo = {}
  /\ iter = 0 \/ pc = "loop" => remote = {}
  /\ iter # 0 \/ pc = "loop" => recon = {}
  /\ recon \cap DOMAIN submitted = {}
  /\ todo \cap remote = {}
  /\ pc \in {"fanout", "local"} => node \notin todo \cup remote
  /\ pc = "memo" \/ Serving => (queue \cup miss) \cap remote = {} /\ queue \cap miss = {}
  /\ Serving => node \notin queue \cup miss \cup remote
  /\ pc \in {"harvest", "record"} \/ OnWave => wave.items \cap remote = {}
  /\ pc = "harvest" => queue \subseteq wave.items /\ miss = {}
  /\ OnWave => wave \notin completed

\* The status of the nodes a step holds.
StatusInv ==
  /\ \A n \in Waiting : status[n] \in Runnable
  /\ pc = "harvest" => \A n \in wave.items \ queue : status[n] = "HARVESTED"
  /\ pc = "record" => \A n \in wave.items : status[n] = "HARVESTED"
  /\ pc = "unharvest" => \A n \in queue : status[n] = "HARVESTED"
  /\ pc = "fanout" => status[node] \in Runnable
  /\ pc = "local" => status[node] = "EXECUTING_LOCAL"
  /\ Serving => pc # "expired"
  /\ Serving /\ pc \in {"item", "link"} => status[node] = "HARVESTED"
  /\ Serving /\ pc \in {"validate", "apply", "ledger"} => status[node] = "RETURNED"
  /\ Serving /\ pc = "done" => status[node] \in {"RETURNED", "APPLIED"}

\* A batch that is not on record is the last that was bought, and its nodes
\* are still harvested, or given back for a wave that was formed before it.
UnrecordedInv ==
  \A b \in 1..Len(batches) : batches[b].key \notin DOMAIN submitted =>
    /\ InFlight = {}
    /\ \A a \in 1..Len(batches) : batches[a].key \notin DOMAIN submitted => a = b
    /\ \A n \in batches[b].key.items : status[n] \in {"HARVESTED", "RE_ENQUEUED"}

NodeInv == PlaceInv /\ StatusInv /\ UnrecordedInv

\* A node that expired is one the provider failed.
ExpiredInv == pc = "expired" => Refused

Known == TypeInv /\ LoopInv

-----------------------------------------------------------------------------
LEMMA NodeInit == Init => NodeInv
  BY DEF Init, NodeInv, PlaceInv, StatusInv, UnrecordedInv, Waiting, Serving, OnWave, ItemPcs,
         NoWave, EmptyMap

\* The names of the statuses are apart.
LEMMA Apart ==
  /\ Runnable \cap Settled = {}
  /\ {"HARVESTED", "RETURNED", "EXPIRED", "SUBMITTED", "EXECUTING_LOCAL", "ABSENT"}
       \cap (Runnable \cup Settled) = {}
  BY DEF Runnable, Settled, Success

\* What SetStatus sets, and what it leaves.
LEMMA SetStatusValue ==
  ASSUME NEW S, NEW s
  PROVE  \A n \in Node : SetStatus(S, s)[n] = IF n \in S THEN s ELSE status[n]
  BY DEF SetStatus

LEMMA NodeStep ==
  ASSUME FindExact, Known, NodeInv, [Next]_vars
  PROVE  NodeInv'
<1> USE DEF durable, waves, tables, world, memory, frontier, group, hand, process, bounds
<1>0. /\ HandInv /\ PhaseInv /\ BarrierInv /\ LogInv /\ PaidInv /\ AnswerInv
      /\ TypeOK
  BY DEF Known, TypeInv, LoopInv
<1>p. /\ batches \in Seq(Batch)
      /\ formed \cup DOMAIN submitted \cup recon \cup {wave} \subseteq WaveId
      /\ status \in [Node -> Status]
  BY <1>0 DEF TypeOK, DurableType, ProcessType, WorldType
<1>t. /\ todo \subseteq Node /\ remote \subseteq Node /\ queue \subseteq Node /\ miss \subseteq Node
      /\ wave.items \subseteq Node /\ status \in [Node -> Status]
      /\ \A w \in formed \cup DOMAIN submitted \cup recon : w.items \subseteq Node
      /\ \A b \in 1..Len(batches) : batches[b].key.items \subseteq Node
      /\ pc \in NodePcs => node \in Node
  <2>1. \A b \in 1..Len(batches) : batches[b] \in Batch
    BY <1>p
  <2>2. \A b \in 1..Len(batches) : batches[b].key \in WaveId
    BY <2>1 DEF Batch
  <2>3. \A w \in WaveId : w.items \subseteq Node
    BY DEF WaveId
  <2>4. todo \subseteq Node /\ remote \subseteq Node /\ queue \subseteq Node /\ miss \subseteq Node
    BY <1>0 DEF TypeOK, ProcessType
  <2>5. pc \in NodePcs => node \in Node
    BY <1>0 DEF HandInv
  <2> QED
    BY <1>p, <2>2, <2>3, <2>4, <2>5
\* While an item is processed, or a dispatched node runs, every batch is on record.
<1>u. pc \in ItemPcs => \A b \in 1..Len(batches) : batches[b].key \in DOMAIN submitted
  BY <1>0 DEF NodeInv, PlaceInv, UnrecordedInv, PaidInv, PhaseInv, OnWave, InFlight,
              Resuming, ItemPcs
<1>s. \A S, s : \A n \in Node : SetStatus(S, s)[n] = IF n \in S THEN s ELSE status[n]
  BY SetStatusValue
<1> USE DEF NodeInv, PlaceInv, StatusInv, UnrecordedInv, Waiting, Serving
<1> USE DEF OnWave, Resuming, InFlight, HandInv, PhaseInv, BarrierInv, PaidInv
<1> USE DEF ItemPcs, NodePcs, WavePcs, Runnable
\* A step of an item only moves the node at hand.
<1>i. ASSUME pc \in ItemPcs,
             pc' \in ItemPcs \cup {IF ref # 0 THEN "fetch" ELSE "memo"},
             UNCHANGED <<submitted, completed, recon, todo, remote, queue, miss, iter, wave, ref>>,
             UNCHANGED batches,
             pc' \in ItemPcs => node' = node,
             \A n \in Node : n # node => status'[n] = status[n],
             ref = 0 => /\ pc' # "expired"
                        /\ pc' \in {"item", "link"} => status'[node] = "HARVESTED"
                        /\ pc' \in {"validate", "apply", "ledger"} => status'[node] = "RETURNED"
                        /\ pc' = "done" => status'[node] \in {"RETURNED", "APPLIED"}
      PROVE  NodeInv'
  <2>1. PlaceInv'
    BY <1>0, <1>i
  <2>2. \A n \in Waiting' : n \in Node /\ n \in Waiting
    BY <1>0, <1>t, <1>i
  <2>3. node \notin Waiting'
    BY <1>0, <1>t, <1>i DEF AnswerInv
  <2>4. StatusInv'
    BY <1>0, <1>t, <1>i, <2>2, <2>3
  <2>5. UnrecordedInv'
    BY <1>i, <1>u
  <2> QED
    BY <2>1, <2>4, <2>5
<1>6. CASE UNCHANGED vars
  BY <1>0, <1>6 DEF vars
<1>7. CASE Crash
  BY <1>0, <1>7 DEF Crash, Exit, NoWave
<1>8. CASE Start
  BY <1>0, <1>8 DEF Start, Resumes, LogInv
<1>9. ASSUME NEW w \in DOMAIN submitted, ResumeInFlight(w) PROVE NodeInv'
  BY <1>0, <1>9 DEF ResumeInFlight
<1>10. ASSUME NEW w \in recon, NoBatchFound(w) PROVE NodeInv'
  BY <1>0, <1>10 DEF NoBatchFound, GiveUpWave
<1>11. CASE Unharvest
  <2>1. CASE queue = {}
    BY <1>0, <1>11, <2>1 DEF Unharvest
  <2>2. ASSUME NEW n \in queue, status' = SetStatus({n}, "RE_ENQUEUED"), queue' = queue \ {n},
               pc' = pc, wave' = wave, Unharvest
        PROVE  NodeInv'
    <3>1. /\ pc = "unharvest" /\ n \in Node /\ todo = {}
          /\ UNCHANGED <<batches, submitted, completed, recon, todo, remote, miss, iter, ref, node>>
      BY <1>0, <1>t, <2>2 DEF Unharvest
    <3>2. \A m \in Node : status'[m] = IF m = n THEN "RE_ENQUEUED" ELSE status[m]
      BY <1>s, <2>2
    <3>3. PlaceInv'
      BY <1>0, <2>2, <3>1
    <3>4. StatusInv'
      BY <1>0, <1>t, <2>2, <3>1, <3>2
    <3>5. UnrecordedInv'
      BY <1>0, <1>t, <2>2, <3>1, <3>2
    <3> QED
      BY <3>3, <3>4, <3>5
  <2> QED
    BY <1>11, <2>1, <2>2 DEF Unharvest
<1>12. CASE Resumed
  BY <1>0, <1>12 DEF Resumed, EnterLoop
<1>13. ASSUME NEW n \in todo, MarkReady(n) PROVE NodeInv'
  BY <1>0, <1>t, <1>s, <1>13 DEF MarkReady
<1>14. ASSUME NEW n \in todo, AutoApproveGate(n) PROVE NodeInv'
  BY <1>0, <1>t, <1>s, <1>14 DEF AutoApproveGate, Dispatching
<1>15. ASSUME NEW n \in todo, ResolveTemplate(n) PROVE NodeInv'
  BY <1>0, <1>t, <1>s, <1>15 DEF ResolveTemplate, Dispatching
<1>16. CASE TemplateDone
  BY <1>0, <1>t, <1>s, <1>16 DEF TemplateDone
<1>17. ASSUME NEW n \in todo, NoBindings(n) PROVE NodeInv'
  BY <1>0, <1>t, <1>s, <1>17 DEF NoBindings, Dispatching
<1>18. ASSUME NEW n \in todo, StartLocal(n) PROVE NodeInv'
  BY <1>0, <1>t, <1>s, <1>18 DEF StartLocal, Dispatching
<1>19. CASE FinishLocal
  BY <1>0, <1>t, <1>s, <1>19 DEF FinishLocal
<1>20. ASSUME NEW n \in todo, CollectRemote(n) PROVE NodeInv'
  BY <1>0, <1>20 DEF CollectRemote, Dispatching
<1>21. CASE EndDispatch
  BY <1>0, <1>21 DEF EndDispatch
<1>22. CASE NextGroup
  BY <1>0, <1>22 DEF NextGroup
<1>23. CASE EndGroups
  BY <1>0, <1>23 DEF EndGroups
<1>24. ASSUME NEW n \in queue, ServeFromMemo(n) PROVE NodeInv'
  BY <1>0, <1>t, <1>s, <1>24 DEF ServeFromMemo
<1>25. ASSUME NEW n \in queue, MissMemo(n) PROVE NodeInv'
  BY <1>0, <1>25 DEF MissMemo
<1>26. CASE AllCached
  BY <1>0, <1>26 DEF AllCached
<1>3. CASE FormWave
  BY <1>0, <1>3 DEF FormWave, SealWave
<1>27. ASSUME NEW n \in queue, Harvest(n) PROVE NodeInv'
  BY <1>0, <1>t, <1>s, <1>27 DEF Harvest
<1>1. ASSUME NEW w \in recon, NEW b \in 1..Len(batches), AdoptBatch(w, b) PROVE NodeInv'
  <2>1. /\ pc = "resume" /\ pc' = "poll" /\ wave' = w /\ ref' = b /\ recon' = recon \ {w}
        /\ submitted' = Put(submitted, w, b) /\ InFlight = {} /\ batches[b].key = w
        /\ status' = SetStatus(w.items, "SUBMITTED")
        /\ UNCHANGED <<batches, completed, todo, remote, queue, miss, iter, node>>
    BY <1>1 DEF AdoptBatch
  <2>2. DOMAIN submitted' = DOMAIN submitted \cup {w} /\ w \notin DOMAIN submitted
    BY <1>0, <2>1 DEF Put
  <2>3. w \notin completed
    BY <1>0, <2>2 DEF LogInv
  <2>4. \A a \in 1..Len(batches) : batches[a].key \in DOMAIN submitted'
    BY <2>1, <2>2
  <2>5. PlaceInv'
    BY <1>0, <2>1, <2>2, <2>3
  <2>6. StatusInv'
    BY <1>0, <2>1, <2>2
  <2>7. UnrecordedInv'
    BY <2>1, <2>4
  <2> QED
    BY <2>5, <2>6, <2>7
<1>2. CASE NextIteration
  BY <1>0, <1>t, <1>2 DEF NextIteration, TakeFrontier, Frontier
<1>4. CASE Submit
  <2>1. /\ pc = "harvest" /\ pc' = "record" /\ queue = {}
        /\ UNCHANGED <<status, submitted, completed, recon, todo, remote, queue, miss, iter, wave>>
    BY <1>4 DEF Submit
  <2>2. /\ \A b \in 1..Len(batches) : batches[b].key \in DOMAIN submitted
        /\ InFlight = {}
    BY <1>0, <2>1
  <2>3. PICK new : \/ UNCHANGED batches
                   \/ batches' = Append(batches, new) /\ new.key = wave
    BY <1>4 DEF Submit
  <2>4. \/ UNCHANGED batches
        \/ /\ Len(batches') = Len(batches) + 1
           /\ \A i \in 1..Len(batches) : batches'[i] = batches[i]
           /\ batches'[Len(batches) + 1].key = wave
           /\ Len(batches) \in Nat
    BY <1>p, <2>3
  <2>5. PlaceInv' /\ StatusInv'
    BY <1>0, <1>t, <2>1
  <2>6. UnrecordedInv'
    BY <1>0, <2>1, <2>2, <2>4
  <2> QED
    BY <2>5, <2>6
<1>5. CASE RecordSubmit
  <2>1. /\ pc = "record" /\ pc' = "poll" /\ submitted' = Put(submitted, wave, ref)
        /\ status' = SetStatus(wave.items, "SUBMITTED") /\ batches[ref].key = wave
        /\ UNCHANGED <<batches, completed, recon, todo, remote, queue, miss, iter, wave, ref, node>>
    BY <1>0, <1>5 DEF RecordSubmit
  <2>2. DOMAIN submitted' = DOMAIN submitted \cup {wave}
    BY <2>1 DEF Put
  <2>3. wave \notin DOMAIN submitted
    <3>1. submits[wave.items] \in Nat
      BY <1>0, <1>p, <1>t, <2>1 DEF TypeOK, DurableType
    <3> QED
      BY <1>0, <2>1, <3>1 DEF LogInv
  <2>4. wave \notin completed
    BY <1>0, <2>3 DEF LogInv
  <2>5. \A a \in 1..Len(batches) : batches[a].key \in DOMAIN submitted'
    BY <1>0, <2>1, <2>2
  <2>6. PlaceInv' /\ StatusInv'
    BY <1>0, <1>t, <1>s, <2>1, <2>2, <2>4
  <2>7. UnrecordedInv'
    BY <2>1, <2>5
  <2> QED
    BY <2>6, <2>7
<1>28. ASSUME NEW b \in 1..Len(batches), BatchEnds(b) PROVE NodeInv'
  <2>1. Len(batches') = Len(batches) /\ \A a \in 1..Len(batches) : batches'[a].key = batches[a].key
    BY <1>p, <1>28 DEF BatchEnds
  <2> QED
    BY <1>0, <1>28, <2>1 DEF BatchEnds
<1>29. CASE FetchResults
  BY <1>0, <1>29 DEF FetchResults
<1>30. ASSUME NEW n \in queue, TakeItem(n) PROVE NodeInv'
  BY <1>0, <1>30 DEF TakeItem
<1>31. CASE PutMemo
  BY <1>0, <1>31 DEF PutMemo
<1>32. CASE ItemReturned
  BY <1>0, <1>t, <1>i, <1>s, <1>32 DEF ItemReturned, LinkItem
<1>33. CASE ItemExpired
  <2>1. /\ pc = "link" /\ pc' = "expired" /\ ref # 0 /\ status' = SetStatus({node}, "EXPIRED")
        /\ UNCHANGED <<submitted, completed, recon, todo, remote, queue, miss, iter, wave, ref,
                       node, batches>>
    BY <1>33 DEF ItemExpired, Refused
  <2>2. \A n \in Node : n # node => status'[n] = status[n]
    BY <2>1 DEF SetStatus
  <2> QED
    BY <1>i, <2>1, <2>2
<1>34. CASE ForeignKeyError
  BY <1>0, <1>34 DEF ForeignKeyError, Exit, NoWave
<1>35. CASE ReEnqueue
  BY <1>0, <1>t, <1>s, <1>35 DEF ReEnqueue, ItemDone
<1>36. CASE Validate
  BY <1>0, <1>i, <1>s, <1>36 DEF Validate, ItemDone
<1>37. CASE ApplyDiff
  BY <1>0, <1>i, <1>s, <1>37 DEF ApplyDiff, ItemDone
<1>38. CASE RecordApplied
  BY <1>0, <1>t, <1>i, <1>s, <1>38 DEF RecordApplied, RecordAs
<1>39. CASE NodeDone
  BY <1>0, <1>t, <1>i, <1>s, <1>39 DEF NodeDone, ItemDone
<1>40. CASE CompleteWave
  BY <1>0, <1>40 DEF CompleteWave, CloseWave, NoWave
<1>41. CASE Finalize
  BY <1>0, <1>41 DEF Finalize, Exit, NoWave
<1> HIDE DEF NodeInv
<1> QED
  BY <1>1, <1>2, <1>3, <1>4, <1>5, <1>6, <1>7, <1>8, <1>9, <1>10, <1>11,
     <1>12, <1>13, <1>14, <1>15, <1>16, <1>17, <1>18, <1>19, <1>20, <1>21,
     <1>22, <1>23, <1>24, <1>25, <1>26, <1>27, <1>28, <1>29, <1>30, <1>31,
     <1>32, <1>33, <1>34, <1>35, <1>36, <1>37, <1>38, <1>39, <1>40, <1>41
  DEF Next, Run, Resume, Dispatch, RemoteWave, ProcessWave, Provider

LEMMA ExpiredStep ==
  ASSUME Known, ExpiredInv, [Next]_vars
  PROVE  ExpiredInv'
<1> USE DEF durable, waves, tables, world, memory, frontier, group, hand, process, bounds
<1> SUFFICES ASSUME pc' = "expired" PROVE Refused'
  BY DEF ExpiredInv
<1>0. HandInv /\ AnswerInv /\ batches \in Seq(Batch)
  BY DEF Known, TypeInv, TypeOK, WorldType
<1>1. CASE ItemExpired
  BY <1>1 DEF ItemExpired, Refused
<1>2. ASSUME NEW b \in 1..Len(batches), BatchEnds(b) PROVE Refused'
  <2>1. pc = "expired" /\ Refused /\ UNCHANGED <<ref, node>> /\ ~Terminal(batches[b])
    BY <1>2 DEF BatchEnds, ExpiredInv
  <2>2. b # ref
    BY <1>0, <2>1 DEF AnswerInv, Refused, ItemPcs
  <2>3. batches'[ref] = batches[ref]
    BY <1>0, <1>2, <2>2 DEF BatchEnds, Known, TypeInv, TypeOK, ProcessType
  <2> QED
    BY <2>1, <2>3 DEF Refused
<1>3. CASE UNCHANGED vars
  BY <1>3 DEF vars, ExpiredInv, Refused
<1> QED
  BY <1>1, <1>2, <1>3
  DEF Next, Run, Resume, Dispatch, RemoteWave, ProcessWave, Provider,
      Crash, Exit, Start, Resumes, ResumeInFlight, AdoptBatch, NoBatchFound, GiveUpWave, Unharvest,
      Resumed, EnterLoop, NextIteration, TakeFrontier, MarkReady, AutoApproveGate, ResolveTemplate,
      NoBindings, StartLocal, CollectRemote, Dispatching, TemplateDone, FinishLocal, EndDispatch,
      NextGroup, EndGroups, ServeFromMemo, MissMemo, AllCached, FormWave, SealWave, Harvest, Submit,
      RecordSubmit, FetchResults, TakeItem, PutMemo, ItemReturned, LinkItem, ForeignKeyError,
      ReEnqueue, ItemDone, Validate, ApplyDiff, RecordApplied, RecordAs, NodeDone, CompleteWave,
      CloseWave, Finalize

\* The node invariant, for a find_batch that sees every batch.
LEMMA NodeInvariant == FindExact => (Spec => [](Known /\ NodeInv /\ ExpiredInv))
<1> SUFFICES ASSUME FindExact PROVE Spec => [](Known /\ NodeInv /\ ExpiredInv)
  OBVIOUS
<1>1. Init => NodeInv /\ ExpiredInv
  BY NodeInit DEF Init, ExpiredInv
<1>2. FindExact /\ Known /\ NodeInv /\ ExpiredInv /\ [Next]_vars => NodeInv' /\ ExpiredInv'
  BY NodeStep, ExpiredStep
<1>3. Known <=> TypeInv /\ LoopInv
  BY DEF Known
<1> QED
  BY <1>1, <1>2, <1>3, TypeInvariant, LoopInvariant, PTL DEF Spec

-----------------------------------------------------------------------------
(* How a step moves a node.                                                *)

\* A node no frontier picks up again unless its own wave is reprocessed.
Taken == Settled \cup {"SUBMITTED", "RETURNED"}

\* The item at hand belongs to the wave in flight.
InHand(n) == pc \in ItemPcs /\ ref # 0 /\ n = node

\* A step that moves a node from s to t without processing an item of its wave:
\* a settled node only goes from APPLIED to DONE, and a taken one stays taken.
Moves(s, t) ==
  /\ s \in Settled => {s, t} \subseteq {"APPLIED", "DONE"}
  /\ s \in Taken => t \in Taken

LEMMA NodeMoves ==
  ASSUME FindExact, Known, NodeInv, ExpiredInv, [Next]_vars, NEW n \in Node, status'[n] # status[n]
  PROVE  \/ Moves(status[n], status'[n])
         \/ InHand(n) /\ (status'[n] \in Taken \/ Refused)
<1> USE DEF durable, waves, tables, world, memory, frontier, group, hand, process, bounds
<1> DEFINE Goal == \/ Moves(status[n], status'[n])
                   \/ InHand(n) /\ (status'[n] \in Taken \/ Refused)
<1>0. /\ HandInv /\ AnswerInv /\ TypeOK
      /\ PlaceInv /\ StatusInv /\ UnrecordedInv /\ PhaseInv
  BY DEF Known, TypeInv, LoopInv, NodeInv
<1>t. /\ todo \subseteq Node /\ queue \subseteq Node
      /\ pc \in NodePcs => node \in Node
  BY <1>0 DEF TypeOK, ProcessType, HandInv
<1> USE DEF Moves, Taken, Settled, Success, Runnable, Waiting, Serving, InHand, SetStatus
<1> USE DEF HandInv, StatusInv, ItemPcs, NodePcs
<1>1. ASSUME NEW w \in recon, NEW b \in 1..Len(batches), AdoptBatch(w, b) PROVE Goal
  <2>1. /\ status'[n] = IF n \in w.items THEN "SUBMITTED" ELSE status[n]
        /\ batches[b].key = w /\ w \notin DOMAIN submitted
    BY <1>0, <1>1 DEF AdoptBatch, PlaceInv
  <2>2. n \in w.items => status[n] \in {"HARVESTED", "RE_ENQUEUED"}
    BY <1>0, <2>1 DEF UnrecordedInv
  <2> QED
    BY <2>1, <2>2
<1>2. CASE Unharvest
  BY <1>0, <1>t, <1>2 DEF Unharvest
<1>3. ASSUME NEW m \in todo, MarkReady(m) PROVE Goal
  BY <1>0, <1>t, <1>3 DEF MarkReady
<1>4. ASSUME NEW m \in todo, AutoApproveGate(m) PROVE Goal
  BY <1>0, <1>t, <1>4 DEF AutoApproveGate, Dispatching
<1>5. ASSUME NEW m \in todo, ResolveTemplate(m) PROVE Goal
  BY <1>0, <1>t, <1>5 DEF ResolveTemplate, Dispatching
<1>6. CASE TemplateDone
  BY <1>0, <1>t, <1>6 DEF TemplateDone
<1>7. ASSUME NEW m \in todo, NoBindings(m) PROVE Goal
  BY <1>0, <1>t, <1>7 DEF NoBindings, Dispatching
<1>8. ASSUME NEW m \in todo, StartLocal(m) PROVE Goal
  BY <1>0, <1>t, <1>8 DEF StartLocal, Dispatching
<1>9. CASE FinishLocal
  BY <1>0, <1>t, <1>9 DEF FinishLocal
<1>10. ASSUME NEW m \in queue, ServeFromMemo(m) PROVE Goal
  BY <1>0, <1>t, <1>10 DEF ServeFromMemo
<1>11. ASSUME NEW m \in queue, Harvest(m) PROVE Goal
  BY <1>0, <1>t, <1>11 DEF Harvest
<1>12. CASE RecordSubmit
  BY <1>0, <1>t, <1>12 DEF RecordSubmit
<1>13. CASE ItemReturned
  BY <1>0, <1>t, <1>13 DEF ItemReturned, LinkItem
<1>14. CASE ItemExpired
  BY <1>0, <1>t, <1>14 DEF ItemExpired, Refused
<1>15. CASE ReEnqueue
  BY <1>0, <1>t, <1>15 DEF ReEnqueue, ExpiredInv, Refused
<1>16. CASE Validate
  BY <1>0, <1>t, <1>16 DEF Validate
<1>17. CASE ApplyDiff
  BY <1>0, <1>t, <1>17 DEF ApplyDiff
<1>18. CASE RecordApplied
  BY <1>0, <1>t, <1>18 DEF RecordApplied, RecordAs
<1>19. CASE NodeDone
  BY <1>0, <1>t, <1>19 DEF NodeDone
<1>20. CASE UNCHANGED status
  BY <1>20
<1> HIDE DEF Goal
<1> QED
  BY <1>1, <1>2, <1>3, <1>4, <1>5, <1>6, <1>7, <1>8, <1>9, <1>10, <1>11,
     <1>12, <1>13, <1>14, <1>15, <1>16, <1>17, <1>18, <1>19, <1>20
  DEF Next, Run, Resume, Dispatch, RemoteWave, ProcessWave, Provider, Goal,
      Crash, Exit, Start, Resumes, ResumeInFlight, NoBatchFound, GiveUpWave, Resumed, EnterLoop,
      NextIteration, TakeFrontier, CollectRemote, EndDispatch, NextGroup, EndGroups, MissMemo,
      AllCached, FormWave, SealWave, Submit, FetchResults, TakeItem, PutMemo, ForeignKeyError,
      CompleteWave, CloseWave, Finalize, BatchEnds, vars

\* A node in hand is of the wave in flight.
LEMMA InHandInFlight ==
  ASSUME FindExact, Known, NodeInv, NEW n, InHand(n)
  PROVE  n \in wave.items /\ wave \in InFlight /\ batches[ref].key = wave /\ ref \in 1..Len(batches)
<1>1. /\ HandInv /\ AnswerInv /\ PlaceInv /\ PhaseInv
      /\ ref \in 0..Len(batches) /\ Len(batches) \in Nat
  BY DEF Known, TypeInv, LoopInv, NodeInv, TypeOK, WorldType, ProcessType
<1> QED
  BY <1>1 DEF InHand, HandInv, AnswerInv, PlaceInv, PhaseInv, OnWave, InFlight, ItemPcs

\* orchestrator.py:376, 694: a node that succeeded, or was given to a
\* human, keeps that status for good unless a resume reprocesses its own wave.
THEOREM SettledStaysFinal == FindExact => (Spec => SettledIsFinal)
<1> SUFFICES ASSUME FindExact PROVE Spec => SettledIsFinal
  OBVIOUS
<1> DEFINE Final == \A n \in Node :
       status[n] \in Settled /\ (\A w \in InFlight : n \notin w.items)
         => status'[n] = status[n] \/ {status[n], status'[n]} = {"APPLIED", "DONE"}
<1>1. FindExact /\ Known /\ NodeInv /\ ExpiredInv /\ [Next]_vars => Final
  BY NodeMoves, InHandInFlight DEF Moves
<1>2. Final => [Final]_vars
  OBVIOUS
<1>3. [][Final]_vars <=> SettledIsFinal
  BY DEF SettledIsFinal
<1> QED
  BY <1>1, <1>2, <1>3, NodeInvariant, PTL DEF Spec

-----------------------------------------------------------------------------
(* What is paid for once.                                                  *)

\* The answer the provider holds for a node, or may still give, is the node's.
AliveInv ==
  \A b \in 1..Len(batches) : batches[b].key \in DOMAIN submitted =>
    \A n \in batches[b].key.items : batches[b].out[n] \in Alive => status[n] \in Taken

\* The wave in flight is the only one with an answer for its nodes.
InFlightInv ==
  \A w \in InFlight : \A b \in 1..Len(batches) : batches[b].key # w =>
    \A n \in batches[b].key.items \cap w.items : batches[b].out[n] \notin Alive

\* A batch ends as a whole.
EndsInv ==
  \A b \in 1..Len(batches) : ~Terminal(batches[b]) =>
    \A n \in batches[b].key.items : batches[b].out[n] = "pending"

OnceInv == AliveInv /\ InFlightInv /\ EndsInv /\ PaidOnce

\* A formed wave that has not been recorded is a new one.
LEMMA FormedIsNew ==
  ASSUME Known, pc \in {"harvest", "record"}
  PROVE  wave \notin DOMAIN submitted
<1>1. submits \in [SUBSET Node -> Nat] /\ wave \in WaveId /\ LogInv /\ PhaseInv
  BY DEF Known, TypeInv, LoopInv, TypeOK, DurableType, ProcessType
<1>2. submits[wave.items] \in Nat
  BY <1>1 DEF WaveId
<1> QED
  BY <1>1, <1>2 DEF LogInv, PhaseInv

\* WAVE_SUBMITTED, also of an adopted batch, for nodes no live answer is for.
LEMMA RecordedOnce ==
  ASSUME OnceInv, NEW w, InFlight = {},
         \A b \in 1..Len(batches) : batches[b].key \in DOMAIN submitted \cup {w},
         \A n \in w.items : status[n] \notin Taken,
         \A b \in 1..Len(batches) : \A n \in batches[b].key.items : n \in Node,
         DOMAIN submitted' = DOMAIN submitted \cup {w},
         status' = SetStatus(w.items, "SUBMITTED"),
         UNCHANGED <<batches, completed>>
  PROVE  OnceInv'
<1>1. \A n \in Node : status'[n] = IF n \in w.items THEN "SUBMITTED" ELSE status[n]
  BY DEF SetStatus
<1>2. AliveInv'
  BY <1>1 DEF OnceInv, AliveInv, Taken
<1>3. \A b \in 1..Len(batches) : batches[b].key # w =>
        \A n \in batches[b].key.items \cap w.items : batches[b].out[n] \notin Alive
  BY DEF OnceInv, AliveInv
<1>4. InFlight' \subseteq {w}
  BY DEF InFlight
<1>5. InFlightInv'
  BY <1>3, <1>4 DEF InFlightInv
<1> QED
  BY <1>2, <1>5 DEF OnceInv, EndsInv, Terminal, PaidOnce

LEMMA OnceStep ==
  ASSUME FindExact, Known, NodeInv, ExpiredInv, OnceInv, [Next]_vars
  PROVE  OnceInv'
<1> USE DEF durable, waves, tables, world, memory, frontier, group, hand, process, bounds
<1>0. /\ HandInv /\ PhaseInv /\ BarrierInv /\ LogInv /\ PaidInv /\ AnswerInv /\ RefsMatch /\ TypeOK
      /\ PlaceInv /\ StatusInv /\ UnrecordedInv
  BY DEF Known, TypeInv, LoopInv, NodeInv
<1>p. /\ batches \in Seq(Batch) /\ Len(batches) \in Nat
      /\ \A b \in 1..Len(batches) : batches[b] \in Batch
  BY <1>0 DEF TypeOK, WorldType
<1>t. \A b \in 1..Len(batches) : \A n \in batches[b].key.items : n \in Node
  BY <1>p DEF Batch, WaveId
<1>n. ASSUME NEW n \in Node, status[n] \in Taken, status'[n] \notin Taken
      PROVE  InHand(n) /\ Refused
  BY <1>n, NodeMoves DEF Moves
<1>1. ASSUME NEW w \in recon, NEW b \in 1..Len(batches), AdoptBatch(w, b) PROVE OnceInv'
  <2>1. /\ InFlight = {} /\ batches[b].key = w
        /\ submitted' = Put(submitted, w, b) /\ status' = SetStatus(w.items, "SUBMITTED")
        /\ UNCHANGED <<batches, completed>>
    BY <1>1 DEF AdoptBatch
  <2>2. DOMAIN submitted' = DOMAIN submitted \cup {w}
    BY <2>1 DEF Put
  <2>3. w \notin DOMAIN submitted
    BY <1>0 DEF PlaceInv
  <2>4. \A a \in 1..Len(batches) : batches[a].key \in DOMAIN submitted \cup {w}
    BY <1>0, <2>1, <2>3 DEF UnrecordedInv
  <2>5. \A n \in w.items : status[n] \notin Taken
    BY <1>0, <2>1, <2>3 DEF UnrecordedInv, Taken, Settled, Success
  <2> QED
    BY <1>t, <2>1, <2>2, <2>4, <2>5, RecordedOnce
<1>2. CASE RecordSubmit
  <2>1. /\ pc = "record" /\ submitted' = Put(submitted, wave, ref)
        /\ status' = SetStatus(wave.items, "SUBMITTED")
        /\ UNCHANGED <<batches, completed>>
    BY <1>2 DEF RecordSubmit
  <2>2. DOMAIN submitted' = DOMAIN submitted \cup {wave}
    BY <2>1 DEF Put
  <2>3. \A a \in 1..Len(batches) : batches[a].key \in DOMAIN submitted \cup {wave}
    BY <1>0, <2>1 DEF PaidInv, Resuming, OnWave, ItemPcs
  <2>4. \A n \in wave.items : status[n] \notin Taken
    BY <1>0, <2>1 DEF StatusInv, Taken, Settled, Success
  <2>5. InFlight = {}
    BY <1>0, <2>1 DEF BarrierInv, OnWave, ItemPcs
  <2> QED
    BY <1>t, <2>1, <2>2, <2>3, <2>4, <2>5, RecordedOnce
<1>3. CASE Submit
  <2>1. /\ pc = "harvest" /\ queue = {} /\ UNCHANGED <<status, submitted, completed>>
    BY <1>3 DEF Submit
  <2>2. wave \notin DOMAIN submitted
    BY <2>1, FormedIsNew
  <2>3. InFlight = {} /\ InFlight' = {}
    BY <1>0, <2>1 DEF BarrierInv, OnWave, ItemPcs, InFlight
  <2>4. \A b \in 1..Len(batches) : \A n \in batches[b].key.items \cap wave.items :
          batches[b].out[n] \notin Alive
    <3>1. \A b \in 1..Len(batches) : batches[b].key \in DOMAIN submitted
      BY <1>0, <2>1 DEF PaidInv, Resuming, OnWave, ItemPcs
    <3>2. \A n \in wave.items : status[n] \notin Taken
      BY <1>0, <2>1 DEF StatusInv, Taken, Settled, Success
    <3> QED
      BY <3>1, <3>2 DEF OnceInv, AliveInv
  <2>5. CASE UNCHANGED batches
    BY <2>1, <2>3, <2>5 DEF OnceInv, AliveInv, InFlightInv, EndsInv, PaidOnce, Terminal
  <2>6. CASE batches' = Append(batches, [key |-> wave, out |-> [n \in Node |-> "pending"]])
    <3>1. /\ Len(batches') = Len(batches) + 1
          /\ \A b \in 1..Len(batches) : batches'[b] = batches[b]
          /\ batches'[Len(batches) + 1] = [key |-> wave, out |-> [n \in Node |-> "pending"]]
      BY <1>p, <2>6
    <3>2. /\ batches'[Len(batches) + 1].key = wave
          /\ \A n \in wave.items : n \in Node => batches'[Len(batches) + 1].out[n] = "pending"
      BY <3>1
    <3>3. wave.items \subseteq Node
      BY <1>0 DEF TypeOK, ProcessType, WaveId
    <3>4. \A b \in 1..Len(batches') : b \in 1..Len(batches) \/ b = Len(batches) + 1
      BY <1>p, <3>1
    <3>5. AliveInv'
      BY <2>1, <2>2, <3>1, <3>2, <3>4 DEF OnceInv, AliveInv
    <3>6. EndsInv'
      BY <3>1, <3>2, <3>3, <3>4 DEF OnceInv, EndsInv, Terminal
    <3>7. PaidOnce'
      BY <2>4, <3>1, <3>2, <3>4 DEF OnceInv, PaidOnce
    <3> QED
      BY <2>3, <3>5, <3>6, <3>7 DEF OnceInv, InFlightInv
  <2> QED
    BY <1>3, <2>5, <2>6 DEF Submit
<1>4. ASSUME NEW b \in 1..Len(batches), BatchEnds(b) PROVE OnceInv'
  <2>1. PICK out \in [batches[b].key.items -> Outcome \ {"pending"}] :
          batches' = [batches EXCEPT ![b].out =
                        [n \in Node |-> IF n \in DOMAIN out THEN out[n] ELSE @[n]]]
    BY <1>4 DEF BatchEnds
  <2>2. /\ ~Terminal(batches[b]) /\ UNCHANGED <<status, submitted, completed>>
    BY <1>4 DEF BatchEnds
  <2>3. /\ Len(batches') = Len(batches)
        /\ \A a \in 1..Len(batches) : a # b => batches'[a] = batches[a]
        /\ batches'[b].key = batches[b].key
        /\ \A n \in batches[b].key.items : batches'[b].out[n] = out[n]
    BY <1>p, <1>t, <2>1 DEF Batch
  <2>4. \A a \in 1..Len(batches) : batches'[a].key = batches[a].key
    BY <2>3
  <2>5. \A n \in batches[b].key.items : batches[b].out[n] = "pending"
    BY <2>2 DEF OnceInv, EndsInv
  <2>6. \A a \in 1..Len(batches) : \A n \in batches[a].key.items :
          batches'[a].out[n] \in Alive => batches[a].out[n] \in Alive
    BY <2>3, <2>5 DEF Alive
  <2>7. AliveInv' /\ PaidOnce'
    BY <2>2, <2>3, <2>4, <2>6 DEF OnceInv, AliveInv, PaidOnce
  <2>8. InFlightInv'
    BY <2>2, <2>3, <2>4, <2>6 DEF OnceInv, InFlightInv, InFlight
  <2>9. \A n \in batches[b].key.items : out[n] # "pending"
    BY <2>1
  <2>10. EndsInv'
    BY <2>3, <2>4, <2>9 DEF OnceInv, EndsInv, Terminal
  <2> QED
    BY <2>7, <2>8, <2>10 DEF OnceInv
<1>5. ASSUME UNCHANGED <<batches, submitted>>, completed \subseteq completed' PROVE OnceInv'
  <2>1. SUFFICES ASSUME NEW b \in 1..Len(batches), batches[b].key \in DOMAIN submitted,
                        NEW n \in batches[b].key.items, batches[b].out[n] \in Alive
                 PROVE  status'[n] \in Taken
    BY <1>5 DEF OnceInv, AliveInv, InFlightInv, InFlight, EndsInv, Terminal, PaidOnce
  <2>2. n \in Node /\ status[n] \in Taken
    BY <1>t, <2>1 DEF OnceInv, AliveInv
  <2>3. ASSUME InHand(n), Refused PROVE FALSE
    <3>1. /\ n \in wave.items /\ wave \in InFlight /\ batches[ref].key = wave
          /\ ref \in 1..Len(batches) /\ batches[ref].out[n] = "failed"
      BY <2>3, InHandInFlight DEF InHand, Refused
    <3>2. CASE batches[b].key = wave
      BY <1>0, <2>1, <3>1, <3>2 DEF PaidInv, NoDoubleSubmit, Alive
    <3>3. CASE batches[b].key # wave
      BY <2>1, <3>1, <3>3 DEF OnceInv, InFlightInv
    <3> QED
      BY <3>2, <3>3
  <2> QED
    BY <1>n, <2>2, <2>3
<1> QED
  BY <1>1, <1>2, <1>3, <1>4, <1>5
  DEF Next, Run, Resume, Dispatch, RemoteWave, ProcessWave, Provider, vars,
      Crash, Exit, Start, Resumes, ResumeInFlight, NoBatchFound, GiveUpWave, Unharvest,
      Resumed, EnterLoop, NextIteration, TakeFrontier, MarkReady, AutoApproveGate, ResolveTemplate,
      NoBindings, StartLocal, CollectRemote, TemplateDone, FinishLocal, EndDispatch,
      NextGroup, EndGroups, ServeFromMemo, MissMemo, AllCached, FormWave, SealWave, Harvest,
      FetchResults, TakeItem, PutMemo, ItemReturned, LinkItem, ItemExpired, ForeignKeyError,
      ReEnqueue, Validate, ApplyDiff, RecordApplied, RecordAs, NodeDone, CompleteWave,
      CloseWave, Finalize

\* The node invariant, and what it says about the provider.
LEMMA OnceInvariant == FindExact => (Spec => [](Known /\ NodeInv /\ ExpiredInv /\ OnceInv))
<1> SUFFICES ASSUME FindExact PROVE Spec => [](Known /\ NodeInv /\ ExpiredInv /\ OnceInv)
  OBVIOUS
<1>1. Init => OnceInv
  BY DEF Init, OnceInv, AliveInv, InFlightInv, InFlight, EndsInv, PaidOnce, EmptyMap
<1>2. FindExact /\ Known /\ NodeInv /\ ExpiredInv /\ OnceInv /\ [Next]_vars => OnceInv'
  BY OnceStep
<1> QED
  BY <1>1, <1>2, NodeInvariant, PTL DEF Spec

\* orchestrator.py:520, 689: if find_batch sees every batch, a node is paid for
\* again only after the provider failed its item, whatever crashes in between.
THEOREM NeverPaidTwice == FindExact => (Spec => []PaidOnce)
<1> SUFFICES ASSUME FindExact PROVE Spec => []PaidOnce
  OBVIOUS
<1>1. OnceInv => PaidOnce
  BY DEF OnceInv
<1> QED
  BY <1>1, OnceInvariant, PTL

-----------------------------------------------------------------------------
(* What a node waits for.                                                  *)

\* planner.py:155: a template's children have ids of their own, made from its id.
FanoutPlan ==
  \A t \in Node : /\ Children[t] \cap Initial = {}
                  /\ \A u \in Node : u # t => Children[t] \cap Children[u] = {}

\* A node that succeeded and that no resume will process again.
Safe(d) == status[d] \in Success /\ \A w \in InFlight : d \notin w.items

DepsSafe(n) ==
  /\ \A d \in Deps[n] : Safe(d)
  /\ \A t \in StarDeps[n] : \A c \in Children[t] : Safe(c)

InBatch(n) == \E b \in 1..Len(batches) : n \in batches[b].key.items

\* The nodes that are on their way to the provider, or have been there.
Held(n) ==
  \/ n \in Waiting
  \/ pc \in {"harvest", "record"} /\ n \in wave.items
  \/ InBatch(n)

\* A node is held only if all it waits for is safe.
ReadyInv == \A n \in Node : Held(n) => status[n] # "ABSENT" /\ DepsSafe(n)

\* A template's children appear together.
FanInv ==
  \A t \in Node : \A c, d \in Children[t] : status[c] = "ABSENT" => status[d] = "ABSENT"

\* What succeeded stays so.
LEMMA SafeStep ==
  ASSUME FindExact, Known, NodeInv, ExpiredInv, [Next]_vars, NEW d \in Node, Safe(d)
  PROVE  Safe(d)'
<1> USE DEF durable, waves, tables, world, memory, frontier, group, hand, process, bounds
<1>1. status'[d] \in Success
  BY NodeMoves, InHandInFlight DEF Moves, Safe, Settled, Success
<1>2. /\ StatusInv /\ UnrecordedInv /\ PlaceInv
  BY DEF NodeInv
<1>3. ASSUME NEW w \in recon, NEW b \in 1..Len(batches), AdoptBatch(w, b)
      PROVE  \A v \in InFlight' : d \notin v.items
  <2>1. /\ batches[b].key = w /\ submitted' = Put(submitted, w, b) /\ completed' = completed
    BY <1>3 DEF AdoptBatch
  <2>2. \A n \in w.items : status[n] \in {"HARVESTED", "RE_ENQUEUED"}
    BY <1>2, <2>1 DEF UnrecordedInv, PlaceInv
  <2>3. InFlight' \subseteq InFlight \cup {w}
    BY <2>1 DEF InFlight, Put
  <2> QED
    BY <2>2, <2>3 DEF Safe, Success
<1>4. ASSUME RecordSubmit PROVE \A v \in InFlight' : d \notin v.items
  <2>1. /\ pc = "record" /\ submitted' = Put(submitted, wave, ref) /\ completed' = completed
    BY <1>4 DEF RecordSubmit
  <2>2. \A n \in wave.items : status[n] = "HARVESTED"
    BY <1>2, <2>1 DEF StatusInv
  <2>3. InFlight' \subseteq InFlight \cup {wave}
    BY <2>1 DEF InFlight, Put
  <2> QED
    BY <2>2, <2>3 DEF Safe, Success
<1>5. ASSUME UNCHANGED submitted, completed \subseteq completed'
      PROVE  \A v \in InFlight' : d \notin v.items
  BY <1>5 DEF Safe, InFlight
<1>6. \A v \in InFlight' : d \notin v.items
  BY <1>3, <1>4, <1>5
  DEF Next, Run, Resume, Dispatch, RemoteWave, ProcessWave, Provider, vars, BatchEnds, Submit,
      Crash, Exit, Start, Resumes, ResumeInFlight, NoBatchFound, GiveUpWave, Unharvest,
      Resumed, EnterLoop, NextIteration, TakeFrontier, MarkReady, AutoApproveGate, ResolveTemplate,
      NoBindings, StartLocal, CollectRemote, TemplateDone, FinishLocal, EndDispatch,
      NextGroup, EndGroups, ServeFromMemo, MissMemo, AllCached, FormWave, SealWave, Harvest,
      FetchResults, TakeItem, PutMemo, ItemReturned, LinkItem, ItemExpired, ForeignKeyError,
      ReEnqueue, Validate, ApplyDiff, RecordApplied, RecordAs, NodeDone, CompleteWave,
      CloseWave, Finalize
<1> QED
  BY <1>1, <1>6 DEF Safe

\* Append leaves what is there.
LEMMA AppendedOne ==
  ASSUME NEW T, NEW s \in Seq(T), NEW e, NEW i \in 1..Len(Append(s, e))
  PROVE  \/ Append(s, e)[i] = e
         \/ i \in 1..Len(s) /\ Append(s, e)[i] = s[i]
<1>1. Len(s) \in Nat /\ Len(Append(s, e)) = Len(s) + 1 /\ Append(s, e)[Len(s) + 1] = e
  OBVIOUS
<1>2. \A k \in 1..Len(s) : Append(s, e)[k] = s[k]
  OBVIOUS
<1>3. i \in 1..Len(s) \/ i = Len(s) + 1
  BY <1>1
<1> QED
  BY <1>1, <1>2, <1>3

\* Only a frontier node comes to be held.
LEMMA HeldStep ==
  ASSUME Known, NodeInv, [Next]_vars, NEW n \in Node, Held(n)'
  PROVE  Held(n) \/ (pc = "loop" /\ n \in Frontier)
<1> USE DEF durable, waves, tables, world, memory, frontier, group, hand, process, bounds
<1>0. HandInv /\ batches \in Seq(Batch)
  BY DEF Known, TypeInv, TypeOK, WorldType
<1> USE DEF Held, InBatch, Waiting, Serving, ItemPcs
<1>1. CASE Submit
  <2>1. /\ pc = "harvest" /\ pc' = "record" /\ UNCHANGED <<todo, remote, queue, miss, wave>>
    BY <1>1 DEF Submit
  <2>2. PICK new : \/ batches' = batches
                   \/ batches' = Append(batches, new) /\ new.key = wave
    BY <1>1 DEF Submit
  <2>3. \A b \in 1..Len(batches') :
          batches'[b].key = wave \/ (b \in 1..Len(batches) /\ batches'[b] = batches[b])
    <3>1. ASSUME NEW b \in 1..Len(batches'), batches' = Append(batches, new), new.key = wave
          PROVE  batches'[b].key = wave \/ (b \in 1..Len(batches) /\ batches'[b] = batches[b])
      <4>1. \/ batches'[b] = new
            \/ b \in 1..Len(batches) /\ batches'[b] = batches[b]
        BY ONLY <1>0, <3>1, AppendedOne
      <4> QED
        BY <3>1, <4>1
    <3> QED
      BY <2>2, <3>1
  <2> QED
    BY <2>1, <2>3
<1>2. ASSUME NEW b \in 1..Len(batches), BatchEnds(b) PROVE Held(n)
  <2>1. Len(batches') = Len(batches) /\ \A a \in 1..Len(batches) : batches'[a].key = batches[a].key
    BY <1>0, <1>2 DEF BatchEnds
  <2> QED
    BY <1>2, <2>1 DEF BatchEnds
<1>3. CASE NextIteration
  BY <1>3 DEF NextIteration, TakeFrontier
<1>4. ASSUME NEW m \in todo, ResolveTemplate(m) PROVE Held(n)
  BY <1>4 DEF ResolveTemplate, Dispatching
<1>5. CASE NextGroup
  BY <1>5 DEF NextGroup
<1>6. CASE FormWave
  BY <1>6 DEF FormWave, SealWave
<1>7. ASSUME NEW m \in queue, TakeItem(m) PROVE Held(n)
  BY <1>0, <1>7 DEF TakeItem, HandInv, WavePcs
<1>8. CASE FetchResults
  BY <1>8 DEF FetchResults
<1>9. CASE CompleteWave
  BY <1>9 DEF CompleteWave, CloseWave
<1>10. ASSUME NEW m \in queue, Harvest(m) PROVE Held(n)
  BY <1>10 DEF Harvest
<1>11. ASSUME NEW w \in recon, NEW b \in 1..Len(batches), AdoptBatch(w, b) PROVE Held(n)
  BY <1>11 DEF AdoptBatch
<1>12. CASE Unharvest
  BY <1>12 DEF Unharvest
<1>13. CASE Crash \/ ForeignKeyError \/ Finalize
  BY <1>13 DEF Crash, ForeignKeyError, Finalize, Exit
<1>14. CASE RecordSubmit
  BY <1>14 DEF RecordSubmit
<1>15. ASSUME pc \in ItemPcs, pc' \in ItemPcs \cup {IF ref # 0 THEN "fetch" ELSE "memo"},
              UNCHANGED <<batches, todo, remote, queue, miss, wave, ref>>
       PROVE  Held(n)
  BY <1>15
<1>16. ASSUME NEW m \in queue, ServeFromMemo(m) PROVE Held(n)
  BY <1>16 DEF ServeFromMemo
<1>17. ASSUME NEW m \in queue, MissMemo(m) PROVE Held(n)
  BY <1>17 DEF MissMemo
<1>18. ASSUME NEW m \in todo, CollectRemote(m) PROVE Held(n)
  BY <1>18 DEF CollectRemote, Dispatching
<1>19. ASSUME pc' \notin {"memo", "harvest", "record"} \cup ItemPcs,
              UNCHANGED batches, todo' \subseteq todo, remote' = remote
       PROVE  Held(n)
  BY <1>19
<1>20. CASE UNCHANGED vars
  BY <1>20 DEF vars
<1> HIDE DEF Held, InBatch, Waiting, Serving
<1> QED
  BY <1>1, <1>2, <1>3, <1>4, <1>5, <1>6, <1>7, <1>8, <1>9, <1>10, <1>11, <1>12, <1>13, <1>14,
     <1>15, <1>16, <1>17, <1>18, <1>19, <1>20
  DEF Next, Run, Resume, Dispatch, RemoteWave, ProcessWave, Provider,
      Start, Resumes, ResumeInFlight, NoBatchFound, GiveUpWave,
      Resumed, EnterLoop, MarkReady, AutoApproveGate,
      NoBindings, StartLocal, Dispatching, TemplateDone, FinishLocal, EndDispatch,
      EndGroups, AllCached, PutMemo, ItemReturned, LinkItem, ItemExpired, ItemDone,
      ReEnqueue, Validate, ApplyDiff, RecordApplied, RecordAs, NodeDone

\* A node appears with all the children of its template, and never disappears.
LEMMA AbsentStep ==
  ASSUME Known, NodeInv, ReadyInv, [Next]_vars, NEW n \in Node, status'[n] # status[n]
  PROVE  /\ status'[n] # "ABSENT"
         /\ status[n] = "ABSENT" => \E t \in Node :
                                       /\ n \in Children[t]
                                       /\ \A c \in Children[t] : status'[c] # "ABSENT"
<1> USE PlanAssumption
<1> USE DEF durable, waves, tables, world, memory, frontier, group, hand, process, bounds
<1> DEFINE Goal == /\ status'[n] # "ABSENT"
                   /\ status[n] = "ABSENT" => \E t \in Node :
                                       /\ n \in Children[t]
                                       /\ \A c \in Children[t] : status'[c] # "ABSENT"
<1>0. /\ HandInv /\ AnswerInv /\ TypeOK
      /\ PlaceInv /\ StatusInv /\ UnrecordedInv /\ PhaseInv
  BY DEF Known, TypeInv, LoopInv, NodeInv
<1>t. /\ todo \subseteq Node /\ queue \subseteq Node
      /\ pc \in NodePcs => node \in Node
  BY <1>0 DEF TypeOK, ProcessType, HandInv
<1>i. pc \in ItemPcs => status[node] # "ABSENT"
  <2>1. CASE ref = 0
    BY <1>0, <2>1 DEF StatusInv, Serving, ItemPcs
  <2>2. ASSUME ref # 0, pc \in ItemPcs PROVE status[node] # "ABSENT"
    <3>1. node \in Node /\ node \in wave.items /\ batches[ref].key = wave /\ ref \in 1..Len(batches)
      <4>1. ref \in 0..Len(batches) /\ Len(batches) \in Nat
        BY <1>0 DEF TypeOK, ProcessType, WorldType
      <4> QED
        BY <1>0, <2>2, <4>1 DEF HandInv, AnswerInv, NodePcs
    <3> QED
      BY <3>1 DEF ReadyInv, Held, InBatch
  <2> QED
    BY <2>1, <2>2
<1> USE DEF Runnable, Waiting, Serving, SetStatus
<1> USE DEF HandInv, StatusInv, ItemPcs, NodePcs
<1>1. ASSUME NEW w \in recon, NEW b \in 1..Len(batches), AdoptBatch(w, b) PROVE Goal
  <2>1. /\ status'[n] = IF n \in w.items THEN "SUBMITTED" ELSE status[n]
        /\ batches[b].key = w /\ w \notin DOMAIN submitted
    BY <1>0, <1>1 DEF AdoptBatch, PlaceInv
  <2>2. n \in w.items => status[n] \in {"HARVESTED", "RE_ENQUEUED"}
    BY <1>0, <2>1 DEF UnrecordedInv
  <2> QED
    BY <2>1, <2>2
<1>2. CASE Unharvest
  BY <1>0, <1>t, <1>2 DEF Unharvest
<1>3. ASSUME NEW m \in todo, MarkReady(m) PROVE Goal
  BY <1>0, <1>t, <1>3 DEF MarkReady
<1>4. ASSUME NEW m \in todo, AutoApproveGate(m) PROVE Goal
  BY <1>0, <1>t, <1>4 DEF AutoApproveGate, Dispatching
<1>5. ASSUME NEW m \in todo, ResolveTemplate(m) PROVE Goal
  <2>1. /\ status' = SetStatus({c \in Children[m] : status[c] = "ABSENT"}, "PENDING")
        /\ m \in Node /\ Children[m] \subseteq Node
    BY <1>t, <1>5 DEF ResolveTemplate
  <2>2. \A c \in Node : status'[c] = IF c \in Children[m] /\ status[c] = "ABSENT"
                                       THEN "PENDING" ELSE status[c]
    BY <2>1
  <2>3. \A c \in Children[m] : status'[c] # "ABSENT"
    BY <2>1, <2>2
  <2> QED
    BY <2>1, <2>2, <2>3
<1>6. CASE TemplateDone
  BY <1>0, <1>t, <1>6 DEF TemplateDone
<1>7. ASSUME NEW m \in todo, NoBindings(m) PROVE Goal
  BY <1>0, <1>t, <1>7 DEF NoBindings, Dispatching
<1>8. ASSUME NEW m \in todo, StartLocal(m) PROVE Goal
  BY <1>0, <1>t, <1>8 DEF StartLocal, Dispatching
<1>9. CASE FinishLocal
  BY <1>0, <1>t, <1>9 DEF FinishLocal
<1>10. ASSUME NEW m \in queue, ServeFromMemo(m) PROVE Goal
  BY <1>0, <1>t, <1>10 DEF ServeFromMemo
<1>11. ASSUME NEW m \in queue, Harvest(m) PROVE Goal
  BY <1>0, <1>t, <1>11 DEF Harvest
<1>12. CASE RecordSubmit
  BY <1>0, <1>t, <1>12 DEF RecordSubmit
<1>13. CASE ItemReturned
  BY <1>i, <1>t, <1>13 DEF ItemReturned, LinkItem
<1>14. CASE ItemExpired
  BY <1>i, <1>t, <1>14 DEF ItemExpired
<1>15. CASE ReEnqueue
  BY <1>i, <1>t, <1>15 DEF ReEnqueue
<1>16. CASE Validate
  BY <1>i, <1>t, <1>16 DEF Validate
<1>17. CASE ApplyDiff
  BY <1>i, <1>t, <1>17 DEF ApplyDiff
<1>18. CASE RecordApplied
  BY <1>i, <1>t, <1>18 DEF RecordApplied, RecordAs
<1>19. CASE NodeDone
  BY <1>i, <1>t, <1>19 DEF NodeDone
<1>20. CASE UNCHANGED status
  BY <1>20
<1> HIDE DEF Goal
<1> QED
  BY <1>1, <1>2, <1>3, <1>4, <1>5, <1>6, <1>7, <1>8, <1>9, <1>10, <1>11,
     <1>12, <1>13, <1>14, <1>15, <1>16, <1>17, <1>18, <1>19, <1>20
  DEF Next, Run, Resume, Dispatch, RemoteWave, ProcessWave, Provider, Goal,
      Crash, Exit, Start, Resumes, ResumeInFlight, NoBatchFound, GiveUpWave, Resumed, EnterLoop,
      NextIteration, TakeFrontier, CollectRemote, EndDispatch, NextGroup, EndGroups, MissMemo,
      AllCached, FormWave, SealWave, Submit, FetchResults, TakeItem, PutMemo, ForeignKeyError,
      CompleteWave, CloseWave, Finalize, BatchEnds, vars

\* What a node waits for stays safe.
LEMMA DepsSafeStep ==
  ASSUME FindExact, Known, NodeInv, ExpiredInv, [Next]_vars, NEW n \in Node, DepsSafe(n)
  PROVE  DepsSafe(n)'
<1>1. Deps[n] \subseteq Node /\ \A t \in StarDeps[n] : Children[t] \subseteq Node
  BY PlanAssumption
<1>2. ASSUME NEW d \in Deps[n] PROVE Safe(d)'
  BY <1>1, <1>2, SafeStep DEF DepsSafe
<1>3. ASSUME NEW t \in StarDeps[n], NEW c \in Children[t] PROVE Safe(c)'
  BY <1>1, <1>3, SafeStep DEF DepsSafe
<1> QED
  BY <1>2, <1>3 DEF DepsSafe

LEMMA ReadyStep ==
  ASSUME FindExact, FanoutPlan, Known, NodeInv, ExpiredInv, ReadyInv, FanInv, [Next]_vars
  PROVE  ReadyInv' /\ FanInv'
<1> USE PlanAssumption
<1>p. \A n \in Node : /\ Deps[n] \subseteq Node /\ StarDeps[n] \subseteq Node
                      /\ Children[n] \subseteq Node
  OBVIOUS
<1>1. ASSUME NEW n \in Node, DepsSafe(n) PROVE DepsSafe(n)'
  BY <1>1, DepsSafeStep
<1>2. ASSUME pc = "loop", NEW n \in Frontier PROVE n \in Node /\ status[n] # "ABSENT" /\ DepsSafe(n)
  <2>1. InFlight = {}
    BY <1>2 DEF Known, LoopInv, BarrierInv, OnWave, ItemPcs
  <2>2. n \in Node /\ status[n] # "ABSENT" /\ DepsSatisfied(n)
    BY <1>2 DEF Frontier, Runnable
  <2>3. \A d \in Deps[n] : status[d] \in Success
    BY <2>2 DEF DepsSatisfied
  <2>4. ASSUME NEW t \in StarDeps[n], NEW c \in Children[t] PROVE status[c] \in Success
    <3>1. PICK k \in Children[t] : status[k] # "ABSENT"
      BY <2>2 DEF DepsSatisfied
    <3>2. status[c] # "ABSENT"
      BY <1>p, <2>2, <3>1 DEF FanInv
    <3> QED
      BY <2>2, <3>2 DEF DepsSatisfied
  <2> QED
    BY <2>1, <2>2, <2>3, <2>4 DEF DepsSafe, Safe
<1>3. ASSUME NEW n \in Node, Held(n)' PROVE status'[n] # "ABSENT" /\ DepsSafe(n)'
  <2>1. status[n] # "ABSENT" /\ DepsSafe(n)
    BY <1>2, <1>3, HeldStep DEF ReadyInv
  <2> QED
    BY <1>1, <2>1, AbsentStep
<1>4. ASSUME NEW t \in Node, NEW c \in Children[t], NEW d \in Children[t], status'[c] = "ABSENT"
      PROVE  status'[d] = "ABSENT"
  <2>1. c \in Node /\ d \in Node
    BY <1>p
  <2>2. status[c] = "ABSENT"
    BY <1>4, <2>1, AbsentStep
  <2>3. status[d] = "ABSENT"
    BY <2>2 DEF FanInv
  <2>4. ASSUME status'[d] # "ABSENT" PROVE FALSE
    <3>1. PICK u \in Node : d \in Children[u] /\ \A k \in Children[u] : status'[k] # "ABSENT"
      BY <2>1, <2>3, <2>4, AbsentStep
    <3>2. u = t
      BY <3>1 DEF FanoutPlan
    <3> QED
      BY <1>4, <3>1, <3>2
  <2> QED
    BY <2>4
<1> QED
  BY <1>3, <1>4 DEF ReadyInv, FanInv

\* Held nodes, and the children of templates, for such a plan.
LEMMA ReadyInvariant == FindExact /\ FanoutPlan => (Spec => [](ReadyInv /\ FanInv))
<1> SUFFICES ASSUME FindExact, FanoutPlan PROVE Spec => [](ReadyInv /\ FanInv)
  OBVIOUS
<1>1. Init => ReadyInv /\ FanInv
  <2> SUFFICES ASSUME Init PROVE ReadyInv /\ FanInv
    OBVIOUS
  <2>1. \A n \in Node : ~Held(n)
    BY DEF Init, Held, Waiting, Serving, ItemPcs, InBatch
  <2>2. \A t \in Node : \A c \in Children[t] : status[c] = "ABSENT"
    BY PlanAssumption DEF Init, FanoutPlan
  <2> QED
    BY <2>1, <2>2 DEF ReadyInv, FanInv
<1>2. FindExact /\ FanoutPlan /\ Known /\ NodeInv /\ ExpiredInv /\ ReadyInv /\ FanInv /\ [Next]_vars
        => ReadyInv' /\ FanInv'
  BY ReadyStep
<1> QED
  BY <1>1, <1>2, NodeInvariant, PTL DEF Spec

\* orchestrator.py:361, 376: if find_batch sees every batch and
\* templates have children of their own, a node is paid for only when all it
\* depends on has succeeded, and that stays so through crashes and resumes.
THEOREM PaidOnlyAfterDeps == FindExact /\ FanoutPlan => (Spec => []PaidAfterDeps)
<1> SUFFICES ASSUME FindExact, FanoutPlan PROVE Spec => []PaidAfterDeps
  OBVIOUS
<1>1. Known /\ ReadyInv => PaidAfterDeps
  <2> SUFFICES ASSUME Known, ReadyInv, NEW b \in 1..Len(batches), NEW n \in batches[b].key.items
               PROVE  /\ \A d \in Deps[n] : status[d] \in Success
                      /\ \A t \in StarDeps[n] : \A c \in Children[t] : status[c] \in Success
    BY DEF PaidAfterDeps
  <2>1. batches[b] \in Batch
    BY DEF Known, TypeInv, TypeOK, WorldType
  <2>2. n \in Node
    BY <2>1 DEF Batch, WaveId
  <2> QED
    BY <2>2 DEF ReadyInv, Held, InBatch, DepsSafe, Safe
<1> QED
  BY <1>1, NodeInvariant, ReadyInvariant, PTL
=============================================================================
