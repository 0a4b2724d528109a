-------------------------- MODULE BatchWire_proofs --------------------------
(***************************************************************************)
(* What the batch adapters promise for any number of items, any scan limit *)
(* and tolerance, and any number of faults, crashes and other batches.     *)
(***************************************************************************)
EXTENDS BatchWire, FiniteSetTheorems, TLAPS

\* Where the loop holds a batch ref.
HoldPcs == {"record", "poll", "fetch", "output", "errors", "done"}

\* The refs at hand and on record are refs of the job's own batches, and
\* nothing is submitted before WAVE_FORMED.
HandInv ==
  /\ pc \in HoldPcs => ref # 0
  /\ \A r \in {ref, recorded} : r # 0 => batches[r].own
  /\ ~formed => pc = "down" /\ \A b \in 1..Len(batches) : ~batches[b].own

TypeInv == TypeOK /\ HandInv

USE DEF log, adapter, loop, bounds

-----------------------------------------------------------------------------
(* Facts about the helpers.                                                *)

\* The items with some outcome are finitely many.
LEMMA OfIsFinite ==
  ASSUME NEW b \in Batch, NEW S
  PROVE  /\ Of(b, S) \subseteq Item
         /\ IsFiniteSet(Of(b, S))
         /\ Count(b, S) \in Nat
         /\ Count(b, S) <= Cardinality(Item)
         /\ Cardinality(Item) \in Nat
         /\ Count(b, S) = 0 <=> Of(b, S) = {}
         /\ Count(b, S) = Cardinality(Item) => Of(b, S) = Item
<1>1. Of(b, S) \in SUBSET Item /\ IsFiniteSet(Item)
  BY WireAssumption DEF Of
<1>2. IsFiniteSet(Of(b, S))
  BY <1>1, FS_Subset
<1> QED
  BY <1>1, <1>2, FS_Subset, FS_CardinalityType, FS_EmptySet DEF Count

\* What a poll reports are counts.
LEMMA StatusOfType ==
  ASSUME wire \in Wires, NEW b \in Batch, NEW total \in Totals(b)
  PROVE  StatusOf(b, total) \in Counts
<1>1. \A S : Count(b, S) \in Nat
  BY OfIsFinite
<1>2. Cardinality(Item) \in Nat
  BY OfIsFinite
<1>3. Remainder(b, total) \in Nat
  BY <1>1, <1>2 DEF Remainder, Totals
<1>4. b.status \in InProgress \cup Ended
  BY DEF Batch
<1>5. OpenAIStatus(b, total) \in Counts
  BY <1>1, <1>3, <1>4 DEF OpenAIStatus, Counts
<1>6. AnthropicStatus(b) \in Counts /\ FixtureStatus(b) \in Counts
  BY <1>1, <1>2, <1>4 DEF AnthropicStatus, FixtureStatus, Counts, NoCounts
<1> QED
  BY <1>5, <1>6 DEF StatusOf, OpenRouterStatus

\* Every outcome the wire shows has an ItemStatus.
LEMMA MappedType == \A o : Mapped(o) \in ItemStatus
  BY DEF Mapped, AnthropicResult, OutputLine, ErrorLine, ItemStatus

\* The bodies a server makes are batches.
LEMMA NewBatchType ==
  /\ NoBody \in Batch
  /\ \A lag \in 0..MaxLag, keyed \in BOOLEAN :
       [own |-> TRUE, keyed |-> keyed, lag |-> lag, status |-> "validating",
        out |-> Pending] \in Batch
  /\ NoCounts \in Counts
  BY WireAssumption DEF NoBody, Batch, Pending, Outcome, InProgress, NoCounts, Counts

-----------------------------------------------------------------------------
(* What a step may do to the batches.                                      *)

\* A batch keeps its owner and key, and once it ended, its status and its outcomes.
Kept(b, c) ==
  /\ c.own = b.own /\ c.keyed = b.keyed
  /\ b.status \in Ended => c.status = b.status /\ c.out = b.out

BatchesKept ==
  /\ batches' \in Seq(Batch)
  /\ Len(batches) <= Len(batches')
  /\ \A b \in 1..Len(batches) : Kept(batches[b], batches'[b])

\* A batch in place of another.
LEMMA ChangedBatch ==
  ASSUME TypeOK, NEW b \in 1..Len(batches), NEW c \in Batch, Kept(batches[b], c),
         batches' = [batches EXCEPT ![b] = c]
  PROVE  /\ BatchesKept
         /\ Len(batches') = Len(batches)
         /\ batches'[b] = c
         /\ \A a \in 1..Len(batches) : a # b => batches'[a] = batches[a]
  BY DEF TypeOK, ServerType, BatchesKept, Kept

\* A batch behind the others.
LEMMA AppendedBatch ==
  ASSUME TypeOK, NEW c \in Batch, batches' = Append(batches, c)
  PROVE  /\ BatchesKept
         /\ Len(batches') = Len(batches) + 1
         /\ batches'[Len(batches) + 1] = c
         /\ \A a \in 1..Len(batches) : batches'[a] = batches[a]
  BY DEF TypeOK, ServerType, BatchesKept, Kept

\* What comes new is a batch of the wave's own, or one of others.
OneMore ==
  \/ Len(batches') = Len(batches)
  \/ /\ Len(batches') = Len(batches) + 1
     /\ \/ Creates /\ pc' \in {"record", "down"}
        \/ ~batches'[Len(batches')].own
     /\ batches'[Len(batches')].status = "validating"
     /\ batches'[Len(batches')].out = Pending

\* The server changes one batch, that has not ended.
LEMMA ServerChanges ==
  ASSUME TypeOK, NEW b \in 1..Len(batches), Live(b), NEW s \in InProgress \cup Ended,
         NEW out \in [Item -> Outcome], ServerSets(b, s, out)
  PROVE  /\ BatchesKept
         /\ Len(batches') = Len(batches)
         /\ batches'[b] = [batches[b] EXCEPT !.status = s, !.out = out]
         /\ \A a \in 1..Len(batches) : a # b => batches'[a] = batches[a]
<1> DEFINE c == [batches[b] EXCEPT !.status = s, !.out = out]
<1>1. batches[b] \in Batch
  BY DEF TypeOK, ServerType
<1>2. c \in Batch /\ Kept(batches[b], c)
  BY <1>1 DEF Batch, Kept, Live, InProgress, Ended
<1>3. batches' = [batches EXCEPT ![b] = c]
  BY DEF ServerSets, TypeOK, ServerType
<1> HIDE DEF c
<1>4. /\ BatchesKept
      /\ Len(batches') = Len(batches)
      /\ batches'[b] = c
      /\ \A a \in 1..Len(batches) : a # b => batches'[a] = batches[a]
  BY <1>2, <1>3, ChangedBatch
<1> QED
  BY <1>4 DEF c

\* The ways of the server, with the status and the outcomes each leaves.
Starting(b, s, out) ==
  batches[b].status = "validating" /\ s = "in_progress" /\ out = batches[b].out

Refusing(b, s, out) ==
  /\ batches[b].status = "validating"
  /\ wire \in {"openai", "openrouter"}
  /\ s = "failed" /\ out = batches[b].out

Answering(b, s, out) ==
  /\ batches[b].status = "in_progress"
  /\ wire # "fixture"
  /\ \E i \in Item, o \in {"ok", "error"} : out = [batches[b].out EXCEPT ![i] = o]
  /\ \/ s = "in_progress" /\ \E j \in Item : out[j] = "pending"
     \/ /\ s \in {"in_progress", "finalizing"} /\ wire \in {"openai", "openrouter"}
        /\ \A j \in Item : out[j] # "pending"

Ending(b, s, out) ==
  /\ batches[b].status # "validating"
  /\ s \in {"completed", "expired", "cancelled"}
  /\ wire = "fixture" => s = "completed"
  /\ \E rest \in [Of(batches[b], {"pending"}) -> Closing(s)] :
       /\ wire = "anthropic" => \A i \in DOMAIN rest : rest[i] # "dropped"
       /\ out = [i \in Item |-> IF i \in DOMAIN rest THEN rest[i] ELSE batches[b].out[i]]

Changing(b, s, out) ==
  /\ Live(b)
  /\ ServerSets(b, s, out)
  /\ Starting(b, s, out) \/ Refusing(b, s, out) \/ Answering(b, s, out) \/ Ending(b, s, out)

\* Each step of the server changes one batch, in one of these ways.
LEMMA ServerStep ==
  ASSUME TypeOK, Server
  PROVE  \E b \in 1..Len(batches), s \in InProgress \cup Ended, out \in [Item -> Outcome] :
           Changing(b, s, out)
<1>0. PICK b \in 1..Len(batches) :
        \/ ServerStarts(b)
        \/ ServerRefuses(b)
        \/ \E i \in Item : ServerAnswers(b, i)
        \/ \E s \in {"completed", "expired", "cancelled"} : ServerEnds(b, s)
  BY DEF Server
<1>a. batches[b] \in Batch
  BY DEF TypeOK, ServerType
<1>1. batches[b].out \in [Item -> Outcome]
  BY <1>a DEF Batch
<1>2. CASE ServerStarts(b)
  <2>1. Changing(b, "in_progress", batches[b].out)
    BY <1>2 DEF ServerStarts, Changing, Starting
  <2> QED
    BY <1>1, <2>1 DEF InProgress
<1>3. CASE ServerRefuses(b)
  <2>1. Changing(b, "failed", batches[b].out)
    BY <1>3 DEF ServerRefuses, Changing, Refusing
  <2> QED
    BY <1>1, <2>1 DEF Ended
<1>4. ASSUME NEW i \in Item, ServerAnswers(b, i)
      PROVE  \E s \in InProgress, out \in [Item -> Outcome] : Changing(b, s, out)
  <2>1. PICK o \in {"ok", "error"}, s \in {"in_progress", "finalizing"} :
          LET out == [batches[b].out EXCEPT ![i] = o]
          IN  /\ IF \E j \in Item : out[j] = "pending" THEN s = "in_progress"
                                                     ELSE wire \in {"openai", "openrouter"}
              /\ ServerSets(b, s, out)
    BY <1>4 DEF ServerAnswers
  <2> DEFINE out == [batches[b].out EXCEPT ![i] = o]
  <2>2. out \in [Item -> Outcome]
    BY <1>1 DEF Outcome
  <2>3. Answering(b, s, out)
    BY <1>4, <2>1 DEF ServerAnswers, Answering
  <2>4. Changing(b, s, out)
    BY <1>4, <2>1, <2>3 DEF ServerAnswers, Changing
  <2> QED
    BY <2>2, <2>4 DEF InProgress
<1>5. ASSUME NEW s \in {"completed", "expired", "cancelled"}, ServerEnds(b, s)
      PROVE  \E out \in [Item -> Outcome] : Changing(b, s, out)
  <2>1. PICK rest \in [Of(batches[b], {"pending"}) -> Closing(s)] :
          /\ wire = "anthropic" => \A i \in DOMAIN rest : rest[i] # "dropped"
          /\ ServerSets(b, s, [i \in Item |-> IF i \in DOMAIN rest THEN rest[i]
                                              ELSE batches[b].out[i]])
    BY <1>5 DEF ServerEnds
  <2> DEFINE out == [i \in Item |-> IF i \in DOMAIN rest THEN rest[i] ELSE batches[b].out[i]]
  <2>2. Closing(s) \subseteq Outcome
    BY DEF Closing, Outcome
  <2>3. out \in [Item -> Outcome]
    BY <1>1, <2>2
  <2>4. Changing(b, s, out)
    BY <1>5, <2>1 DEF ServerEnds, Changing, Ending
  <2> QED
    BY <2>3, <2>4
<1> QED
  BY <1>0, <1>2, <1>3, <1>4, <1>5 DEF Ended

-----------------------------------------------------------------------------
(* The type invariant.                                                     *)

\* Every step keeps the batches that are there.
LEMMA EveryBatchKept ==
  ASSUME TypeInv, [Next]_vars
  PROVE  BatchesKept /\ OneMore
<1> USE DEF TypeInv, OneMore
<1>1. CASE UNCHANGED batches
  BY <1>1 DEF TypeOK, ServerType, BatchesKept, Kept
<1>2. CASE Server
  <2>1. PICK b \in 1..Len(batches), s \in InProgress \cup Ended, out \in [Item -> Outcome] :
          Changing(b, s, out)
    BY <1>2, ServerStep
  <2> QED
    BY <2>1, ServerChanges DEF Changing
<1>3. CASE OtherBatch
  BY <1>3, NewBatchType, AppendedBatch DEF OtherBatch, NoBody
<1>4. CASE Create \/ CreateUnanswered
  <2>0. Creates /\ pc' \in {"record", "down"}
    BY <1>4 DEF Create, CreateUnanswered, Leave
  <2>1. PICK lag \in 0..MaxLag, keyed \in BOOLEAN :
          batches' = Append(batches, [own |-> TRUE, keyed |-> keyed, lag |-> lag,
                                      status |-> "validating", out |-> Pending])
    <3>1. PICK lag \in IF wire = "openrouter" THEN 0..MaxLag ELSE {0},
               keyed \in IF wire = "anthropic" THEN BOOLEAN ELSE {TRUE} :
            batches' = Append(batches, [own |-> TRUE, keyed |-> keyed, lag |-> lag,
                                        status |-> "validating", out |-> Pending])
      BY <2>0 DEF Creates
    <3>2. lag \in 0..MaxLag
      BY WireAssumption
    <3>3. keyed \in BOOLEAN
      <4>1. CASE wire = "anthropic"
        BY <4>1
      <4>2. CASE wire # "anthropic"
        BY <4>2
      <4> QED
        BY <4>1, <4>2
    <3> QED
      BY <3>1, <3>2, <3>3
  <2> QED
    BY <2>0, <2>1, NewBatchType, AppendedBatch
<1>5. CASE PollNotFound
  <2> DEFINE c == [batches[ref] EXCEPT !.lag = @ - 1]
  <2>1. ref \in 1..Len(batches) /\ batches[ref] \in Batch
    BY <1>5 DEF PollNotFound, TypeOK, ServerType, LoopType, HandInv, HoldPcs
  <2>2. batches[ref].lag \in 0..MaxLag /\ batches[ref].lag # 0 /\ MaxLag \in Nat
    BY <1>5, <2>1, WireAssumption DEF PollNotFound, Visible, Batch
  <2>3. batches[ref].lag - 1 \in 0..MaxLag
    BY <2>2
  <2>4. c \in Batch
    BY <2>1, <2>3 DEF Batch
  <2>5. Kept(batches[ref], c)
    BY <2>1 DEF Batch, Kept
  <2>6. batches' = [batches EXCEPT ![ref] = c]
    BY <1>5 DEF PollNotFound
  <2> QED
    BY <2>1, <2>4, <2>5, <2>6, ChangedBatch
<1>6. CASE Loop \/ Failure
  BY <1>1, <1>4, <1>5, <1>6
  DEF Loop, Failure, Start, FindBatch, SubmitRefused, Upload, Create, Record, PollAnswers, Fetch,
      ReadErrors, CloseWave, Yield, CreateUnanswered, CallFails, Crash, PollRetries, PollGivesUp
<1> QED
  BY <1>1, <1>2, <1>3, <1>6 DEF Next, vars

\* The refs at hand stay refs of own batches.
LEMMA RefsKept ==
  ASSUME TypeInv, [Next]_vars, NEW r \in 1..Len(batches), batches[r].own
  PROVE  r \in 1..Len(batches') /\ batches'[r].own
<1>1. BatchesKept
  BY EveryBatchKept
<1>2. Len(batches) \in Nat /\ Len(batches') \in Nat /\ Len(batches) <= Len(batches')
  BY <1>1 DEF BatchesKept, TypeInv, TypeOK, ServerType
<1>3. Kept(batches[r], batches'[r])
  BY <1>1 DEF BatchesKept
<1> QED
  BY <1>2, <1>3 DEF Kept

\* Nothing is submitted before WAVE_FORMED.
LEMMA UnformedIsEmpty ==
  ASSUME TypeInv, [Next]_vars, ~formed'
  PROVE  pc' = "down" /\ \A b \in 1..Len(batches') : ~batches'[b].own
<1>1. BatchesKept /\ OneMore
  BY EveryBatchKept
<1>2. ~formed /\ pc = "down" /\ pc' = "down"
  BY DEF TypeInv, HandInv, TypeOK, LogType, Next, Loop, Failure, Server, OtherBatch, vars,
         Start, FindBatch, SubmitRefused, Upload, Create, Creates, Record, PollAnswers,
         PollNotFound, Fetch, ReadErrors, CloseWave, Yield, CreateUnanswered, CallFails, Crash,
         PollRetries, PollGivesUp, PollFails, ServerStarts, ServerRefuses, ServerAnswers,
         ServerEnds, ServerSets
<1>3. \A b \in 1..Len(batches) : ~batches[b].own
  BY <1>2 DEF TypeInv, HandInv
<1>4. ~Creates
  BY <1>2 DEF Creates
<1>5. Len(batches) \in Nat /\ Len(batches') \in Nat
  BY <1>1 DEF BatchesKept, TypeInv, TypeOK, ServerType
<1>6. \A b \in 1..Len(batches) : ~batches'[b].own
  BY <1>1, <1>3 DEF BatchesKept, Kept
<1> QED
  BY <1>1, <1>2, <1>4, <1>5, <1>6 DEF OneMore

\* What the types and the refs of the next state come down to, given the batches.
LEMMA Typed ==
  ASSUME TypeInv, [Next]_vars, wire' \in Wires, fits' \in BOOLEAN, formed' \in BOOLEAN,
         results' \in [Item -> ItemStatus \cup {"none"}], closed' \in BOOLEAN,
         pc' \in {"down", "find", "submit", "create", "record", "poll", "fetch",
                  "output", "errors", "done"},
         pc' \in HoldPcs => ref' # 0,
         \A r \in {ref', recorded'} :
           r # 0 => r \in 1..Len(batches') /\ batches'[r].own,
         booked' \in Counts, page' \subseteq Item, lastGet' \in Batch, streak' \in Nat,
         faults' \in 0..MaxFaults, crashes' \in 0..MaxCrashes
  PROVE  TypeInv'
<1>1. BatchesKept
  BY EveryBatchKept
<1>2. ServerType' /\ Len(batches') \in Nat
  BY <1>1 DEF BatchesKept, ServerType
<1>3. ref' \in 0..Len(batches') /\ recorded' \in 0..Len(batches')
  BY <1>2
<1>4. LogType'
  BY <1>3 DEF LogType
<1>5. LoopType'
  BY <1>3 DEF LoopType
<1>6. HandInv'
  BY UnformedIsEmpty DEF HandInv
<1> QED
  BY <1>2, <1>4, <1>5, <1>6 DEF TypeInv, TypeOK

\* The server and other jobs leave the loop and its log alone.
LEMMA TypedOutside ==
  ASSUME TypeInv, [Next]_vars, UNCHANGED <<wire, fits, log, adapter, loop, bounds>>
  PROVE  TypeInv'
<1>1. \A r \in {ref, recorded} : r # 0 => r \in 1..Len(batches') /\ batches'[r].own
  BY RefsKept DEF TypeInv, TypeOK, HandInv, LogType, LoopType, ServerType
<1> QED
  BY <1>1, Typed DEF TypeInv, TypeOK, HandInv, LogType, LoopType, HoldPcs

\* Every step keeps the types, and the refs refs of own batches.
LEMMA TypeStep ==
  ASSUME TypeInv, [Next]_vars
  PROVE  TypeInv'
<1>a. \A r \in {ref, recorded} : r # 0 => r \in 1..Len(batches') /\ batches'[r].own
  BY RefsKept DEF TypeInv, TypeOK, HandInv, LogType, LoopType, ServerType
<1>b. /\ wire \in Wires /\ fits \in BOOLEAN /\ formed \in BOOLEAN
      /\ results \in [Item -> ItemStatus \cup {"none"}] /\ closed \in BOOLEAN
      /\ pc \in HoldPcs => ref # 0
      /\ booked \in Counts /\ page \subseteq Item /\ lastGet \in Batch /\ streak \in Nat
      /\ faults \in 0..MaxFaults /\ crashes \in 0..MaxCrashes
      /\ MaxFaults \in Nat /\ MaxCrashes \in Nat
  BY WireAssumption DEF TypeInv, TypeOK, HandInv, LogType, LoopType
<1>c. \A r \in 1..Len(batches) : batches[r] \in Batch
  BY DEF TypeInv, TypeOK, ServerType
<1>d. NoCounts \in Counts /\ NoBody \in Batch
  BY NewBatchType
<1>e. pc \in {"poll", "fetch", "output", "errors"} => ref \in 1..Len(batches)
  BY DEF TypeInv, TypeOK, LoopType, HandInv, HoldPcs, ServerType
<1>1. CASE UNCHANGED vars
  BY <1>1, TypedOutside DEF vars
<1>2. CASE Server \/ OtherBatch
  <2>1. CASE OtherBatch
    BY <2>1, TypedOutside DEF OtherBatch
  <2>2. CASE Server
    <3>1. PICK b \in 1..Len(batches), s \in InProgress \cup Ended, out \in [Item -> Outcome] :
            Changing(b, s, out)
      BY <2>2, ServerStep DEF TypeInv
    <3> QED
      BY <3>1, TypedOutside DEF Changing, ServerSets
  <2> QED
    BY <1>2, <2>1, <2>2
<1>3. CASE Start
  BY <1>3, <1>a, <1>b, Typed DEF Start, HoldPcs
<1>4. CASE FindBatch
  <2>1. CASE pc' = "submit"
    BY <1>4, <2>1, <1>a, <1>b, Typed DEF FindBatch, HoldPcs
  <2>2. CASE pc' # "submit"
    <3>1. PICK b \in Matches : ref' = b /\ pc' = "record"
      BY <1>4, <2>2 DEF FindBatch
    <3>2. b \in 1..Len(batches) /\ batches[b].own
      BY <3>1 DEF Matches, Searched, Listed, Registered
    <3>3. b # 0 /\ b \in 1..Len(batches') /\ batches'[b].own
      BY <3>2, RefsKept DEF TypeInv, TypeOK, ServerType
    <3> QED
      BY <1>4, <3>1, <3>3, <1>a, <1>b, Typed DEF FindBatch, HoldPcs
  <2> QED
    BY <2>1, <2>2
<1>5. CASE SubmitRefused
  BY <1>5, <1>a, <1>b, <1>d, Typed DEF SubmitRefused, Leave, HoldPcs
<1>6. CASE Upload
  BY <1>6, <1>a, <1>b, Typed DEF Upload, HoldPcs
<1>7. CASE Create
  <2>1. PICK lag, keyed :
          batches' = Append(batches, [own |-> TRUE, keyed |-> keyed, lag |-> lag,
                                      status |-> "validating", out |-> Pending])
    BY <1>7 DEF Create, Creates
  <2>2. /\ Len(batches') = Len(batches) + 1 /\ Len(batches) \in Nat
        /\ batches'[Len(batches) + 1].own
    BY <2>1 DEF TypeInv, TypeOK, ServerType
  <2>3. ref' = Len(batches') /\ ref' \in 1..Len(batches') /\ ref' # 0 /\ batches'[ref'].own
    BY <1>7, <2>2 DEF Create
  <2> QED
    BY <1>7, <2>3, <1>a, <1>b, Typed DEF Create, Creates, HoldPcs
<1>8. CASE Record
  BY <1>8, <1>a, <1>b, Typed DEF Record, HoldPcs
<1>9. CASE PollAnswers
  <2>1. \A total \in Totals(batches[ref]) : StatusOf(batches[ref], total) \in Counts
    BY <1>9, <1>b, <1>c, <1>e, StatusOfType DEF PollAnswers
  <2>2. lastGet' \in Batch /\ booked' \in Counts
    BY <1>9, <2>1, <1>b, <1>c, <1>d, <1>e DEF PollAnswers, Seen
  <2> QED
    BY <1>9, <2>2, <1>a, <1>b, Typed DEF PollAnswers, HoldPcs
<1>10. CASE PollNotFound
  BY <1>10, <1>a, <1>b, <1>d, Typed DEF PollNotFound, Leave, HoldPcs
<1>11. CASE Fetch
  <2>1. page' \subseteq Item /\ lastGet' \in Batch
    BY <1>11, <1>b, <1>c, <1>d, <1>e
    DEF Fetch, OutputFile, Inline, InlineBody, Stream, Of, Seen
  <2> QED
    BY <1>11, <2>1, <1>a, <1>b, Typed DEF Fetch, HoldPcs
<1>12. CASE ReadErrors
  <2>1. page' \subseteq Item
    BY <1>12 DEF ReadErrors, ErrorFile, Of
  <2> QED
    BY <1>12, <2>1, <1>a, <1>b, Typed DEF ReadErrors, HoldPcs
<1>13. CASE CloseWave
  BY <1>13, <1>a, <1>b, Typed DEF CloseWave, HoldPcs
<1>14. ASSUME NEW i \in Item, Yield(i)
       PROVE  TypeInv'
  <2>1. results' \in [Item -> ItemStatus \cup {"none"}]
    BY <1>14, <1>b, MappedType DEF Yield
  <2> QED
    BY <1>14, <2>1, <1>a, <1>b, Typed DEF Yield, HoldPcs
<1>15. CASE CreateUnanswered
  BY <1>15, <1>a, <1>b, <1>d, Typed DEF CreateUnanswered, Creates, Fault, Leave, HoldPcs
<1>16. CASE CallFails
  BY <1>16, <1>a, <1>b, <1>d, Typed DEF CallFails, Fault, Leave, HoldPcs
<1>17. CASE Crash
  BY <1>17, <1>a, <1>b, <1>d, Typed DEF Crash, Leave, HoldPcs
<1>18. ASSUME NEW e \in Error, PollRetries(e) \/ PollGivesUp(e)
       PROVE  TypeInv'
  BY <1>18, <1>a, <1>b, <1>d, Typed
  DEF PollRetries, PollGivesUp, PollFails, Fault, Leave, HoldPcs
<1> QED
  BY <1>1, <1>2, <1>3, <1>4, <1>5, <1>6, <1>7, <1>8, <1>9, <1>10, <1>11, <1>12, <1>13, <1>14,
     <1>15, <1>16, <1>17, <1>18 DEF Next, Loop, Failure

\* An account without a batch and an empty log are well typed.
LEMMA TypeInit == Init => TypeInv
<1> SUFFICES ASSUME Init PROVE TypeInv
  OBVIOUS
<1>1. ServerType /\ Len(batches) = 0
  BY DEF Init, ServerType
<1>2. LogType
  <2>1. results \in [Item -> ItemStatus \cup {"none"}]
    BY DEF Init
  <2>2. recorded \in 0..Len(batches)
    BY <1>1 DEF Init
  <2> QED
    BY <2>1, <2>2 DEF Init, LogType
<1>4. LoopType
  BY <1>1, NewBatchType DEF Init, LoopType
<1>3. HandInv
  BY <1>1 DEF Init, HandInv, HoldPcs
<1> QED
  BY <1>1, <1>2, <1>3, <1>4, WireAssumption DEF Init, TypeInv, TypeOK

(***************************************************************************)
(* Server, log and process hold what the code can put there, on every wire *)
(* and for any number of items.                                            *)
(***************************************************************************)
THEOREM TypeCorrect == Spec => []TypeOK
<1>1. TypeInv => TypeOK
  BY DEF TypeInv
<1> QED
  BY <1>1, TypeInit, TypeStep, PTL DEF Spec

-----------------------------------------------------------------------------
(* No wave is bought twice but blindly.                                    *)

\* While a submission is under way, no batch of the wave is within reach of a
\* lookup.
OutOfReach(n) ==
  \A a \in 1..Len(batches) :
    batches[a].own => wire = "openrouter" \/ ~batches[a].keyed \/ n - a > ScanLimit

BlindInv == pc \in {"submit", "create"} => OutOfReach(Len(batches) + 1)

\* A behaviour stays on its adapter.
LEMMA WireKept == ASSUME [Next]_vars PROVE wire' = wire
  BY DEF Next, Loop, Failure, Server, OtherBatch, vars,
         Start, FindBatch, SubmitRefused, Upload, Create, Creates, Record, PollAnswers,
         PollNotFound, Fetch, ReadErrors, CloseWave, Yield, CreateUnanswered, CallFails, Crash,
         PollRetries, PollGivesUp, ServerStarts, ServerRefuses, ServerAnswers,
         ServerEnds, ServerSets

\* No step takes a submission within reach of a lookup.
LEMMA BlindStep ==
  ASSUME TypeInv, BlindInv, [Next]_vars
  PROVE  BlindInv'
<1>a. BatchesKept /\ OneMore
  BY EveryBatchKept
<1>b. Len(batches) \in Nat /\ Len(batches') \in Nat /\ ScanLimit \in Nat
  BY <1>a, WireAssumption DEF BatchesKept, TypeInv, TypeOK, ServerType
<1>c. wire' = wire
  BY WireKept
<1> SUFFICES ASSUME pc' \in {"submit", "create"}, NEW a \in 1..Len(batches'), batches'[a].own
             PROVE  \/ wire = "openrouter" \/ ~batches'[a].keyed
                    \/ Len(batches') + 1 - a > ScanLimit
  BY <1>c DEF BlindInv, OutOfReach
<1>1. CASE Start
  <2>1. ~formed /\ batches' = batches
    BY <1>1, <1>c DEF Start, TypeInv, TypeOK, LogType
  <2> QED
    BY <2>1 DEF TypeInv, HandInv
<1>2. CASE FindBatch
  <2>1. batches' = batches /\ Matches = {}
    BY <1>2 DEF FindBatch
  <2>2. a \notin Searched \/ ~batches[a].keyed
    BY <2>1, <1>b DEF Matches, Searched, Listed, Registered
  <2>3. wire \in {"anthropic", "openai", "openrouter", "fixture"}
    BY WireAssumption DEF TypeInv, TypeOK
  <2> QED
    BY <2>1, <2>2, <2>3, <1>b DEF Searched, Listed, Registered
<1>3. CASE ~Start /\ ~FindBatch
  <2>1. pc \in {"submit", "create"}
    BY <1>3 DEF Next, Loop, Failure, Server, OtherBatch, vars, Leave,
         SubmitRefused, Upload, Create, Creates, Record, PollAnswers,
         PollNotFound, Fetch, ReadErrors, CloseWave, Yield, CreateUnanswered, CallFails, Crash,
         PollRetries, PollGivesUp, ServerStarts, ServerRefuses, ServerAnswers,
         ServerEnds, ServerSets
  <2>2. a \in 1..Len(batches)
    BY <1>a, <1>b, <2>1 DEF OneMore
  <2>3. batches[a].own
    BY <1>a, <2>2 DEF BatchesKept, Kept
  <2>4. wire = "openrouter" \/ ~batches[a].keyed \/ Len(batches) + 1 - a > ScanLimit
    BY <2>1, <2>2, <2>3 DEF BlindInv, OutOfReach
  <2> QED
    BY <2>2, <2>4, <1>a, <1>b DEF BatchesKept, Kept
<1> QED
  BY <1>1, <1>2, <1>3

\* No step adds a batch of the wave within reach of another.
LEMMA BoughtStep ==
  ASSUME TypeInv, BlindInv, BoughtAgainBlindly, [Next]_vars
  PROVE  BoughtAgainBlindly'
<1>a. BatchesKept /\ OneMore
  BY EveryBatchKept
<1>b. Len(batches) \in Nat /\ Len(batches') \in Nat /\ ScanLimit \in Nat
  BY <1>a, WireAssumption DEF BatchesKept, TypeInv, TypeOK, ServerType
<1>c. wire' = wire
  BY WireKept
<1> SUFFICES ASSUME NEW a \in 1..Len(batches'), NEW b \in 1..Len(batches'), a < b,
                    batches'[a].own, batches'[b].own
             PROVE  wire = "openrouter" \/ ~batches'[a].keyed \/ b - a > ScanLimit
  BY <1>c DEF BoughtAgainBlindly
<1>1. CASE b \in 1..Len(batches)
  <2>1. a \in 1..Len(batches)
    BY <1>1, <1>b
  <2> QED
    BY <1>1, <2>1, <1>a DEF BatchesKept, Kept, BoughtAgainBlindly
<1>2. CASE b \notin 1..Len(batches)
  <2>1. b = Len(batches) + 1 /\ a \in 1..Len(batches) /\ Creates
    BY <1>2, <1>a, <1>b DEF OneMore
  <2>2. /\ pc \in {"submit", "create"}
        /\ batches[a].own /\ batches'[a].keyed = batches[a].keyed
    BY <2>1, <1>a DEF Creates, BatchesKept, Kept
  <2> QED
    BY <2>1, <2>2 DEF BlindInv, OutOfReach
<1> QED
  BY <1>1, <1>2

(***************************************************************************)
(* A wave is in two batches of the account only where find_batch could not *)
(* see the first: the provider did not hand its key back, or it was not    *)
(* within _FIND_BATCH_SCAN_LIMIT before the second was created, whatever   *)
(* the limit and however many crashes, faults and batches of other jobs    *)
(* came between.                                                           *)
(***************************************************************************)
THEOREM OneBatchPerWave == Spec => []BoughtAgainBlindly
<1>1. Init => BlindInv /\ BoughtAgainBlindly
  BY DEF Init, BlindInv, BoughtAgainBlindly
<1> QED
  BY <1>1, TypeInit, TypeStep, BlindStep, BoughtStep, PTL DEF Spec

-----------------------------------------------------------------------------
(* A poll that is terminal has seen the batch end, or counted out.         *)

\* The outcomes a batch may hold in a status.
Allowed(s) ==
  CASE s = "completed"   -> Closing("completed")
    [] s = "expired"     -> {"ok", "error", "expired"}
    [] s = "cancelled"   -> Outcome \ (IF wire = "anthropic" THEN {"pending", "dropped"}
                                       ELSE {"pending"})
    [] s = "in_progress" -> IF wire = "fixture" THEN {"pending"} ELSE {"pending", "ok", "error"}
    [] s = "finalizing"  -> {"ok", "error"}
    [] OTHER             -> {"pending"}

Sound(x) ==
  /\ \A i \in Item : x.out[i] \in Allowed(x.status)
  /\ x.status \in InProgress /\ wire \notin {"openai", "openrouter"} =>
       x.status # "finalizing" /\ \E i \in Item : x.out[i] = "pending"
  /\ x.status = "failed" => wire \in {"openai", "openrouter"}
  /\ wire = "fixture" => x.status \in InProgress \cup {"completed"}

ServerInv == \A b \in 1..Len(batches) : Sound(batches[b])

\* A change of the server leaves the batch sound.
LEMMA ChangeIsSound ==
  ASSUME NEW x \in Batch, Sound(x), NEW y, y.own = x.own,
         NEW s \in InProgress \cup Ended, NEW out \in [Item -> Outcome],
         y.status = s, y.out = out, x.status \in InProgress,
         NEW b \in 1..Len(batches), batches[b] = x,
         \/ Starting(b, s, out) \/ Refusing(b, s, out) \/ Answering(b, s, out)
         \/ Ending(b, s, out)
  PROVE  Sound(y)
<1>1. CASE Starting(b, s, out)
  <2>1. \A i \in Item : out[i] = "pending"
    BY <1>1 DEF Starting, Sound, Allowed
  <2>2. Item # {}
    BY WireAssumption
  <2> QED
    BY <1>1, <2>1, <2>2 DEF Starting, Sound, Allowed, InProgress, Ended
<1>2. CASE Refusing(b, s, out)
  <2>1. \A i \in Item : out[i] = "pending"
    BY <1>2 DEF Refusing, Sound, Allowed
  <2> QED
    BY <1>2, <2>1 DEF Refusing, Sound, Allowed, InProgress, Ended
<1>3. CASE Answering(b, s, out)
  <2>1. wire # "fixture" /\ s \in {"in_progress", "finalizing"} /\ s \in InProgress
    BY <1>3 DEF Answering, InProgress
  <2>2. PICK i \in Item, o \in {"ok", "error"} : out = [x.out EXCEPT ![i] = o]
    BY <1>3 DEF Answering
  <2>3. \A j \in Item : x.out[j] \in {"pending", "ok", "error"}
    BY <1>3, <2>1 DEF Answering, Sound, Allowed
  <2>4. x.out \in [Item -> Outcome]
    BY DEF Batch
  <2>5. \A j \in Item : out[j] \in {"pending", "ok", "error"}
    BY <2>2, <2>3, <2>4
  <2>6. CASE s = "in_progress" /\ \E j \in Item : out[j] = "pending"
    BY <2>1, <2>5, <2>6 DEF Sound, Allowed, InProgress, Ended
  <2>7. CASE wire \in {"openai", "openrouter"} /\ \A j \in Item : out[j] # "pending"
    <3>1. \A j \in Item : out[j] \in {"ok", "error"}
      BY <2>5, <2>7
    <3> QED
      BY <2>1, <2>7, <3>1 DEF Sound, Allowed, InProgress, Ended
  <2> QED
    BY <1>3, <2>6, <2>7 DEF Answering
<1>4. CASE Ending(b, s, out)
  <2>1. PICK rest \in [Of(x, {"pending"}) -> Closing(s)] :
          /\ wire = "anthropic" => \A i \in DOMAIN rest : rest[i] # "dropped"
          /\ out = [i \in Item |-> IF i \in DOMAIN rest THEN rest[i] ELSE x.out[i]]
    BY <1>4 DEF Ending
  <2>2. /\ s \in {"completed", "expired", "cancelled"}
        /\ wire = "fixture" => s = "completed"
        /\ x.status \in {"in_progress", "finalizing"}
    BY <1>4 DEF Ending, InProgress
  <2>3. \A i \in Item : x.out[i] \in IF wire = "fixture" THEN {"pending"}
                                       ELSE {"pending", "ok", "error"}
    BY <2>2 DEF Sound, Allowed, InProgress
  <2>4. ASSUME NEW i \in Item
        PROVE  out[i] \in Allowed(s)
    <3>1. CASE i \in Of(x, {"pending"})
      <4>1. out[i] = rest[i] /\ rest[i] \in Closing(s) /\ i \in DOMAIN rest
        BY <2>1, <3>1
      <4> QED
        BY <2>1, <2>2, <4>1 DEF Allowed, Closing, Outcome
    <3>2. CASE i \notin Of(x, {"pending"})
      <4>1. out[i] = x.out[i] /\ x.out[i] # "pending"
        BY <2>1, <3>2 DEF Of
      <4>2. out[i] \in {"ok", "error"} /\ wire # "fixture"
        BY <2>3, <4>1
      <4> QED
        BY <2>2, <4>2 DEF Allowed, Closing, Outcome
    <3> QED
      BY <3>1, <3>2
  <2> QED
    BY <2>2, <2>4 DEF Sound, InProgress, Ended
<1> QED
  BY <1>1, <1>2, <1>3, <1>4

\* Every step leaves every batch with the outcomes its status allows.
LEMMA ServerInvStep ==
  ASSUME TypeInv, ServerInv, [Next]_vars
  PROVE  ServerInv'
<1>a. BatchesKept /\ OneMore
  BY EveryBatchKept
<1>b. Len(batches) \in Nat /\ Len(batches') \in Nat
  BY <1>a DEF BatchesKept, TypeInv, TypeOK, ServerType
<1>c. \A x : Sound(x)' <=> Sound(x)
  BY WireKept DEF Sound, Allowed, Closing
<1>1. CASE Server
  <2>1. PICK b \in 1..Len(batches), s \in InProgress \cup Ended, out \in [Item -> Outcome] :
          Changing(b, s, out)
    BY <1>1, ServerStep DEF TypeInv
  <2>2. /\ Len(batches') = Len(batches)
        /\ batches'[b] = [batches[b] EXCEPT !.status = s, !.out = out]
        /\ \A a \in 1..Len(batches) : a # b => batches'[a] = batches[a]
    BY <2>1, ServerChanges DEF Changing, TypeInv
  <2>3. batches[b] \in Batch /\ Sound(batches[b])
    BY DEF TypeInv, TypeOK, ServerType, ServerInv
  <2>4. /\ batches'[b].own = batches[b].own
        /\ batches'[b].status = s /\ batches'[b].out = out
        /\ batches[b].status \in InProgress
    BY <2>1, <2>2, <2>3 DEF Batch, Changing, Live
  <2>5. Sound(batches'[b])
    BY <2>1, <2>3, <2>4, ChangeIsSound DEF Changing
  <2> QED
    BY <1>c, <2>2, <2>5 DEF ServerInv
<1>2. CASE ~Server
  <2>1. \A b \in 1..Len(batches) :
          batches'[b].status = batches[b].status /\ batches'[b].out = batches[b].out
    <3>1. CASE UNCHANGED batches
      BY <3>1
    <3>2. CASE OtherBatch
      BY <3>2, NewBatchType, AppendedBatch DEF OtherBatch, TypeInv
    <3>3. CASE Create \/ CreateUnanswered
      <4>1. PICK c : batches' = Append(batches, c)
        BY <3>3 DEF Create, CreateUnanswered, Creates
      <4> QED
        BY <4>1 DEF TypeInv, TypeOK, ServerType
    <3>4. CASE PollNotFound
      <4>1. ref \in 1..Len(batches) /\ batches[ref] \in Batch
        BY <3>4 DEF PollNotFound, TypeInv, TypeOK, ServerType, LoopType, HandInv, HoldPcs
      <4> QED
        BY <3>4, <4>1 DEF PollNotFound, Batch, TypeInv, TypeOK, ServerType
    <3> QED
      BY <1>2, <3>1, <3>2, <3>3, <3>4
      DEF Next, vars, Loop, Failure, Start, FindBatch, SubmitRefused, Upload, Record, PollAnswers,
          Fetch, ReadErrors, CloseWave, Yield, CallFails, Crash, PollRetries, PollGivesUp
  <2>2. ASSUME NEW b \in 1..Len(batches'), b \notin 1..Len(batches)
        PROVE  Sound(batches'[b])
    <3>1. batches'[b].status = "validating" /\ batches'[b].out = Pending
      BY <2>2, <1>a, <1>b DEF OneMore
    <3> QED
      BY <3>1, WireAssumption DEF Sound, Allowed, Pending, InProgress
  <2>3. \A b \in 1..Len(batches) : Sound(batches'[b])
    BY <2>1 DEF ServerInv, Sound
  <2> QED
    BY <1>c, <2>2, <2>3 DEF ServerInv
<1> QED
  BY <1>1, <1>2

\* The items that are answered are those answered well and those answered ill.
LEMMA AnsweredCount ==
  ASSUME NEW x \in Batch
  PROVE  Count(x, {"ok", "error"}) = Count(x, {"ok"}) + Count(x, {"error"})
<1>1. IsFiniteSet(Of(x, {"ok"})) /\ IsFiniteSet(Of(x, {"error"}))
  BY OfIsFinite
<1>2. Of(x, {"ok", "error"}) = Of(x, {"ok"}) \cup Of(x, {"error"})
  BY DEF Of
<1>3. Of(x, {"ok"}) \cap Of(x, {"error"}) = {}
  BY DEF Of
<1>4. Cardinality(Of(x, {"ok"}) \cup Of(x, {"error"})) =
        Cardinality(Of(x, {"ok"})) + Cardinality(Of(x, {"error"})) - Cardinality({})
  BY <1>1, <1>3, FS_Union
<1>5. Count(x, {"ok"}) \in Nat /\ Count(x, {"error"}) \in Nat
  BY OfIsFinite
<1>6. Cardinality({}) = 0
  BY FS_EmptySet
<1>7. Count(x, {"ok", "error"}) = Count(x, {"ok"}) + Count(x, {"error"}) - 0
  BY <1>2, <1>4, <1>6 DEF Count
<1> QED
  BY <1>5, <1>7

\* What a terminal status is a status of: a batch that ended, or one of a file
\* wire with no total yet or nothing left to answer.
LEMMA TerminalMeansEnded ==
  ASSUME wire \in Wires, NEW x \in Batch, Sound(x), NEW total \in Totals(x),
         NEW s, s = StatusOf(x, total), IsTerminal(s), x.status \in InProgress
  PROVE  /\ wire \in {"openai", "openrouter"}
         /\ s.batch_status = x.status
         /\ x.status = "validating" \/ s.completed + s.errored = Cardinality(Item)
<1>a. Cardinality(Item) \in Nat /\ Cardinality(Item) # 0
  BY OfIsFinite, WireAssumption, FS_EmptySet
<1>b. x.status \notin Ended
  BY DEF InProgress, Ended
<1>1. wire \in {"openai", "openrouter"}
  <2> SUFFICES ASSUME wire \notin {"openai", "openrouter"}
               PROVE  FALSE
    OBVIOUS
  <2>1. PICK i \in Item : x.out[i] = "pending"
    BY DEF Sound
  <2>2. i \in Of(x, {"pending"})
    BY <2>1 DEF Of
  <2>3. Count(x, {"pending"}) # 0
    BY <2>2, OfIsFinite
  <2> QED
    BY <2>3, <1>a, <1>b DEF IsTerminal, StatusOf, AnthropicStatus, FixtureStatus, NoCounts
<1>2. s = OpenAIStatus(x, total)
  BY <1>1 DEF StatusOf, OpenRouterStatus
<1>3. /\ s.batch_status = x.status
      /\ s.completed = Count(x, {"ok"})
      /\ s.processing = Remainder(x, total)
      /\ s.errored = Count(x, {"error"}) + 0
  BY <1>2, <1>b DEF OpenAIStatus
<1>4. ASSUME x.status # "validating"
      PROVE  s.completed + s.errored = Cardinality(Item)
  <2>1. total = Cardinality(Item)
    BY <1>4 DEF Totals, InProgress
  <2>2. /\ Count(x, {"ok", "error"}) \in Nat /\ Count(x, {"ok", "error"}) <= Cardinality(Item)
        /\ Count(x, {"ok"}) \in Nat /\ Count(x, {"error"}) \in Nat
    BY OfIsFinite
  <2>3. ~(Cardinality(Item) > Count(x, {"ok", "error"}))
    BY <1>a, <1>3, <2>1, <2>2 DEF IsTerminal, Remainder
  <2> QED
    BY <1>a, <1>3, <2>2, <2>3, AnsweredCount
<1> QED
  BY <1>1, <1>3, <1>4

\* What a batch may report.
Reports(x) == {StatusOf(x, total) : total \in Totals(x)}

\* What the loop fetches was counted out, or has ended and is booked.
BookInv ==
  Fetching => \/ CountedOut
              \/ batches[ref].status \in Ended /\ booked \in Reports(batches[ref])

\* A batch that ended reports the same for ever.
LEMMA EndedStays ==
  ASSUME TypeInv, [Next]_vars, NEW r \in 1..Len(batches), batches[r].status \in Ended
  PROVE  /\ batches'[r].status = batches[r].status
         /\ batches'[r].out = batches[r].out
         /\ Reports(batches[r])' = Reports(batches[r])
<1>1. batches'[r].status = batches[r].status /\ batches'[r].out = batches[r].out
  BY EveryBatchKept DEF BatchesKept, Kept
<1>2. \A S : Of(batches'[r], S) = Of(batches[r], S)
  BY <1>1 DEF Of
<1>3. \A S : Count(batches'[r], S) = Count(batches[r], S)
  BY <1>2 DEF Count
<1>4. \A t : Remainder(batches'[r], t) = Remainder(batches[r], t)
  BY <1>3 DEF Remainder
<1>5. wire' = wire
  BY WireKept
<1>6. \A t : StatusOf(batches[r], t)' = StatusOf(batches[r], t)
  BY <1>1, <1>3, <1>4, <1>5
  DEF StatusOf, AnthropicStatus, OpenAIStatus, OpenRouterStatus, FixtureStatus
<1>7. Totals(batches[r])' = Totals(batches[r])
  BY <1>1 DEF Totals
<1> QED
  BY <1>1, <1>6, <1>7 DEF Reports

\* The steps of a fetch, and those it does not notice.
LEMMA FetchSteps ==
  ASSUME [Next]_vars, Fetching'
  PROVE  \/ PollAnswers /\ pc' = "fetch"
         \/ /\ Fetching
            /\ UNCHANGED <<ref, booked>>
            /\ \/ UNCHANGED <<pc, page, results>>
               \/ Fetch
               \/ ReadErrors
               \/ \E i \in Item : Yield(i)
               \/ CloseWave
<1>1. CASE Server
  BY <1>1 DEF Fetching, Server, ServerStarts, ServerRefuses, ServerAnswers, ServerEnds, ServerSets
<1>2. CASE OtherBatch \/ UNCHANGED vars
  BY <1>2 DEF Fetching, OtherBatch, vars
<1>3. CASE Failure
  BY <1>3 DEF Fetching, Failure, CreateUnanswered, CallFails, Crash, PollRetries, PollGivesUp,
              Leave
<1>4. CASE Loop
  BY <1>4 DEF Fetching, Loop, Start, FindBatch, SubmitRefused, Upload, Create, Record,
              PollAnswers, PollNotFound, Fetch, ReadErrors, CloseWave, Yield, Leave
<1> QED
  BY <1>1, <1>2, <1>3, <1>4 DEF Next

\* Every step keeps what is fetched counted out, or ended and booked.
LEMMA BookStep ==
  ASSUME TypeInv, ServerInv, BookInv, [Next]_vars
  PROVE  BookInv'
<1>a. wire' = wire
  BY WireKept
<1> SUFFICES ASSUME Fetching'
             PROVE  \/ CountedOut'
                    \/ (batches[ref].status \in Ended /\ booked \in Reports(batches[ref]))'
  BY DEF BookInv
<1>1. CASE PollAnswers /\ pc' = "fetch"
  <2>1. UNCHANGED <<batches, ref, wire>> /\ pc = "poll"
    BY <1>1 DEF PollAnswers
  <2>2. PICK total \in Totals(batches[ref]) :
          booked' = StatusOf(batches[ref], total) /\ IsTerminal(booked')
    BY <1>1, <2>1 DEF PollAnswers
  <2>3. ref \in 1..Len(batches)
    BY <2>1 DEF TypeInv, TypeOK, ServerType, LoopType, HandInv, HoldPcs
  <2>4. batches[ref] \in Batch /\ Sound(batches[ref]) /\ wire \in Wires
    BY <2>3 DEF TypeInv, TypeOK, ServerType, ServerInv
  <2>5. CASE batches[ref].status \in Ended
    <3>1. Reports(batches[ref])' = Reports(batches[ref])
      BY <2>1, <2>3, <2>5, EndedStays
    <3> QED
      BY <2>1, <2>2, <2>5, <3>1 DEF Reports
  <2>6. CASE batches[ref].status \in InProgress
    <3>1. /\ wire \in {"openai", "openrouter"}
          /\ booked'.batch_status = batches[ref].status
          /\ \/ batches[ref].status = "validating"
             \/ booked'.completed + booked'.errored = Cardinality(Item)
      BY <2>2, <2>4, <2>6, TerminalMeansEnded
    <3> QED
      BY <2>1, <2>6, <3>1 DEF CountedOut
  <2> QED
    BY <2>4, <2>5, <2>6 DEF Batch
<1>2. CASE Fetching /\ UNCHANGED <<ref, booked>>
  <2>1. ref \in 1..Len(batches)
    BY <1>2 DEF Fetching, TypeInv, TypeOK, ServerType, LoopType, HandInv, HoldPcs
  <2>2. CASE CountedOut
    BY <1>a, <1>2, <2>2 DEF CountedOut
  <2>3. CASE batches[ref].status \in Ended /\ booked \in Reports(batches[ref])
    BY <1>2, <2>1, <2>3, EndedStays
  <2> QED
    BY <1>2, <2>2, <2>3 DEF BookInv
<1> QED
  BY <1>1, <1>2, FetchSteps

\* The loop and the server it polls.
PolledInv == TypeInv /\ ServerInv /\ BookInv

\* Nothing is fetched at first.
LEMMA PolledInit == Init => PolledInv
<1> SUFFICES ASSUME Init PROVE PolledInv
  OBVIOUS
<1>1. ServerInv /\ BookInv
  BY DEF Init, ServerInv, BookInv, Fetching
<1> QED
  BY <1>1, TypeInit DEF PolledInv

\* Every step keeps the invariant of loop and server.
LEMMA PolledStep == PolledInv /\ [Next]_vars => PolledInv'
  BY TypeStep, ServerInvStep, BookStep DEF PolledInv

-----------------------------------------------------------------------------
(* A completed wave has lost no item.                                      *)

\* From the poll on the ref at hand is the one on record, and what openrouter
\* keeps of a terminal poll is the batch of that ref.
RefInv ==
  /\ pc \in {"find", "submit", "create", "record"} => recorded = 0
  /\ pc = "poll" \/ Fetching => ref = recorded
  /\ lastGet.status \in Ended =>
       /\ recorded # 0
       /\ lastGet.status = batches[recorded].status
       /\ lastGet.out = batches[recorded].out

Has(i) == results[i] = Mapped(batches[ref].out[i])

\* What is on record, or on a page, was read from a batch that had ended.
FoundInv ==
  /\ (\E i \in Item : results[i] # "none") =>
       recorded # 0 /\ batches[recorded].status \in Ended
  /\ page # {} => pc \in {"output", "errors"} /\ batches[ref].status \in Ended

\* The fetch of a batch that was counted out found nothing.
Missed == CountedOut /\ page = {} /\ \A i \in Item : results[i] = "none"

\* What the files read so far list is on the page or on record, or fetch came
\* too early for any of it.
ReadInv ==
  /\ pc = "output" =>
       /\ wire = "openai"
       /\ batches[ref].status \in Ended
       /\ \A i \in Item : batches[ref].out[i] = "ok" => i \in page \/ Has(i)
  /\ pc \in {"errors", "done"} =>
       \/ Missed
       \/ /\ batches[ref].status \in Ended
          /\ batches[ref].status \in Reporting => \A i \in Item : i \in page \/ Has(i)

\* No step confuses the ref on record with another.
LEMMA RefStep ==
  ASSUME TypeInv, RefInv, [Next]_vars
  PROVE  RefInv'
<1>a. \A r \in 1..Len(batches) : batches[r].status \in Ended =>
        batches'[r].status = batches[r].status /\ batches'[r].out = batches[r].out
  BY EndedStays
<1>b. lastGet.status \in Ended => recorded \in 1..Len(batches)
  BY DEF RefInv, TypeInv, TypeOK, LogType, ServerType
<1>c. NoBody.status \notin Ended
  BY DEF NoBody, Ended
<1>1. CASE UNCHANGED <<pc, ref, recorded, lastGet>>
  BY <1>1, <1>a, <1>b DEF RefInv, Fetching
<1>2. CASE Start
  BY <1>2 DEF Start, RefInv, Fetching
<1>3. CASE FindBatch \/ Upload \/ Create \/ SubmitRefused \/ CreateUnanswered \/ CallFails
           \/ PollNotFound \/ \E e \in Error : PollGivesUp(e)
  <2>1. /\ UNCHANGED <<recorded, lastGet>>
        /\ ~(pc' = "poll" \/ Fetching') \/ UNCHANGED <<pc, ref>>
    BY <1>3 DEF FindBatch, Upload, Create, Creates, SubmitRefused, CreateUnanswered, CallFails,
                PollNotFound, PollGivesUp, PollFails, Leave, Fetching
  <2>2. pc' \in {"find", "submit", "create", "record"} => recorded = 0
    BY <1>3, <2>1 DEF FindBatch, Upload, Create, Creates, SubmitRefused, CreateUnanswered,
                CallFails, PollNotFound, PollGivesUp, PollFails, Leave, RefInv
  <2> QED
    BY <2>1, <2>2, <1>a, <1>b DEF RefInv, Fetching
<1>4. CASE Record
  BY <1>4, <1>c DEF Record, RefInv, Fetching
<1>5. CASE PollAnswers
  BY <1>5, <1>a, <1>b, <1>c DEF PollAnswers, Seen, RefInv, Fetching, TypeInv, HandInv, HoldPcs
<1>6. CASE Fetch
  BY <1>6, <1>a, <1>b, <1>c
  DEF Fetch, InlineBody, Seen, RefInv, Fetching, TypeInv, HandInv, HoldPcs
<1>7. CASE ReadErrors \/ CloseWave
  BY <1>7, <1>a, <1>b DEF ReadErrors, CloseWave, RefInv, Fetching
<1>8. CASE Crash
  BY <1>8, <1>c DEF Crash, Leave, RefInv, Fetching
<1>9. CASE Server \/ OtherBatch \/ (\E i \in Item : Yield(i)) \/ (\E e \in Error : PollRetries(e))
  <2>1. UNCHANGED <<pc, ref, recorded, lastGet>>
    BY <1>9 DEF Server, ServerStarts, ServerRefuses, ServerAnswers, ServerEnds, ServerSets,
                OtherBatch, Yield, PollRetries
  <2> QED
    BY <2>1, <1>1
<1> QED
  BY <1>1, <1>2, <1>3, <1>4, <1>5, <1>6, <1>7, <1>8, <1>9 DEF Next, Loop, Failure, vars

\* What fetch reads first: openai's answers, and all a reporting batch holds elsewhere.
LEMMA FirstPage ==
  ASSUME TypeInv, ServerInv, RefInv, Fetch, batches[ref].status \in Ended
  PROVE  /\ wire = "openai" => page' = Of(batches[ref], {"ok"})
         /\ wire # "openai" /\ batches[ref].status \in Reporting => page' = Item
<1>1. ref \in 1..Len(batches) /\ ref = recorded
  BY DEF Fetch, Fetching, RefInv, TypeInv, TypeOK, ServerType, LoopType, HandInv, HoldPcs
<1>2. Sound(batches[ref]) /\ batches[ref] \in Batch /\ wire \in Wires
  BY <1>1 DEF ServerInv, TypeInv, TypeOK, ServerType
<1>3. ASSUME wire = "openai"
      PROVE  page' = Of(batches[ref], {"ok"})
  BY <1>3 DEF Fetch, OutputFile, HasFiles
<1>4. ASSUME wire = "openrouter", batches[ref].status \in Reporting
      PROVE  page' = Item
  <2>1. batches[ref].status = "completed"
    BY <1>4 DEF Reporting
  <2>2. InlineBody.status = "completed" /\ InlineBody.out = batches[ref].out
    BY <1>1, <2>1 DEF InlineBody, RefInv
  <2>3. \A i \in Item : batches[ref].out[i] \in {"ok", "error"}
    BY <1>2, <1>4, <2>1 DEF Sound, Allowed, Closing
  <2>4. Inline = Item
    BY <2>2, <2>3 DEF Inline, Of
  <2> QED
    BY <1>4, <2>4 DEF Fetch
<1>5. ASSUME wire \in {"anthropic", "fixture"}
      PROVE  page' = Item
  <2>1. \A i \in Item : batches[ref].out[i] \in Outcome \ {"pending", "dropped"}
    BY <1>1, <1>2, <1>5 DEF Sound, Allowed, Closing, Ended, InProgress, Outcome
  <2>2. Stream = Item
    BY <2>1 DEF Stream, Of
  <2> QED
    BY <1>5, <2>2 DEF Fetch
<1> QED
  BY <1>2, <1>3, <1>4, <1>5, WireAssumption

\* What fetch finds of a batch that has not ended: nothing.
LEMMA TooEarly ==
  ASSUME TypeInv, BookInv, RefInv, Fetch, batches[ref].status \notin Ended
  PROVE  CountedOut /\ page' = {} /\ pc' = "errors"
<1>1. ref = recorded
  BY DEF Fetch, Fetching, RefInv
<1>2. CountedOut
  BY DEF Fetch, Fetching, BookInv
<1>3. OutputFile = {} /\ ~HasFiles
  BY DEF OutputFile, HasFiles
<1>4. lastGet.status \notin Ended
  BY <1>1 DEF RefInv
<1>5. Inline = {}
  BY <1>4 DEF Inline, InlineBody, Ended
<1> QED
  BY <1>2, <1>3, <1>5 DEF Fetch, CountedOut

\* Nothing comes on record, or on a page, but from a batch that has ended.
LEMMA FoundStep ==
  ASSUME TypeInv, BookInv, RefInv, FoundInv, ReadInv, [Next]_vars
  PROVE  FoundInv'
<1>a. \A r \in 1..Len(batches) : batches[r].status \in Ended =>
        batches'[r].status = batches[r].status
  BY EndedStays
<1>b. /\ recorded # 0 => recorded \in 1..Len(batches)
      /\ pc \in HoldPcs => ref \in 1..Len(batches)
  BY DEF TypeInv, TypeOK, LogType, LoopType, ServerType, HandInv
<1>c. page # {} => ref \in 1..Len(batches)
  BY <1>b DEF FoundInv, HoldPcs
<1>1. CASE UNCHANGED <<results, recorded>> /\ (page' = {} \/ UNCHANGED <<page, pc, ref>>)
  BY <1>1, <1>a, <1>b, <1>c DEF FoundInv
<1>2. CASE Start \/ FindBatch \/ Upload \/ Create \/ PollAnswers
  <2>1. UNCHANGED <<results, recorded, page>> /\ pc \notin {"output", "errors"}
    BY <1>2 DEF Start, FindBatch, Upload, Create, Creates, PollAnswers
  <2>2. page' = {}
    BY <2>1 DEF FoundInv
  <2> QED
    BY <2>1, <2>2, <1>1
<1>3. CASE SubmitRefused \/ PollNotFound \/ CloseWave \/ Failure
  <2>1. /\ UNCHANGED <<results, recorded>>
        /\ page' = {} \/ UNCHANGED <<page, pc, ref>>
    BY <1>3 DEF SubmitRefused, PollNotFound, CloseWave, Failure, CreateUnanswered, Creates,
                CallFails, Crash, PollRetries, PollGivesUp, PollFails, Fault, Leave
  <2> QED
    BY <2>1, <1>1
<1>4. CASE Record
  BY <1>4 DEF Record, RefInv, FoundInv
<1>5. CASE Fetch
  <2>1. CASE batches[ref].status \in Ended
    <3>1. UNCHANGED <<results, recorded, ref, batches>> /\ pc' \in {"output", "errors"}
      BY <1>5 DEF Fetch
    <3> QED
      BY <2>1, <3>1 DEF FoundInv
  <2>2. CASE batches[ref].status \notin Ended
    <3>1. page' = {}
      BY <1>5, <2>2, TooEarly
    <3> QED
      BY <1>5, <3>1, <1>1 DEF Fetch
  <2> QED
    BY <2>1, <2>2
<1>6. CASE ReadErrors
  BY <1>6 DEF ReadErrors, FoundInv, ReadInv
<1>7. ASSUME NEW i \in Item, Yield(i)
      PROVE  FoundInv'
  <2>1. batches[ref].status \in Ended /\ recorded = ref /\ ref # 0
    BY <1>7 DEF Yield, FoundInv, RefInv, Fetching, TypeInv, HandInv, HoldPcs
  <2> QED
    BY <1>7, <2>1 DEF Yield, FoundInv
<1>8. CASE Server \/ OtherBatch \/ UNCHANGED vars
  <2>1. UNCHANGED <<results, recorded, page, pc, ref>>
    BY <1>8 DEF Server, ServerStarts, ServerRefuses, ServerAnswers, ServerEnds, ServerSets,
                OtherBatch, vars
  <2> QED
    BY <2>1, <1>1
<1> QED
  BY <1>2, <1>3, <1>4, <1>5, <1>6, <1>7, <1>8 DEF Next, Loop

\* No read of fetch passes over an item of a reporting batch.
LEMMA ReadStep ==
  ASSUME TypeInv, ServerInv, BookInv, RefInv, FoundInv, ReadInv, [Next]_vars
  PROVE  ReadInv'
<1>a. wire' = wire
  BY WireKept
<1>b. Reporting' = Reporting /\ \A o : Mapped(o)' = Mapped(o)
  BY <1>a DEF Reporting, Mapped, AnthropicResult, ErrorLine, OutputLine
<1>c. CASE ~Fetching'
  BY <1>c DEF ReadInv, Fetching
<1>d. CASE PollAnswers /\ pc' = "fetch"
  BY <1>d DEF ReadInv
<1>e. ASSUME Fetching, UNCHANGED <<ref, booked>>, batches[ref].status \in Ended
      PROVE  /\ batches'[ref'].status = batches[ref].status
             /\ batches'[ref'].out = batches[ref].out
  <2>1. ref \in 1..Len(batches)
    BY <1>e DEF Fetching, TypeInv, TypeOK, ServerType, LoopType, HandInv, HoldPcs
  <2> QED
    BY <1>e, <2>1, EndedStays
<1>f. UNCHANGED booked => (CountedOut' <=> CountedOut)
  BY <1>a DEF CountedOut
<1>1. CASE Fetching /\ UNCHANGED <<ref, booked, pc, page, results>>
  <2>1. CASE batches[ref].status \in Ended
    <3>1. \A i : Has(i)' <=> Has(i)
      BY <1>1, <1>b, <1>e, <2>1 DEF Has
    <3> QED
      BY <1>1, <1>a, <1>b, <1>e, <1>f, <2>1, <3>1 DEF ReadInv, Missed
  <2>2. CASE batches[ref].status \notin Ended
    <3>1. pc # "output" /\ (pc \in {"errors", "done"} => Missed)
      BY <2>2 DEF ReadInv
    <3> QED
      BY <1>1, <1>f, <3>1 DEF ReadInv, Missed
  <2> QED
    BY <2>1, <2>2
<1>2. CASE Fetch
  <2>0. UNCHANGED <<batches, ref, recorded, results, booked>>
    BY <1>2 DEF Fetch
  <2>1. CASE batches[ref].status \in Ended
    <3>1. /\ wire = "openai" => page' = Of(batches[ref], {"ok"})
          /\ wire # "openai" /\ batches[ref].status \in Reporting => page' = Item
      BY <1>2, <2>1, FirstPage
    <3>2. pc' = IF wire = "openai" THEN "output" ELSE "errors"
      BY <1>2, <2>1 DEF Fetch, HasFiles
    <3> QED
      BY <2>0, <2>1, <3>1, <3>2, <1>a, <1>b DEF ReadInv, Of
  <2>2. CASE batches[ref].status \notin Ended
    <3>1. CountedOut /\ page' = {} /\ pc' = "errors"
      BY <1>2, <2>2, TooEarly
    <3>2. ref = recorded
      BY <1>2 DEF Fetch, Fetching, RefInv
    <3>3. \A i \in Item : results[i] = "none"
      BY <2>2, <3>2 DEF FoundInv
    <3> QED
      BY <2>0, <3>1, <3>3, <1>f DEF ReadInv, Missed
  <2> QED
    BY <2>1, <2>2
<1>3. CASE ReadErrors
  <2>1. /\ UNCHANGED <<batches, ref, results>>
        /\ pc' = "errors" /\ pc = "output" /\ page = {} /\ page' = ErrorFile
    BY <1>3 DEF ReadErrors
  <2>2. /\ wire = "openai" /\ batches[ref].status \in Ended
        /\ \A i \in Item : batches[ref].out[i] = "ok" => Has(i)
    BY <2>1 DEF ReadInv
  <2>3. ref \in 1..Len(batches)
    BY <2>1 DEF TypeInv, TypeOK, ServerType, LoopType, HandInv, HoldPcs
  <2>4. Sound(batches[ref])
    BY <2>3 DEF ServerInv
  <2>5. ASSUME batches[ref].status \in Reporting, NEW i \in Item
        PROVE  i \in page' \/ Has(i)
    <3>1. batches[ref].out[i] \in {"ok", "error", "expired"}
      BY <2>2, <2>4, <2>5 DEF Sound, Allowed, Closing, Reporting
    <3> QED
      BY <2>1, <2>2, <3>1 DEF ErrorFile, Of
  <2>6. \A i : Has(i)' <=> Has(i)
    BY <2>1, <1>b DEF Has
  <2> QED
    BY <2>1, <2>2, <2>5, <2>6, <1>b DEF ReadInv
<1>4. ASSUME NEW i \in Item, Yield(i)
      PROVE  ReadInv'
  <2>1. /\ UNCHANGED <<batches, ref, pc>> /\ page' = page \ {i}
        /\ results' = [results EXCEPT ![i] = Mapped(batches[ref].out[i])]
        /\ pc \in {"output", "errors"} /\ page # {}
    BY <1>4 DEF Yield
  <2>2. results \in [Item -> ItemStatus \cup {"none"}]
    BY DEF TypeInv, TypeOK, LogType
  <2>3. Has(i)' /\ \A j \in Item : Has(j) => Has(j)'
    BY <2>1, <2>2, <1>b DEF Has
  <2> QED
    BY <2>1, <2>3, <1>a, <1>b DEF ReadInv, Missed
<1>5. CASE CloseWave
  <2>1. \A i : Has(i)' <=> Has(i)
    BY <1>5, <1>b DEF CloseWave, Has
  <2> QED
    BY <1>5, <2>1, <1>b, <1>f DEF CloseWave, ReadInv, Missed
<1> QED
  BY <1>c, <1>d, <1>1, <1>2, <1>3, <1>4, <1>5, FetchSteps

\* A status and the results it announced add up alike.
LEMMA TallyAgrees ==
  ASSUME wire \in Wires, NEW x \in Batch, Sound(x), x.status \in Ended,
         x.status \in Reporting, \A i \in Item : results[i] = Mapped(x.out[i]),
         booked \in Reports(x)
  PROVE  AddsUp
<1> DEFINE N(s) == Cardinality({i \in Item : results[i] = s})
<1>0. PICK total \in Totals(x) : booked = StatusOf(x, total)
  BY DEF Reports
<1>1. SUFFICES /\ booked.completed = N("completed")
               /\ booked.errored = N("errored")
               /\ booked.expired = N("expired")
  BY DEF AddsUp, ItemStatus
<1>2. \A s, S : (\A i \in Item : results[i] = s <=> x.out[i] \in S) => N(s) = Count(x, S)
  <2> SUFFICES ASSUME NEW s, NEW S, \A i \in Item : results[i] = s <=> x.out[i] \in S
               PROVE  N(s) = Count(x, S)
    OBVIOUS
  <2>1. {i \in Item : results[i] = s} = Of(x, S)
    BY DEF Of
  <2> QED
    BY <2>1 DEF Count
<1> HIDE DEF N
<1>3. \A S : (\A i \in Item : x.out[i] \notin S) => Count(x, S) = 0
  <2> SUFFICES ASSUME NEW S, \A i \in Item : x.out[i] \notin S
               PROVE  Count(x, S) = 0
    OBVIOUS
  <2>1. Of(x, S) = {}
    BY DEF Of
  <2> QED
    BY <2>1, OfIsFinite
<1>4. Cardinality(Item) \in Nat /\ \A S : Count(x, S) \in Nat
  BY OfIsFinite
<1>5. x.out \in [Item -> Outcome]
  BY DEF Batch
<1>6. CASE wire = "anthropic"
  <2>1. \A i \in Item : x.out[i] \in Outcome \ {"pending", "dropped"}
    BY <1>6 DEF Sound, Allowed, Closing, Ended, InProgress, Outcome
  <2>2. \A i \in Item : results[i] = AnthropicResult(x.out[i])
    BY <1>6 DEF Mapped
  <2>3. N("completed") = Count(x, {"ok"})
    BY <1>2, <2>1, <2>2 DEF AnthropicResult, Outcome
  <2>4. N("errored") = Count(x, {"error", "canceled"})
    BY <1>2, <2>1, <2>2 DEF AnthropicResult, Outcome
  <2>5. N("expired") = Count(x, {"expired"})
    BY <1>2, <2>1, <2>2 DEF AnthropicResult, Outcome
  <2> QED
    BY <1>0, <1>6, <2>3, <2>4, <2>5 DEF StatusOf, AnthropicStatus
<1>7. CASE wire = "fixture"
  <2>1. \A i \in Item : x.out[i] = "ok"
    BY <1>7 DEF Sound, Allowed, Closing, Ended, InProgress
  <2>2. \A i \in Item : results[i] = "completed"
    BY <1>7, <2>1 DEF Mapped, OutputLine
  <2>3. N("completed") = Count(x, {"ok"})
    BY <1>2, <2>1, <2>2
  <2>4. N("errored") = Count(x, {"error"}) /\ N("expired") = Count(x, {"expired"})
    BY <1>2, <2>1, <2>2
  <2>5. Count(x, {"error"}) = 0 /\ Count(x, {"expired"}) = 0
    BY <1>3, <2>1
  <2>6. Of(x, {"ok"}) = Item
    BY <2>1 DEF Of
  <2>7. Count(x, {"ok"}) = Cardinality(Item)
    BY <2>6 DEF Count
  <2> QED
    BY <1>0, <1>7, <2>3, <2>4, <2>5, <2>7 DEF StatusOf, FixtureStatus, NoCounts
<1>8. CASE wire \in {"openai", "openrouter"}
  <2>1. /\ x.status \in {"completed", "expired"}
        /\ \A i \in Item : x.out[i] \in {"ok", "error", "expired"}
        /\ x.status = "completed" => \A i \in Item : x.out[i] # "expired"
        /\ wire = "openrouter" => x.status = "completed"
    BY <1>8 DEF Sound, Allowed, Closing, Reporting
  <2>2. \A i \in Item : /\ results[i] = "completed" <=> x.out[i] \in {"ok"}
                        /\ results[i] = "errored" <=> x.out[i] \in {"error"}
                        /\ results[i] = "expired" <=> x.out[i] \in {"expired"}
    BY <1>8, <2>1 DEF Mapped, OutputLine, ErrorLine
  <2>3. /\ N("completed") = Count(x, {"ok"})
        /\ N("errored") = Count(x, {"error"})
        /\ N("expired") = Count(x, {"expired"})
    BY <1>2, <2>2
  <2>4. total = Cardinality(Item)
    BY <2>1 DEF Totals
  <2>5. Item \ Of(x, {"ok", "error"}) = Of(x, {"expired"})
        /\ Item \cap Of(x, {"ok", "error"}) = Of(x, {"ok", "error"})
    BY <2>1 DEF Of
  <2>6. Count(x, {"expired"}) = Cardinality(Item) - Count(x, {"ok", "error"})
    BY <2>5, FS_Difference, WireAssumption DEF Count
  <2>7. Remainder(x, total) = Count(x, {"expired"})
    BY <1>4, <2>4, <2>6 DEF Remainder
  <2>8. x.status = "completed" => Count(x, {"expired"}) = 0
    BY <1>3, <2>1
  <2>9. booked = OpenAIStatus(x, total)
    BY <1>0, <1>8 DEF StatusOf, OpenRouterStatus
  <2> QED
    BY <1>4, <2>1, <2>3, <2>7, <2>8, <2>9 DEF OpenAIStatus, Ended, InProgress
<1> QED
  BY <1>6, <1>7, <1>8, WireAssumption

\* The whole invariant of a wave that loses no item, or all.
WholeInv == PolledInv /\ RefInv /\ FoundInv /\ ReadInv

\* Nothing is read at first.
LEMMA WholeInit == Init => WholeInv
<1> SUFFICES ASSUME Init PROVE WholeInv
  OBVIOUS
<1>1. RefInv /\ FoundInv /\ ReadInv
  BY DEF Init, RefInv, FoundInv, ReadInv, Fetching, NoBody, Ended
<1> QED
  BY <1>1, PolledInit DEF WholeInv

\* Every step keeps the whole invariant.
LEMMA WholeStep == WholeInv /\ [Next]_vars => WholeInv'
  BY PolledStep, RefStep, FoundStep, ReadStep DEF WholeInv, PolledInv

\* The invariant makes a completed wave whole, or one that was fetched too early.
LEMMA WholeIsWhole ==
  ASSUME WholeInv
  PROVE  WaveIsWhole
<1> SUFFICES ASSUME pc = "done", batches[ref].status \in Reporting,
                    ~(CountedOut /\ \A i \in Item : results[i] = "none")
             PROVE  /\ \A i \in Item : results[i] = Mapped(batches[ref].out[i])
                    /\ booked.batch_status \in Ended => AddsUp
  BY DEF WaveIsWhole
<1>1. ref \in 1..Len(batches)
  BY DEF WholeInv, PolledInv, TypeInv, TypeOK, ServerType, LoopType, HandInv, HoldPcs
<1>2. batches[ref] \in Batch /\ Sound(batches[ref]) /\ wire \in Wires
  BY <1>1 DEF WholeInv, PolledInv, TypeInv, TypeOK, ServerType, ServerInv
<1>3. batches[ref].status \in Ended /\ \A i \in Item : Has(i)
  BY DEF WholeInv, FoundInv, ReadInv, Missed
<1>4. \A i \in Item : results[i] = Mapped(batches[ref].out[i])
  BY <1>3 DEF Has
<1>5. ASSUME booked.batch_status \in Ended
      PROVE  AddsUp
  <2>1. ~CountedOut
    BY <1>5 DEF CountedOut, InProgress, Ended
  <2>2. booked \in Reports(batches[ref])
    BY <2>1 DEF WholeInv, PolledInv, BookInv, Fetching
  <2> QED
    BY <1>2, <1>3, <1>4, <2>2, TallyAgrees
<1> QED
  BY <1>4, <1>5

(***************************************************************************)
(* WAVE_COMPLETED finds every item of a reporting batch on record with its *)
(* own outcome, and the record adds up to the counts of the last poll, for *)
(* any number of items, crashes in mid-fetch and failed reads; but for a   *)
(* file wire that counted the batch out too early, where it finds none.    *)
(***************************************************************************)
THEOREM NoItemLost == Spec => []WaveIsWhole
<1>1. WholeInv => WaveIsWhole
  BY WholeIsWhole
<1> QED
  BY <1>1, WholeInit, WholeStep, PTL DEF Spec
=============================================================================
