----------------------------- MODULE BatchWire -----------------------------
(***************************************************************************)
(* One wave on its way through a batch adapter of lazycode/providers/ (or  *)
(* the fixture adapter of cli/mock_provider.py): submit, find_batch, poll  *)
(* and fetch, driven by the poll loop of scheduler/orchestrator.py.  Where *)
(* WaveLoop takes the provider as one step, every remote call is a step of *)
(* its own here, with the errors it may end in and crashes between two.    *)
(*                                                                         *)
(* The server is external: a sequence of batches, oldest first, and of     *)
(* each what the adapters read of it (status, counts, files, results).     *)
(***************************************************************************)
EXTENDS Naturals, FiniteSets, Sequences

CONSTANTS
  Wires,       \* the adapters a behaviour may run on
  Item,        \* the calls of the wave
  ScanLimit,   \* _FIND_BATCH_SCAN_LIMIT
  Tolerance,   \* _NOTFOUND_TOLERANCE
  MaxLag,      \* bound: GETs that answer 404 before a new batch is visible
  MaxOthers,   \* bound: batches of other jobs on the account
  MaxFaults,   \* bound: remote calls that fail
  MaxCrashes   \* bound: crashes in a behaviour

ASSUME WireAssumption ==
  /\ Wires \subseteq {"anthropic", "openai", "openrouter", "fixture"}
  /\ IsFiniteSet(Item) /\ Item # {}
  /\ ScanLimit \in Nat /\ Tolerance \in Nat /\ MaxLag \in Nat
  /\ MaxOthers \in Nat /\ MaxFaults \in Nat /\ MaxCrashes \in Nat

VARIABLES
  wire,      \* the adapter at hand
  fits,      \* the wave is within caps.max_items and caps.max_bytes
  batches,   \* the server: every batch on the account
  formed,    \* the log: WAVE_FORMED
  recorded,  \* the log: the batch ref of WAVE_SUBMITTED, 0 when there is none
  results,   \* the log: the last ITEM_RETURNED status of every item
  closed,    \* the log: WAVE_COMPLETED
  pc,        \* where the loop stands
  ref,       \* the batch ref at hand, 0 when there is none
  booked,    \* the BatchStatus of the poll that ended the loop
  page,      \* items of the result page at hand that fetch has not yielded
  lastGet,   \* openrouter: _last_get, the batch as the last GET saw it
  streak,    \* openrouter: _notfound, consecutive 404s
  faults,
  crashes

log == <<formed, recorded, results, closed>>
adapter == <<lastGet, streak>>
loop == <<pc, ref, booked, page>>
bounds == <<faults, crashes>>
vars == <<wire, fits, batches, log, adapter, loop, bounds>>

-----------------------------------------------------------------------------
InProgress == {"validating", "in_progress", "finalizing"}
Ended == {"completed", "expired", "cancelled", "failed"}

\* "dropped" is an item of a cancelled batch that no result file lists.
Outcome == {"pending", "ok", "error", "expired", "canceled", "dropped"}

\* keyed: the provider hands back the key the batch was created with.
Batch == [own : BOOLEAN, keyed : BOOLEAN, lag : 0..MaxLag,
          status : InProgress \cup Ended, out : [Item -> Outcome]]
Pending == [i \in Item |-> "pending"]
NoBody == [own |-> FALSE, keyed |-> FALSE, lag |-> 0, status |-> "validating",
           out |-> Pending]

ItemStatus == {"completed", "errored", "expired"}
Counts == [batch_status : InProgress \cup Ended, completed : Nat, errored : Nat,
           expired : Nat, processing : Nat]
NoCounts == [batch_status |-> "validating", completed |-> 0, errored |-> 0,
             expired |-> 0, processing |-> 0]

Of(b, S) == {i \in Item : b.out[i] \in S}
Count(b, S) == Cardinality(Of(b, S))

\* request_counts.total: there may be none as long as the input file is not
\* accepted.
Totals(b) ==
  IF b.status \in {"validating", "failed"} THEN {0, Cardinality(Item)}
                                          ELSE {Cardinality(Item)}

\* max(0, total - completed - failed)
Remainder(b, total) ==
  LET done == Count(b, {"ok", "error"})
  IN  IF total > done THEN total - done ELSE 0

\* anthropic: request_counts has it all; canceled folds into errored.
AnthropicStatus(b) ==
  [batch_status |-> b.status,
   completed    |-> Count(b, {"ok"}),
   errored      |-> Count(b, {"error", "canceled"}),
   expired      |-> Count(b, {"expired"}),
   processing   |-> Count(b, {"pending"})]

\* openai: the remainder is booked by the status of the batch.
OpenAIStatus(b, total) ==
  LET rest == Remainder(b, total)
  IN  [batch_status |-> b.status,
       completed    |-> Count(b, {"ok"}),
       errored      |-> Count(b, {"error"}) +
                        IF b.status \in Ended \ {"expired"} THEN rest ELSE 0,
       expired      |-> IF b.status = "expired" THEN rest ELSE 0,
       processing   |-> IF b.status \in InProgress THEN rest ELSE 0]

\* openrouter: the same arithmetic on the same counters.
OpenRouterStatus(b, total) == OpenAIStatus(b, total)

\* fixture: everything is processing until the poll delays are used up.
FixtureStatus(b) ==
  LET n == Cardinality(Item)
      counts == [NoCounts EXCEPT !.batch_status = b.status]
  IN  IF b.status \in Ended THEN [counts EXCEPT !.completed = n]
                            ELSE [counts EXCEPT !.processing = n]

\* What poll makes of batch b when its counts add up to total.
StatusOf(b, total) ==
  CASE wire = "anthropic"  -> AnthropicStatus(b)
    [] wire = "openai"     -> OpenAIStatus(b, total)
    [] wire = "openrouter" -> OpenRouterStatus(b, total)
    [] OTHER               -> FixtureStatus(b)

\* BatchStatus.is_terminal.
\* Mutants: a poll is terminal once anything has completed; only when nothing
\* went wrong.
IsTerminal_AnyDone(s) == s.processing = 0 \/ s.completed > 0
IsTerminal_AllGood(s) == s.processing = 0 /\ s.errored = 0 /\ s.expired = 0

IsTerminal(s) == s.processing = 0

\* _map_item_result: canceled has no ItemStatus of its own.
AnthropicResult(o) ==
  CASE o = "ok"      -> "completed"
    [] o = "expired" -> "expired"
    [] OTHER         -> "errored"

\* _map_output_line, and openrouter's _map_result: a response, or an error.
OutputLine(o) == IF o = "ok" THEN "completed" ELSE "errored"

\* _map_error_line: batch_expired is the one code that is no error.
ErrorLine(o) == IF o = "expired" THEN "expired" ELSE "errored"

\* Mutant: what is neither answered nor expired keeps the server's word for it.
Mapped_Unfolded(o) == IF o = "ok" THEN "completed" ELSE o

\* The ItemStatus of an outcome that is read from the wire.
Mapped(o) ==
  CASE wire = "anthropic"            -> AnthropicResult(o)
    [] wire = "openai" /\ o # "ok"   -> ErrorLine(o)
    [] OTHER                         -> OutputLine(o)

\* The payload of an item with that status, the response body as it came: a
\* chat completion with its text under "choices" from openai and from
\* openrouter's default endpoint, else a message with "content".
Payload(s) ==
  CASE s # "completed"                    -> "none"
    [] wire \in {"openai", "openrouter"}  -> "choices"
    [] OTHER                              -> "content"

\* extract_text looks for the blocks of "content" only.
ExtractText(p) == IF p = "content" THEN "text" ELSE ""

-----------------------------------------------------------------------------
(* The server (external).                                                  *)

\* Another job, or another machine, creates a batch on the same account.  Only
\* the wires that list the account's batches come across it.
OtherBatch ==
  /\ wire \in {"anthropic", "openai"}
  /\ Cardinality({b \in 1..Len(batches) : ~batches[b].own}) < MaxOthers
  /\ batches' = Append(batches, NoBody)
  /\ UNCHANGED <<wire, fits, log, adapter, loop, bounds>>

\* find_batch, anthropic and openai: the newest ScanLimit batches that list
\* shows, matched on the key in their metadata.
\* Mutant: one batch fewer is looked at.
Listed_Short == {b \in 1..Len(batches) : b + ScanLimit > Len(batches) + 1}

Listed == {b \in 1..Len(batches) : b + ScanLimit > Len(batches)}

\* fixture: the registry, read back from the submissions log.
Registered == 1..Len(batches)

Searched ==
  CASE wire \in {"anthropic", "openai"} -> Listed
    [] wire = "fixture"                 -> Registered
    [] OTHER                            -> {}

Matches == {b \in Searched : batches[b].own /\ batches[b].keyed}

\* A batch that is not on record, and that no lookup finds, is not read: it stays
\* as it is.
Live(b) ==
  /\ b \in Matches \cup {recorded}
  /\ batches[b].own
  /\ batches[b].status \in InProgress

ServerSets(b, s, out) ==
  /\ batches' = [batches EXCEPT ![b].status = s, ![b].out = out]
  /\ UNCHANGED <<wire, fits, log, adapter, loop, bounds>>

\* The input file is accepted.
ServerStarts(b) ==
  /\ Live(b)
  /\ batches[b].status = "validating"
  /\ ServerSets(b, "in_progress", batches[b].out)

\* The input file is refused: no item runs (the file wires only).
ServerRefuses(b) ==
  /\ Live(b)
  /\ wire \in {"openai", "openrouter"}
  /\ batches[b].status = "validating"
  /\ ServerSets(b, "failed", batches[b].out)

\* An item is answered.  The last one ends the batch as well (ServerEnds), but
\* a file wire counts it before the result files are there.
ServerAnswers(b, i) ==
  /\ Live(b)
  /\ batches[b].status = "in_progress"
  /\ batches[b].out[i] = "pending"
  /\ wire # "fixture"
  /\ \E o \in {"ok", "error"}, s \in {"in_progress", "finalizing"} :
       LET out == [batches[b].out EXCEPT ![i] = o]
       IN  /\ IF \E j \in Item : out[j] = "pending" THEN s = "in_progress"
                                                   ELSE wire \in {"openai", "openrouter"}
           /\ ServerSets(b, s, out)

\* What is still pending when a batch ends one way or the other.
Closing(s) ==
  CASE s = "completed" -> IF wire = "fixture" THEN {"ok"} ELSE {"ok", "error"}
    [] s = "expired"   -> {"expired"}
    [] OTHER           -> {"canceled", "dropped"}

\* The batch is through, its window closes, or the user cancels it at the
\* provider.  Only the file wire may list no result for a canceled item.
ServerEnds(b, s) ==
  /\ Live(b)
  /\ batches[b].status # "validating"
  /\ wire = "fixture" => s = "completed"
  /\ \E rest \in [Of(batches[b], {"pending"}) -> Closing(s)] :
       /\ wire = "anthropic" => \A i \in DOMAIN rest : rest[i] # "dropped"
       /\ ServerSets(b, s, [i \in Item |-> IF i \in DOMAIN rest THEN rest[i]
                                           ELSE batches[b].out[i]])

Server ==
  \E b \in 1..Len(batches) :
    \/ ServerStarts(b)
    \/ ServerRefuses(b)
    \/ \E i \in Item : ServerAnswers(b, i)
    \/ \E s \in {"completed", "expired", "cancelled"} : ServerEnds(b, s)

-----------------------------------------------------------------------------
(* Submit and recover.                                                     *)

Init ==
  /\ wire \in Wires
  /\ fits \in BOOLEAN
  /\ batches = <<>>
  /\ formed = FALSE
  /\ recorded = 0
  /\ results = [i \in Item |-> "none"]
  /\ closed = FALSE
  /\ pc = "down"
  /\ ref = 0
  /\ booked = NoCounts
  /\ page = {}
  /\ lastGet = NoBody
  /\ streak = 0
  /\ faults = 0
  /\ crashes = 0

\* An AdapterError that nothing catches leaves run_job; the adapter lives on.
Leave ==
  /\ pc' = "down"
  /\ ref' = 0
  /\ booked' = NoCounts
  /\ page' = {}

\* kill -9: the adapter and its memory are gone as well.
Crash ==
  /\ pc # "down"
  /\ crashes < MaxCrashes
  /\ crashes' = crashes + 1
  /\ Leave
  /\ lastGet' = NoBody
  /\ streak' = 0
  /\ UNCHANGED <<wire, fits, batches, log, faults>>

Fault ==
  /\ faults < MaxFaults
  /\ faults' = faults + 1
  /\ UNCHANGED crashes

\* run_job: an in-flight wave is polled, a formed one reconciled, else the
\* wave is formed (WAVE_FORMED first) and submitted.
Start ==
  /\ pc = "down"
  /\ ~closed
  /\ formed' = TRUE
  /\ ref' = recorded
  /\ pc' = IF recorded # 0 THEN "poll" ELSE IF formed THEN "find" ELSE "submit"
  /\ UNCHANGED <<wire, fits, batches, recorded, results, closed, adapter, booked,
                 page, bounds>>

\* _reconcile_wave: adopt the newest match (WAVE_SUBMITTED), or re-enqueue.
FindBatch ==
  /\ pc = "find"
  /\ \/ \E b \in Matches :
          /\ \A a \in Matches : a <= b
          /\ ref' = b
          /\ pc' = "record"
     \/ /\ Matches = {}
        /\ pc' = "submit"
        /\ UNCHANGED ref
  /\ UNCHANGED <<wire, fits, batches, log, adapter, booked, page, bounds>>

\* _validate_caps raises FatalError before anything is sent.
SubmitRefused ==
  /\ pc = "submit"
  /\ ~fits
  /\ Leave
  /\ UNCHANGED <<wire, fits, batches, log, adapter, bounds>>

\* openai: files.create comes first; an upload without a batch costs nothing.
Upload ==
  /\ pc = "submit"
  /\ wire = "openai"
  /\ fits
  /\ pc' = "create"
  /\ UNCHANGED <<wire, fits, batches, log, adapter, ref, booked, page, bounds>>

\* The POST that makes the batch, with the key in its metadata.  Anthropic's
\* has no such parameter: the key rides extra_body, and may come back or not.
Creates ==
  /\ fits
  /\ pc = IF wire = "openai" THEN "create" ELSE "submit"
  /\ \E lag \in IF wire = "openrouter" THEN 0..MaxLag ELSE {0},
        keyed \in IF wire = "anthropic" THEN BOOLEAN ELSE {TRUE} :
       batches' = Append(batches, [own |-> TRUE, keyed |-> keyed, lag |-> lag,
                                   status |-> "validating", out |-> Pending])
  /\ UNCHANGED <<wire, fits, log, adapter>>

\* A batch of the fixture adapter is in the log before submit returns.
Create ==
  /\ Creates
  /\ ref' = Len(batches')
  /\ pc' = "record"
  /\ UNCHANGED <<booked, page, bounds>>

\* The request got through, its answer did not: RetryableError leaves run_job.
CreateUnanswered == wire # "fixture" /\ Creates /\ Fault /\ Leave

\* find_batch, files.create, create or a read of fetch ends in an error.
CallFails ==
  /\ pc \in {"find", "submit", "create", "fetch", "output", "errors"}
  /\ wire # "fixture"
  /\ Fault
  /\ Leave
  /\ UNCHANGED <<wire, fits, batches, log, adapter>>

\* WAVE_SUBMITTED.
Record ==
  /\ pc = "record"
  /\ recorded' = ref
  /\ pc' = "poll"
  /\ UNCHANGED <<wire, fits, batches, formed, results, closed, adapter, ref,
                 booked, page, bounds>>

-----------------------------------------------------------------------------
(* _await_and_process_wave.                                                *)

\* What GET says of a batch; openrouter answers 404 until it is visible.
Visible == batches[ref].lag = 0

\* What fetch makes of a body kept from a GET: one that is not terminal is as
\* good as none.
Seen(b) == IF b.status \in Ended THEN b ELSE NoBody

PollAnswers ==
  /\ pc = "poll"
  /\ Visible
  /\ \E total \in Totals(batches[ref]) :
       LET s == StatusOf(batches[ref], total)
       IN  IF IsTerminal(s) THEN pc' = "fetch" /\ booked' = s
                            ELSE UNCHANGED <<pc, booked>>
  /\ streak' = 0
  /\ lastGet' = IF wire = "openrouter" THEN Seen(batches[ref]) ELSE lastGet
  /\ UNCHANGED <<wire, fits, batches, log, ref, page, bounds>>

Patience == streak + 1 <= Tolerance

\* The 404 of a batch not visible yet: retried, until the streak is too long
\* and FatalError leaves run_job.
PollNotFound ==
  /\ pc = "poll"
  /\ ~Visible
  /\ batches' = [batches EXCEPT ![ref].lag = @ - 1]
  /\ streak' = streak + 1
  /\ IF Patience THEN UNCHANGED loop ELSE Leave
  /\ UNCHANGED <<wire, fits, log, lastGet, bounds>>

\* The ways a call fails, and those _map_error and _call take for transient
\* (RetryableError, RateLimited); any other is a FatalError.
Error == {"rate limit", "server error", "connection", "client error"}
Transient == {"rate limit", "server error", "connection"}

\* A poll that failed with error e.
PollFails(e) ==
  /\ pc = "poll"
  /\ wire # "fixture"
  /\ Fault

\* The loop sleeps and polls again.
PollRetries(e) ==
  /\ PollFails(e)
  /\ e \in Transient
  /\ UNCHANGED <<wire, fits, batches, log, adapter, loop>>

\* FatalError leaves run_job.
PollGivesUp(e) ==
  /\ PollFails(e)
  /\ e \notin Transient
  /\ Leave
  /\ UNCHANGED <<wire, fits, batches, log, adapter>>

\* openrouter's fetch: the body of the last GET when that one was terminal,
\* else a GET of its own.  Only a completed batch has results in it.
InlineBody == IF lastGet.status \in Ended THEN lastGet ELSE batches[ref]

Inline ==
  IF InlineBody.status = "completed" THEN Of(InlineBody, {"ok", "error"}) ELSE {}

\* openai: the output file, and whether the batch fetch looked at names any
\* file; there is none before the batch ended.
HasFiles == batches[ref].status \in Ended
OutputFile == IF HasFiles THEN Of(batches[ref], {"ok"}) ELSE {}

\* anthropic and fixture: the results are one stream.
Stream == Of(batches[ref], Outcome \ {"pending", "dropped"})

Fetch ==
  /\ pc = "fetch"
  /\ page' = CASE wire = "openai"     -> OutputFile
               [] wire = "openrouter" -> Inline
               [] OTHER               -> Stream
  /\ lastGet' = IF wire = "openrouter" THEN Seen(InlineBody) ELSE lastGet
  /\ pc' = IF wire = "openai" /\ HasFiles THEN "output" ELSE "errors"
  /\ UNCHANGED <<wire, fits, batches, log, streak, ref, booked, bounds>>

\* Mutant: the error file is not read.
ErrorFile_Skipped == {}

\* openai: the error file comes second, with a line for every item that
\* failed, expired or was listed as canceled.
ErrorFile == Of(batches[ref], {"error", "expired", "canceled"})

ReadErrors ==
  /\ pc = "output"
  /\ page = {}
  /\ page' = ErrorFile
  /\ pc' = "errors"
  /\ UNCHANGED <<wire, fits, batches, log, adapter, ref, booked, bounds>>

\* _process_item, up to ITEM_RETURNED with the mapped status.
Yield(i) ==
  /\ pc \in {"output", "errors"}
  /\ i \in page
  /\ page' = page \ {i}
  /\ results' = [results EXCEPT ![i] = Mapped(batches[ref].out[i])]
  /\ UNCHANGED <<wire, fits, batches, formed, recorded, closed, adapter, pc, ref,
                 booked, bounds>>

\* WAVE_COMPLETED.
CloseWave ==
  /\ pc = "errors"
  /\ page = {}
  /\ closed' = TRUE
  /\ pc' = "done"
  /\ UNCHANGED <<wire, fits, batches, formed, recorded, results, adapter, ref,
                 booked, page, bounds>>

Loop ==
  \/ Start \/ FindBatch \/ SubmitRefused \/ Upload \/ Create \/ Record
  \/ PollAnswers \/ PollNotFound \/ Fetch \/ ReadErrors \/ CloseWave
  \/ \E i \in Item : Yield(i)

Failure ==
  \/ CreateUnanswered \/ CallFails \/ Crash
  \/ \E e \in Error : PollRetries(e) \/ PollGivesUp(e)

Next == Loop \/ Failure \/ Server \/ OtherBatch

Spec == Init /\ [][Next]_vars

\* The loop polls on, a job that left is resumed, the provider ends a batch.
FairSpec == Spec /\ WF_vars(Loop) /\ WF_vars(Server)

-----------------------------------------------------------------------------
(* What an adapter promises.                                               *)

ServerType == batches \in Seq(Batch)

LogType ==
  /\ formed \in BOOLEAN
  /\ recorded \in 0..Len(batches)
  /\ results \in [Item -> ItemStatus \cup {"none"}]
  /\ closed \in BOOLEAN

LoopType ==
  /\ pc \in {"down", "find", "submit", "create", "record", "poll", "fetch",
             "output", "errors", "done"}
  /\ ref \in 0..Len(batches)
  /\ booked \in Counts
  /\ page \subseteq Item
  /\ lastGet \in Batch
  /\ streak \in Nat

\* Server, log and process hold what the code can put there.
TypeOK ==
  /\ wire \in Wires
  /\ fits \in BOOLEAN
  /\ ServerType
  /\ LogType
  /\ LoopType
  /\ faults \in 0..MaxFaults
  /\ crashes \in 0..MaxCrashes

Fetching == pc \in {"fetch", "output", "errors", "done"}

\* The statuses a wire hands out results with for every item.
Reporting ==
  CASE wire = "openai"     -> {"completed", "expired"}
    [] wire = "openrouter" -> {"completed"}
    [] OTHER               -> Ended

\* The record adds up to the counts of the poll that ended the loop.
AddsUp ==
  \A s \in ItemStatus : booked[s] = Cardinality({i \in Item : results[i] = s})

\* That poll took a batch under way for terminal: a file wire reported no total
\* yet, or every item answered.
CountedOut ==
  /\ wire \in {"openai", "openrouter"}
  /\ booked.batch_status \in InProgress
  /\ \/ booked.batch_status = "validating"
     \/ booked.completed + booked.errored = Cardinality(Item)

\* A completed wave has lost no item: whatever was interrupted and fetched
\* again, each item has its outcome on record, and the record adds up to what
\* a poll of the ended batch booked.  Or it has lost them all: the poll took a
\* batch for terminal that was counted out too early, and fetch found nothing.
WaveIsWhole ==
  pc = "done" /\ batches[ref].status \in Reporting =>
    \/ /\ \A i \in Item : results[i] = Mapped(batches[ref].out[i])
       /\ booked.batch_status \in Ended => AddsUp
    \/ CountedOut /\ \A i \in Item : results[i] = "none"

\* A wave is bought a second time only blindly: the adapter has no lookup, the
\* provider did not keep the key, or at least ScanLimit batches of others hid
\* the first one.
BoughtAgainBlindly ==
  \A a, b \in 1..Len(batches) :
    a < b /\ batches[a].own /\ batches[b].own =>
      wire = "openrouter" \/ ~batches[a].keyed \/ b - a > ScanLimit

\* Whatever the wire, the text of an answer reaches the loop.
AnswersAreRead ==
  \A i \in Item : results[i] = "completed" => ExtractText(Payload(results[i])) # ""

\* A wave within the caps is through at last, whatever failed on the way.
WaveSettles == fits ~> closed

(* What the code does not keep (README, limits).                           *)

\* The poll loop goes on to fetch only when the batch has ended: no status that
\* openai_batch.py calls in-progress (:37-38) passes for terminal.
TerminalIsEnded == Fetching => batches[ref].status \in Ended

\* No wave is bought twice through an adapter that looks for its batch first
\* (base.py:137-144).
BoughtOnce ==
  wire # "openrouter" =>
    Cardinality({b \in 1..Len(batches) : batches[b].own}) <= 1

=============================================================================
