------------------------------ MODULE PlanGraph ------------------------------
(* From the planner's answer to the end of the job, seen as a graph: the      *)
(* forced-tool conversation of propose_plan, the plan's validator and its     *)
(* depth-first search, the approval, the layering of plan_physical, and the   *)
(* rounds in which the wave loop then works off whatever the rows say is      *)
(* ready. What happens inside a round is module WaveLoop; here each node of   *)
(* the frontier gets its outcome, and a template its children.                *)
(*                                                                            *)
(* Four pieces of code read the same dependency strings, each in its own way: *)
(* Target (validator), Bases (layering), DepsSatisfied (loop), and the source *)
(* of a template. The properties say that they agree.                         *)
EXTENDS Naturals, FiniteSets, FiniteSetsExt, SequencesExt

CONSTANTS
  Name,        \* the strings a plan may use for ids and dependencies
  NoName,      \* no string: an id that does not resolve, a node without a parent
  Base,        \* those that end in ".*" -> the string without it
  Child,       \* the strings of templates -> that of the i-th child, i from 1
  Proposals,   \* the plans a model may answer: functions from ids to nodes
  MaxKids,     \* bindings in one answer
  Attempts,    \* _MAX_ATTEMPTS
  Limits       \* values of max_waves: the command line's and the config's

Pattern == DOMAIN Base

Ops == {"Gate", "Verify", "Explore", "Analyse", "Write"}
Status == {"PENDING", "RE_ENQUEUED", "NEEDS_HUMAN", "DONE"}
Runnable == {"PENDING", "RE_ENQUEUED"}

\* The envelope and the operator: Explore is one with prefer_local; Write is
\* Generate or Edit; Analyse any other that goes to a provider.
Node == [op : Ops, template : BOOLEAN, deps : SUBSET Name]
Row  == [op : Ops, template : BOOLEAN, deps : SUBSET Name, local : BOOLEAN,
         parent : Name \cup {NoName}, status : Status]

ASSUME ConstantsAssumption ==
  /\ NoName \notin Name
  /\ Base \in [Pattern -> Name] /\ Pattern \subseteq Name
  /\ Child \in [DOMAIN Child -> [1..MaxKids -> Name]]
  /\ MaxKids \in Nat /\ Attempts \in Nat \ {0} /\ Limits \subseteq Nat
  /\ \A p \in Proposals :
       /\ IsFiniteSet(DOMAIN p) /\ DOMAIN p \subseteq Name /\ p \in [DOMAIN p -> Node]
       /\ {n \in DOMAIN p : p[n].template} \subseteq DOMAIN Child

\* planner.py:155 makes a child's id from the template's and a number.
ASSUME ChildrenAssumption ==
  \A t, u \in DOMAIN Child : \A i, j \in 1..MaxKids : Child[t][i] = Child[u][j] => t = u

VARIABLES
  phase,    \* of Phases: where the command is, or how the job came out
  asked,    \* planning calls made so far
  plan,     \* the validated plan, empty before
  layer,    \* its waves, as plan_physical numbers them
  rows,     \* the job's nodes table
  outputs,  \* _local_outputs: the number of bindings in each answer kept
  limit,    \* max_waves of the orchestrator that drives the job
  round,    \* iterations of the wave loop
  ran,      \* history: the round in which a node first ran, 0 before
  late      \* history: some item was re-enqueued

vars == <<phase, asked, plan, layer, rows, outputs, limit, round, ran, late>>
job  == <<layer, rows, outputs, limit, round, ran, late>>

None == [n \in {} |-> 0]

Init ==
  /\ phase = "asking" /\ asked = 0
  /\ plan = None /\ layer = None /\ rows = None /\ outputs = None /\ ran = None
  /\ limit = 0 /\ round = 0 /\ late = FALSE

-----------------------------------------------------------------------------
(* The validator of Plan.                                                     *)

Target(d, ids) ==
  IF d \in ids THEN d
  ELSE IF d \in Pattern /\ Base[d] \in ids THEN Base[d] ELSE NoName

Resolves(p) == \A n \in DOMAIN p : \A d \in p[n].deps : Target(d, DOMAIN p) # NoName

Edges(p) == [n \in DOMAIN p |-> SetToSeq({Target(d, DOMAIN p) : d \in p[n].deps})]

\* Mutant: only a node that waits for itself counts as a cycle.
ClosesCycle_Self(color, n, next) == next = n

ClosesCycle(color, n, next) == color[next] = "GREY"

\* One turn of the inner loop: the top of the stack is a node and the number
\* of its neighbours seen so far.
Visit(edges, s) ==
  LET n == Last(s.stack)[1]
      i == Last(s.stack)[2]
      color == IF i = 0 THEN [s.color EXCEPT ![n] = "GREY"] ELSE s.color
  IN  IF i = Len(edges[n])
      THEN [s EXCEPT !.stack = Front(@), !.color = [color EXCEPT ![n] = "BLACK"]]
      ELSE LET next == edges[n][i + 1]
           IN  [stack |-> Append(Front(s.stack), <<n, i + 1>>)
                            \o IF color[next] = "WHITE" THEN <<<<next, 0>>>> ELSE <<>>,
                color |-> color,
                cycle |-> ClosesCycle(color, n, next)]

\* The outer loop starts at any node still white; a cycle raises.
Search(edges, s) ==
  LET white == {n \in DOMAIN s.color : s.color[n] = "WHITE"}
  IN  IF s.cycle THEN s
      ELSE IF s.stack # <<>> THEN Visit(edges, s)
      ELSE IF white # {} THEN [s EXCEPT !.stack = <<<<CHOOSE n \in white : TRUE, 0>>>>]
      ELSE s

\* No search takes more turns: each starts a node, passes one of its neighbours
\* or finishes it, and none does so twice.
Turns(p) == Cardinality(DOMAIN p) * (Cardinality(DOMAIN p) + 2)

Unsearched(p) == [stack |-> <<>>, color |-> [n \in DOMAIN p |-> "WHITE"], cycle |-> FALSE]

HasCycle(p) ==
  LET edges == Edges(p)
      run[k \in 0..Turns(p)] ==
        IF k = 0 THEN Unsearched(p) ELSE Search(edges, run[k - 1])
  IN  run[Turns(p)].cycle

Valid(p) == Resolves(p) /\ ~HasCycle(p)

-----------------------------------------------------------------------------
(* plan_physical: exec class and wave of every node.                          *)

Strip(d) == IF d \in Pattern THEN Base[d] ELSE d
Bases(p, n) == {Strip(d) : d \in p[n].deps} \cap DOMAIN p

LocalPushdown(p) == {n \in DOMAIN p : p[n].op = "Explore"}
IsLocal(p, n) == n \in LocalPushdown(p) \/ p[n].op = "Verify"

\* Mutant: the wave of the deepest dependency, not the one after it.
After_Same(depths) == IF depths = {} THEN 0 ELSE Max(depths)

After(depths) == IF depths = {} THEN 0 ELSE 1 + Max(depths)

\* The memoized recursion, unrolled k deep: on a graph without a cycle it has
\* come to rest once k is the number of nodes; on one with a cycle it never does.
Unrolled(p) ==
  LET depth[k \in 0..Cardinality(DOMAIN p) + 1] ==
        IF k = 0 THEN [n \in DOMAIN p |-> 0]
        ELSE [n \in DOMAIN p |-> After({depth[k - 1][b] : b \in Bases(p, n)})]
  IN  depth

Layers(p) == Unrolled(p)[Cardinality(DOMAIN p)]
Recurses(p) == Unrolled(p)[Cardinality(DOMAIN p) + 1] # Layers(p)

-----------------------------------------------------------------------------
(* The planning conversation and the approval.                                *)

\* Mutant: one call too many.
GivesUp_Late(calls) == calls > Attempts

GivesUp(calls) == calls = Attempts

\* No tool call, an answer outside the schema or with an id twice, or a plan
\* the validator refuses: the error goes into the conversation, and after the
\* last attempt PlanningError ends the command.
Refused ==
  /\ asked' = asked + 1
  /\ phase' = IF GivesUp(asked') THEN "failed" ELSE "asking"
  /\ UNCHANGED <<plan, job>>

NoPlanInAnswer == phase = "asking" /\ Refused

Propose(p) ==
  /\ phase = "asking"
  /\ IF Valid(p)
     THEN phase' = "offered" /\ plan' = p /\ asked' = 0 /\ UNCHANGED job
     ELSE Refused

Decline ==
  /\ phase = "offered"
  /\ phase' = "declined"
  /\ UNCHANGED <<asked, plan, job>>

\* plan_physical comes before the first event: if it raises there is no job.
CreateFails ==
  /\ phase = "offered" /\ Recurses(plan)
  /\ phase' = "crashed"
  /\ UNCHANGED <<asked, plan, job>>

\* The CLI passes --max-waves to its own orchestrator only; a daemon drives
\* the job with the max_waves of the config.
CreateJob(max_waves) ==
  /\ phase = "offered" /\ ~Recurses(plan)
  /\ phase' = "running" /\ limit' = max_waves
  /\ layer' = Layers(plan)
  /\ rows' = [n \in DOMAIN plan |->
                [op |-> plan[n].op, template |-> plan[n].template, deps |-> plan[n].deps,
                 local |-> IsLocal(plan, n), parent |-> NoName, status |-> "PENDING"]]
  /\ ran' = [n \in DOMAIN plan |-> 0]
  /\ UNCHANGED <<asked, plan, outputs, round, late>>

-----------------------------------------------------------------------------
(* The rounds of the wave loop.                                               *)

Kids(t) == {n \in DOMAIN rows : rows[n].parent = t}

DepsSatisfied(n) ==
  \A d \in rows[n].deps :
    IF d \in Pattern
    THEN Kids(Base[d]) # {} /\ \A c \in Kids(Base[d]) : rows[c].status = "DONE"
    ELSE d \in DOMAIN rows /\ rows[d].status = "DONE"

Frontier == {n \in DOMAIN rows : rows[n].status \in Runnable /\ DepsSatisfied(n)}

IsTemplate(n) == rows[n].template /\ rows[n].parent = NoName

\* The answers a template may find under the names it depends on; the code takes
\* the first in the order of its list.
Sources(t) == {Strip(d) : d \in rows[t].deps} \cap DOMAIN outputs

Fate(status, list) == [status |-> status, list |-> list]

\* What a round can do to a node of the frontier: its new status and, where the
\* answer is a list of bindings, how many. A diff is never such a list.
Fates(n) ==
  IF rows[n].op = "Gate" THEN {Fate("DONE", 0)}
  ELSE IF IsTemplate(n) THEN
    IF Sources(n) = {} THEN {Fate("NEEDS_HUMAN", 0)}
    ELSE {IF outputs[s] = 0 THEN Fate("NEEDS_HUMAN", 0) ELSE Fate("DONE", outputs[s]) :
            s \in Sources(n)}
  ELSE IF rows[n].local THEN
    {Fate("DONE", 0)} \cup (IF rows[n].op = "Verify" THEN {Fate("NEEDS_HUMAN", 0)} ELSE {})
  ELSE {Fate("RE_ENQUEUED", 0)} \cup
       IF rows[n].op = "Write" THEN {Fate("DONE", 0), Fate("NEEDS_HUMAN", 0)}
       ELSE {Fate("DONE", k) : k \in 0..MaxKids}

KeepsAnswer(n, fate) ==
  /\ rows[n].op \notin {"Gate", "Verify"} /\ ~IsTemplate(n)
  /\ fate[n].status # "RE_ENQUEUED"

\* FANOUT_RESOLVED: a child copies its template's row; a row that is there
\* already keeps everything but its parent.
Minted(fate) ==
  [c \in UNION {{Child[t][i] : i \in 1..fate[t].list} : t \in {n \in DOMAIN fate : IsTemplate(n)}} |->
     CHOOSE t \in DOMAIN fate : IsTemplate(t) /\ c \in {Child[t][i] : i \in 1..fate[t].list}]

Settled(n, fate) ==
  IF n \in DOMAIN fate THEN [rows[n] EXCEPT !.status = fate[n].status] ELSE rows[n]

Round ==
  /\ phase = "running" /\ round < limit /\ Frontier # {}
  /\ round' = round + 1
  /\ \E fate \in [Frontier -> UNION {Fates(n) : n \in Frontier}] :
       /\ \A n \in Frontier : fate[n] \in Fates(n)
       /\ LET new == Minted(fate)
          IN  /\ rows' = [n \in DOMAIN rows \cup DOMAIN new |->
                            IF n \notin DOMAIN new THEN Settled(n, fate)
                            ELSE IF n \in DOMAIN rows
                                 THEN [Settled(n, fate) EXCEPT !.parent = new[n]]
                                 ELSE [rows[new[n]] EXCEPT !.parent = new[n], !.status = "PENDING"]]
              /\ ran' = [n \in DOMAIN rows' |->
                           IF n \in Frontier /\ ran[n] = 0 THEN round'
                           ELSE IF n \in DOMAIN ran THEN ran[n] ELSE 0]
       /\ outputs' = [n \in DOMAIN outputs \cup {m \in Frontier : KeepsAnswer(m, fate)} |->
                        IF n \in Frontier THEN fate[n].list ELSE outputs[n]]
       /\ late' = (late \/ \E n \in Frontier : fate[n].status = "RE_ENQUEUED")
  /\ UNCHANGED <<phase, asked, plan, layer, limit>>

\* _finalize: DONE, or NEEDS_HUMAN, or else BLOCKED.
Finalize ==
  /\ phase = "running" /\ (round = limit \/ Frontier = {})
  /\ phase' = LET left == {n \in DOMAIN rows : rows[n].status # "DONE"}
              IN  IF left = {} THEN "DONE"
                  ELSE IF \E n \in left : rows[n].status = "NEEDS_HUMAN"
                       THEN "NEEDS_HUMAN" ELSE "BLOCKED"
  /\ UNCHANGED <<asked, plan, job>>

Next ==
  \/ NoPlanInAnswer
  \/ \E p \in Proposals : Propose(p)
  \/ Decline \/ CreateFails
  \/ \E n \in Limits : CreateJob(n)
  \/ Round \/ Finalize

Spec == Init /\ [][Next]_vars

-----------------------------------------------------------------------------
Phases == {"asking", "failed", "offered", "declined", "crashed", "running",
           "DONE", "NEEDS_HUMAN", "BLOCKED"}

\* The planning calls stay within the attempts, a command that gave up made all
\* of them, and the rows are the plan's nodes and the children minted since.
TypeOK ==
  /\ phase \in Phases
  /\ asked \in 0..Attempts /\ (phase = "failed" <=> asked = Attempts)
  /\ DOMAIN plan \subseteq Name /\ plan \in [DOMAIN plan -> Node]
  /\ layer \in [DOMAIN layer -> Nat]
  /\ DOMAIN rows \subseteq Name /\ rows \in [DOMAIN rows -> Row]
  /\ DOMAIN outputs \subseteq DOMAIN rows /\ outputs \in [DOMAIN outputs -> 0..MaxKids]
  /\ limit \in Limits \cup {0} /\ round \in 0..limit
  /\ ran \in [DOMAIN rows -> 0..round]
  /\ late \in BOOLEAN

\* Nothing is left that could have run.
Adopted == \E n \in DOMAIN plan : rows[n].parent # NoName
Unfilled(n) == \E d \in rows[n].deps \cap Pattern : Kids(Base[d]) = {}

\* The plan the validator accepted can be carried out. plan_physical's recursion
\* fails only over an id that is itself a pattern, and a job comes out BLOCKED,
\* with nobody to turn to, only if its waves ran out, a child took the id of a
\* planned node, or some node waits for the children of what never had any: the
\* dependencies proved free of cycles are those the others follow.
AcceptedPlanRuns ==
  /\ phase = "crashed" => DOMAIN plan \cap Pattern # {}
  /\ phase = "BLOCKED" =>
       \/ round = limit
       \/ Adopted
       \/ \E n \in DOMAIN rows : rows[n].status # "DONE" /\ Unfilled(n)

Plain == \A n \in DOMAIN plan : plan[n].deps \cap Pattern = {}

\* plan_physical's wave of a node is never later than the round in which the
\* loop runs it, and is that round, counted from 0, as long as no pattern and
\* no second try delays anything.
WavesAreRounds ==
  \A n \in DOMAIN layer : ran[n] # 0 =>
    /\ layer[n] < ran[n]
    /\ Plain /\ ~late => ran[n] = layer[n] + 1
=============================================================================
