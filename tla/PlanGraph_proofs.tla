--------------------------- MODULE PlanGraph_proofs ---------------------------
(***************************************************************************)
(* What PlanGraph promises for every set of proposals: the validator's     *)
(* search ends and finds every cycle, so that the layering of a plan it    *)
(* accepts comes to rest and the loop can work it off, in these waves.     *)
(***************************************************************************)
EXTENDS PlanGraph, FiniteSetTheorems, WellFoundedInduction, TLAPS

-----------------------------------------------------------------------------
(* Numbers.                                                                *)

\* Induction over data, as a least counterexample.
LEMMA Least ==
  ASSUME NEW T \in SUBSET Nat, T # {}
  PROVE  \E x \in T : \A y \in T : x <= y
<1>1. IsWellFoundedOn(OpToRel(<, Nat), Nat)
  BY NatLessThanWellFounded
<1>2. PICK x \in T : \A y \in T : ~(<<y, x>> \in OpToRel(<, Nat))
  BY <1>1, WFMin
<1>3. \A y \in T : ~(y < x)
  BY <1>2 DEF OpToRel
<1> QED
  BY <1>3

\* A bounded set of numbers has its greatest among them.
LEMMA Greatest ==
  ASSUME NEW S \in SUBSET Nat, S # {}, NEW b \in Nat, \A x \in S : x <= b
  PROVE  Max(S) \in S /\ \A x \in S : x <= Max(S)
<1> DEFINE T == {k \in Nat : b - k \in S}
<1>1. \A x \in S : b - x \in T
  <2> SUFFICES ASSUME NEW x \in S PROVE b - x \in Nat /\ b - (b - x) = x
    OBVIOUS
  <2> QED
    OBVIOUS
<1>2. PICK k \in T : \A j \in T : k <= j
  BY <1>1, Least
<1>3. \A x \in S : b - k >= x
  <2> SUFFICES ASSUME NEW x \in S PROVE b - k >= x
    OBVIOUS
  <2>1. k <= b - x /\ k \in Nat /\ x \in Nat
    BY <1>1, <1>2
  <2> QED
    BY <2>1
<1>4. \E m \in S : \A x \in S : m >= x
  BY <1>2, <1>3
<1>5. Max(S) \in S /\ \A x \in S : Max(S) >= x
  BY <1>4 DEF Max
<1> QED
  BY <1>5

-----------------------------------------------------------------------------
(* The layering.                                                           *)

\* The layering of p before any turn, and after one more.
Flat(p) == [n \in DOMAIN p |-> 0]
Deeper(p, d) == [n \in DOMAIN p |-> After({d[b] : b \in Bases(p, n)})]

\* The layering of p, unrolled k times.
Depths(f, k, p) == f = [i \in 0..k |-> IF i = 0 THEN Flat(p) ELSE Deeper(p, f[i - 1])]

LEMMA DepthsExist ==
  ASSUME NEW p, NEW n \in Nat
  PROVE  \E f : Depths(f, n, p)
<1> DEFINE T == {k \in Nat : ~\E f : Depths(f, k, p)}
<1> SUFFICES ASSUME T # {} PROVE FALSE
  OBVIOUS
<1>1. PICK k \in T : \A j \in T : k <= j
  BY Least
<1>2. CASE k = 0
  <2>1. Depths([i \in 0..0 |-> Flat(p)], 0, p)
    BY DEF Depths
  <2> QED
    BY <1>1, <1>2, <2>1
<1>3. CASE k # 0
  <2>1. k - 1 \in Nat /\ k - 1 \notin T
    BY <1>1, <1>3
  <2>2. PICK f : Depths(f, k - 1, p)
    BY <2>1
  <2> DEFINE g == [i \in 0..k |-> IF i = k THEN Deeper(p, f[k - 1]) ELSE f[i]]
  <2>3. \A i \in 0..k : g[i] = IF i = 0 THEN Flat(p) ELSE Deeper(p, g[i - 1])
    <3> SUFFICES ASSUME NEW i \in 0..k
                 PROVE  g[i] = IF i = 0 THEN Flat(p) ELSE Deeper(p, g[i - 1])
      OBVIOUS
    <3>1. CASE i = k
      BY <1>1, <1>3, <3>1
    <3>2. CASE i # k
      <4>1. i \in 0..(k - 1)
        BY <1>1, <3>2
      <4>2. f[i] = IF i = 0 THEN Flat(p) ELSE Deeper(p, f[i - 1])
        BY <2>2, <4>1 DEF Depths
      <4>3. g[i] = f[i]
        BY <3>2
      <4>4. i # 0 => g[i - 1] = f[i - 1]
        BY <1>1, <3>2
      <4> QED
        BY <4>2, <4>3, <4>4
    <3> QED
      BY <3>1, <3>2
  <2>4. Depths(g, k, p)
    BY <2>3 DEF Depths
  <2> QED
    BY <1>1, <2>4
<1> QED
  BY <1>2, <1>3

\* Layers and Recurses read the layering off these.
LEMMA Unrolling ==
  ASSUME NEW p, IsFiniteSet(DOMAIN p)
  PROVE  Depths(Unrolled(p), Cardinality(DOMAIN p) + 1, p)
<1> DEFINE N == Cardinality(DOMAIN p)
           depth == CHOOSE f : Depths(f, N + 1, p)
<1>1. N + 1 \in Nat
  BY FS_CardinalityType
<1>2. Depths(depth, N + 1, p)
  BY <1>1, DepthsExist
<1>3. Unrolled(p) = depth
  BY DEF Unrolled, Depths, Flat, Deeper
<1> QED
  BY <1>2, <1>3

\* One more turn puts each node behind what it waits for; k turns count to k.
LEMMA UnrolledStep ==
  ASSUME NEW p, IsFiniteSet(DOMAIN p), NEW k \in 0..(Cardinality(DOMAIN p) + 1)
  PROVE  /\ k = 0 => \A n \in DOMAIN p : Unrolled(p)[k][n] = 0
         /\ k > 0 => \A n \in DOMAIN p :
                       Unrolled(p)[k][n] = After({Unrolled(p)[k - 1][b] : b \in Bases(p, n)})
         /\ Unrolled(p)[k] = [n \in DOMAIN p |-> Unrolled(p)[k][n]]
<1>1. Unrolled(p)[k] = IF k = 0 THEN Flat(p) ELSE Deeper(p, Unrolled(p)[k - 1])
  BY Unrolling DEF Depths
<1>2. CASE k = 0
  BY <1>1, <1>2 DEF Flat
<1>3. CASE k # 0
  BY <1>1, <1>3 DEF Deeper
<1> QED
  BY <1>2, <1>3

\* After is a number behind all of a bounded set of numbers, and behind one only just.
LEMMA AfterBehind ==
  ASSUME NEW S \in SUBSET Nat, NEW b \in Nat, \A x \in S : x <= b
  PROVE  /\ After(S) \in 0..(b + 1)
         /\ \A x \in S : x < After(S)
         /\ After(S) # 0 => \E x \in S : After(S) = x + 1
<1>1. CASE S = {}
  BY <1>1 DEF After
<1>2. CASE S # {}
  <2>1. Max(S) \in S /\ \A x \in S : x <= Max(S)
    BY <1>2, Greatest
  <2>2. After(S) = 1 + Max(S) /\ Max(S) \in Nat
    BY <1>2, <2>1 DEF After
  <2> QED
    BY <2>1, <2>2
<1> QED
  BY <1>1, <1>2

LEMMA UnrolledBound ==
  ASSUME NEW p, IsFiniteSet(DOMAIN p), NEW k \in 0..(Cardinality(DOMAIN p) + 1)
  PROVE  \A n \in DOMAIN p : Unrolled(p)[k][n] \in 0..k
<1> DEFINE N == Cardinality(DOMAIN p)
           U == Unrolled(p)
           T == {i \in 0..(N + 1) : \E n \in DOMAIN p : U[i][n] \notin 0..i}
<1>1. N \in Nat
  BY FS_CardinalityType
<1>2. \A i \in 0..(N + 1) :
        /\ i = 0 => \A n \in DOMAIN p : U[i][n] = 0
        /\ i > 0 => \A n \in DOMAIN p : U[i][n] = After({U[i - 1][b] : b \in Bases(p, n)})
  BY UnrolledStep
<1> HIDE DEF U, N
<1> SUFFICES T = {}
  BY DEF N, U
<1> SUFFICES ASSUME T # {} PROVE FALSE
  OBVIOUS
<1>3. PICK i \in T : \A j \in T : i <= j
  <2>1. T \in SUBSET Nat
    BY <1>1
  <2> QED
    BY <2>1, Least
<1>4. PICK n \in DOMAIN p : U[i][n] \notin 0..i
  BY <1>3
<1>5. i \in 0..(N + 1) /\ i # 0 /\ i > 0
  BY <1>1, <1>2, <1>3, <1>4
<1>6. i - 1 \in 0..(N + 1) /\ i - 1 \notin T /\ i - 1 \in Nat
  BY <1>1, <1>3, <1>5
<1>7. \A b \in DOMAIN p : U[i - 1][b] \in 0..(i - 1)
  BY <1>6
<1>8. U[i][n] = After({U[i - 1][b] : b \in Bases(p, n)})
  BY <1>2, <1>5
<1>9. /\ {U[i - 1][b] : b \in Bases(p, n)} \in SUBSET Nat
      /\ \A x \in {U[i - 1][b] : b \in Bases(p, n)} : x <= i - 1
  BY <1>6, <1>7 DEF Bases
<1>10. After({U[i - 1][b] : b \in Bases(p, n)}) \in 0..(i - 1 + 1)
  BY <1>6, <1>9, AfterBehind
<1> QED
  BY <1>4, <1>6, <1>8, <1>10

\* If the layering comes to rest, the wave of a node is the first after the waves
\* of what it waits for.
LEMMA LayersRest ==
  ASSUME NEW p, IsFiniteSet(DOMAIN p), ~Recurses(p)
  PROVE  /\ Layers(p) \in [DOMAIN p -> Nat]
         /\ \A n \in DOMAIN p : /\ \A b \in Bases(p, n) : Layers(p)[b] < Layers(p)[n]
                                /\ Layers(p)[n] # 0 =>
                                     \E b \in Bases(p, n) : Layers(p)[n] = Layers(p)[b] + 1
<1> DEFINE N == Cardinality(DOMAIN p)
           L == Layers(p)
<1>1. N \in Nat /\ N \in 0..(N + 1) /\ N + 1 \in 0..(N + 1) /\ N + 1 > 0 /\ N + 1 - 1 = N
  BY FS_CardinalityType
<1>2. Unrolled(p)[N] = L /\ Unrolled(p)[N + 1] = L
  BY DEF Layers, Recurses
<1>3. \A n \in DOMAIN p : L[n] \in 0..N
  BY <1>1, <1>2, UnrolledBound
<1>4. L = [n \in DOMAIN p |-> L[n]]
  <2>1. Unrolled(p)[N] = [n \in DOMAIN p |-> Unrolled(p)[N][n]]
    BY <1>1, UnrolledStep
  <2> QED
    BY <1>2, <2>1
<1>5. \A n \in DOMAIN p : L[n] = After({L[b] : b \in Bases(p, n)})
  <2>1. \A i \in 0..(N + 1) : i > 0 =>
          \A n \in DOMAIN p : Unrolled(p)[i][n] = After({Unrolled(p)[i - 1][b] : b \in Bases(p, n)})
    BY UnrolledStep
  <2>2. \A n \in DOMAIN p : Unrolled(p)[N + 1][n]
                              = After({Unrolled(p)[N + 1 - 1][b] : b \in Bases(p, n)})
    BY <1>1, <2>1
  <2> QED
    BY <1>1, <1>2, <2>2
<1>6. ASSUME NEW n \in DOMAIN p
      PROVE  /\ \A b \in Bases(p, n) : L[b] < L[n]
             /\ L[n] # 0 => \E b \in Bases(p, n) : L[n] = L[b] + 1
  <2> DEFINE S == {L[b] : b \in Bases(p, n)}
  <2>1. S \in SUBSET Nat /\ \A x \in S : x <= N
    BY <1>1, <1>3 DEF Bases
  <2>2. L[n] = After(S)
    BY <1>5
  <2> HIDE DEF L
  <2>3. (\A x \in S : x < L[n]) /\ (L[n] # 0 => \E x \in S : L[n] = x + 1)
    BY <1>1, <2>1, <2>2, AfterBehind
  <2> QED
    BY <2>3
<1> QED
  BY <1>1, <1>3, <1>4, <1>6

-----------------------------------------------------------------------------
(* The search for a cycle.                                                 *)

\* The neighbours of a node are listed, and none is left out.
LEMMA EdgesList ==
  ASSUME NEW p \in Proposals, Resolves(p), NEW n \in DOMAIN p
  PROVE  /\ Edges(p)[n] \in Seq(DOMAIN p)
         /\ Len(Edges(p)[n]) <= Cardinality(DOMAIN p)
         /\ \A d \in p[n].deps :
              \E i \in 1..Len(Edges(p)[n]) : Edges(p)[n][i] = Target(d, DOMAIN p)
<1> DEFINE S == {Target(d, DOMAIN p) : d \in p[n].deps}
           C == Cardinality(S)
<1>1. IsFiniteSet(DOMAIN p) /\ NoName \notin DOMAIN p
  BY ConstantsAssumption
<1>2. S \in SUBSET DOMAIN p
  BY <1>1 DEF Resolves, Target
<1>3. IsFiniteSet(S) /\ C \in Nat /\ C <= Cardinality(DOMAIN p) /\ ExistsBijection(1..C, S)
  BY <1>1, <1>2, FS_Subset, FS_CardinalityType
<1>4. Edges(p)[n] = SetToSeq(S)
  BY DEF Edges
<1> HIDE DEF S, C
<1>5. \E f \in [1..C -> S] : IsInjective(f)
  BY <1>3 DEF ExistsBijection, Bijection, Injection
<1>6. SetToSeq(S) \in [1..C -> S] /\ IsInjective(SetToSeq(S))
  BY <1>5 DEF SetToSeq, C
<1>7. SetToSeq(S) \in Injection(1..C, S)
  BY <1>6 DEF Injection
<1>8. Cardinality(1..C) = C
  BY <1>3, FS_Interval
<1>9. SetToSeq(S) \in Surjection(1..C, S)
  BY <1>3, <1>7, <1>8, FS_Injection DEF C
<1>10. \A x \in S : \E i \in 1..C : SetToSeq(S)[i] = x
  BY <1>9 DEF Surjection
<1>11. SetToSeq(S) \in Seq(S) /\ Len(SetToSeq(S)) = C
  BY <1>3, <1>6
<1>12. SetToSeq(S) \in Seq(DOMAIN p)
  BY <1>2, <1>3, <1>6
<1>13. \A d \in p[n].deps : Target(d, DOMAIN p) \in S
  BY DEF S
<1> QED
  BY <1>3, <1>4, <1>10, <1>11, <1>12, <1>13

\* A graph, as the lists of the neighbours of finitely many nodes.
Lists(E) ==
  /\ IsFiniteSet(DOMAIN E)
  /\ \A n \in DOMAIN E : E[n] \in Seq(DOMAIN E) /\ Len(E[n]) <= Cardinality(DOMAIN E)

\* A state of the search, and the node and the number at a place of its stack.
Entry(E) == (DOMAIN E) \X Nat

LEMMA EntryOf ==
  ASSUME NEW E, NEW n \in DOMAIN E, NEW i \in Nat
  PROVE  <<n, i>> \in Entry(E)
  BY DEF Entry

LEMMA EntryParts ==
  ASSUME NEW E, NEW x \in Entry(E)
  PROVE  x = <<x[1], x[2]>> /\ x[1] \in DOMAIN E /\ x[2] \in Nat
  BY DEF Entry

SearchType(E, s) ==
  s \in [stack : Seq(Entry(E)),
         color : [DOMAIN E -> {"WHITE", "GREY", "BLACK"}],
         cycle : BOOLEAN]

At(s, j) == s.stack[j][1]
Seen(s, j) == s.stack[j][2]
Depth(s) == Len(s.stack)

\* The stack is a path: each node but the last is passing the next one, and what
\* it passed before is finished; a node is grey from its first turn to its last.
PathInv(E, s) ==
  /\ \A j \in 1..Depth(s) : Seen(s, j) <= Len(E[At(s, j)])
  /\ \A j \in 1..Depth(s) : s.color[At(s, j)] = IF Seen(s, j) = 0 THEN "WHITE" ELSE "GREY"
  /\ \A j \in 1..(Depth(s) - 1) : Seen(s, j) > 0 /\ E[At(s, j)][Seen(s, j)] = At(s, j + 1)
  /\ \A j \in 1..Depth(s) : \A m \in 1..Seen(s, j) :
       (j < Depth(s) /\ m = Seen(s, j)) \/ s.color[E[At(s, j)][m]] = "BLACK"
  /\ \A j, k \in 1..Depth(s) : At(s, j) = At(s, k) => j = k
  /\ \A n \in DOMAIN E : s.color[n] = "GREY" => \E j \in 1..Depth(s) : At(s, j) = n

Rests(E, s) == s.stack = <<>> /\ \A n \in DOMAIN E : s.color[n] # "WHITE"

SameBelow(s, t, d) == \A j \in 1..d : t.stack[j] = s.stack[j]

\* The search begins at a node, finishes one, or goes on to the next neighbour.
Begins(E, s, t) ==
  /\ Depth(s) = 0
  /\ \E n \in DOMAIN E : s.color[n] = "WHITE" /\ t.stack = << <<n, 0>> >>
  /\ t.color = s.color

Finishes(E, s, t) ==
  /\ Depth(s) > 0 /\ Seen(s, Depth(s)) = Len(E[At(s, Depth(s))])
  /\ Depth(t) = Depth(s) - 1 /\ SameBelow(s, t, Depth(s) - 1)
  /\ t.color = [s.color EXCEPT ![At(s, Depth(s))] = "BLACK"]

GoesOn(E, s, t) ==
  LET n == At(s, Depth(s))
      next == E[n][Seen(s, Depth(s)) + 1]
  IN  /\ Depth(s) > 0 /\ Seen(s, Depth(s)) < Len(E[n])
      /\ SameBelow(s, t, Depth(s) - 1) /\ t.stack[Depth(s)] = <<n, Seen(s, Depth(s)) + 1>>
      /\ t.color = [s.color EXCEPT ![n] = "GREY"]
      /\ \/ t.color[next] = "BLACK" /\ Depth(t) = Depth(s)
         \/ t.color[next] = "WHITE" /\ Depth(t) = Depth(s) + 1 /\ t.stack[Depth(t)] = <<next, 0>>

\* A sequence with one more element at its end, or one less.
LEMMA Pushed ==
  ASSUME NEW D, NEW q \in Seq(D), NEW x \in D
  PROVE  /\ Append(q, x) \in Seq(D) /\ Len(Append(q, x)) = Len(q) + 1
         /\ Append(q, x)[Len(q) + 1] = x /\ \A j \in 1..Len(q) : Append(q, x)[j] = q[j]
         /\ <<x>> \in Seq(D) /\ q \o <<x>> = Append(q, x)
  OBVIOUS

LEMMA Popped ==
  ASSUME NEW D, NEW q \in Seq(D), q # << >>
  PROVE  /\ Len(q) \in Nat \ {0} /\ q[Len(q)] \in D
         /\ Front(q) \in Seq(D) /\ Len(Front(q)) = Len(q) - 1
         /\ \A j \in 1..(Len(q) - 1) : Front(q)[j] = q[j]
<1>1. Len(q) \in Nat \ {0} /\ q[Len(q)] \in D
  OBVIOUS
<1>2. Front(q) = [j \in 1..(Len(q) - 1) |-> q[j]]
  BY <1>1 DEF Front
<1> QED
  BY <1>1, <1>2

LEMMA Turn ==
  ASSUME NEW E, NEW s, Lists(E), SearchType(E, s), PathInv(E, s), ~s.cycle,
         NEW t, t = Search(E, s), ~t.cycle
  PROVE  /\ SearchType(E, t)
         /\ \/ Rests(E, s) /\ t = s
            \/ Begins(E, s, t) \/ Finishes(E, s, t) \/ GoesOn(E, s, t)
<1> DEFINE d == Depth(s)
           n == At(s, d)
           i == Seen(s, d)
<1>1. /\ s.stack \in Seq(Entry(E)) /\ s.color \in [DOMAIN E -> {"WHITE", "GREY", "BLACK"}]
      /\ DOMAIN s.color = DOMAIN E /\ d \in Nat
  BY DEF SearchType, Depth
<1>2. CASE s.stack = <<>> /\ \E m \in DOMAIN E : s.color[m] = "WHITE"
  <2> DEFINE white == {m \in DOMAIN s.color : s.color[m] = "WHITE"}
             c == CHOOSE m \in white : TRUE
  <2>1. c \in DOMAIN E /\ s.color[c] = "WHITE" /\ white # {}
    BY <1>1, <1>2
  <2>2. t = [s EXCEPT !.stack = << <<c, 0>> >>]
    BY <1>2, <2>1 DEF Search
  <2>3. << <<c, 0>> >> \in Seq(Entry(E))
    <3>1. <<c, 0>> \in Entry(E)
      BY <2>1, EntryOf
    <3> QED
      BY <1>1, <3>1, Pushed
  <2> HIDE DEF c, white
  <2>4. t.stack = << <<c, 0>> >> /\ t.color = s.color /\ SearchType(E, t)
    BY <2>2, <2>3 DEF SearchType
  <2> QED
    BY <1>2, <2>1, <2>4 DEF Begins, Depth
<1>3. CASE s.stack = <<>> /\ ~\E m \in DOMAIN E : s.color[m] = "WHITE"
  BY <1>1, <1>3 DEF Search, Rests
<1>4. CASE s.stack # <<>>
  <2>1. d \in Nat \ {0} /\ d \in 1..d
    BY <1>1, <1>4 DEF Depth
  <2>2. s.stack[d] \in Entry(E)
    BY <1>1, <1>4, Popped DEF Depth
  <2>3. n \in DOMAIN E /\ i \in Nat /\ s.stack[d] = <<n, i>>
    BY <2>2, EntryParts DEF At, Seen
  <2>4. /\ E[n] \in Seq(DOMAIN E) /\ Len(E[n]) \in Nat /\ i <= Len(E[n])
        /\ s.color[n] = IF i = 0 THEN "WHITE" ELSE "GREY"
    BY <2>1, <2>3 DEF Lists, PathInv
  <2>5. Last(s.stack) = s.stack[d]
    BY DEF Last, Depth
  <2>6. /\ Front(s.stack) \in Seq(Entry(E)) /\ Len(Front(s.stack)) = d - 1
        /\ \A j \in 1..(d - 1) : Front(s.stack)[j] = s.stack[j]
    BY <1>1, <1>4, Popped DEF Depth
  <2> DEFINE grey == [s.color EXCEPT ![n] = "GREY"]
             color == IF i = 0 THEN grey ELSE s.color
  <2>7. color = grey
    <3>1. CASE i = 0
      BY <3>1
    <3>2. CASE i # 0
      <4>1. s.color[n] = "GREY"
        BY <2>4, <3>2
      <4> QED
        BY <1>1, <2>3, <3>2, <4>1
    <3> QED
      BY <3>1, <3>2
  <2>8. t = Visit(E, s)
    BY <1>4 DEF Search
  <2>9. CASE i = Len(E[n])
    <3>1. t = [s EXCEPT !.stack = Front(s.stack), !.color = [color EXCEPT ![n] = "BLACK"]]
      <4>1. Last(s.stack)[1] = n /\ Last(s.stack)[2] = i
        BY <2>3, <2>5
      <4> QED
        BY <2>8, <2>9, <4>1 DEF Visit
    <3>2. [grey EXCEPT ![n] = "BLACK"] = [s.color EXCEPT ![n] = "BLACK"]
      BY <1>1
    <3>3. [s.color EXCEPT ![n] = "BLACK"] \in [DOMAIN E -> {"WHITE", "GREY", "BLACK"}]
      BY <1>1
    <3> HIDE DEF n, i, d, color, grey
    <3>4. /\ t.stack = Front(s.stack) /\ t.color = [s.color EXCEPT ![n] = "BLACK"]
          /\ SearchType(E, t)
      <4>1. t = [s EXCEPT !.stack = Front(s.stack), !.color = [s.color EXCEPT ![n] = "BLACK"]]
        BY <2>7, <3>1, <3>2
      <4> QED
        BY <2>6, <3>3, <4>1 DEF SearchType
    <3>5. Depth(t) = d - 1 /\ SameBelow(s, t, d - 1)
      BY <2>6, <3>4 DEF Depth, SameBelow
    <3> QED
      BY <2>1, <2>9, <3>4, <3>5 DEF Finishes, d, n, i
  <2>10. CASE i # Len(E[n])
    <3> DEFINE next == E[n][i + 1]
               base == Append(Front(s.stack), <<n, i + 1>>)
    <3>1. next \in DOMAIN E
      BY <2>3, <2>4, <2>10
    <3>2. t = [stack |-> base \o IF color[next] = "WHITE" THEN << <<next, 0>> >> ELSE << >>,
               color |-> color, cycle |-> ClosesCycle(color, n, next)]
      <4>1. Last(s.stack)[1] = n /\ Last(s.stack)[2] = i
        BY <2>3, <2>5
      <4> QED
        BY <2>8, <2>10, <4>1 DEF Visit
    <3>3. /\ base \in Seq(Entry(E)) /\ Len(base) = d
          /\ \A j \in 1..(d - 1) : base[j] = s.stack[j]
          /\ base[d] = <<n, i + 1>>
      <4>1. <<n, i + 1>> \in Entry(E)
        BY <2>3, EntryOf
      <4> DEFINE x == <<n, i + 1>>
                 q == Front(s.stack)
      <4> HIDE DEF n, i, d, x, q
      <4>2. Len(q) = d - 1 /\ Len(q) + 1 = d /\ base = Append(q, x)
        BY <2>1, <2>6 DEF x, q
      <4>3. q \in Seq(Entry(E)) /\ x \in Entry(E)
        BY <2>6, <4>1 DEF x, q
      <4>4. /\ Append(q, x) \in Seq(Entry(E)) /\ Len(Append(q, x)) = Len(q) + 1
            /\ Append(q, x)[Len(q) + 1] = x /\ \A j \in 1..Len(q) : Append(q, x)[j] = q[j]
        BY <4>3, Pushed
      <4>5. \A j \in 1..(d - 1) : q[j] = s.stack[j]
        BY <2>6 DEF q
      <4> QED
        BY <4>2, <4>4, <4>5 DEF x
    <3>4. grey \in [DOMAIN E -> {"WHITE", "GREY", "BLACK"}]
      BY <1>1
    <3> HIDE DEF n, i, d, color, grey, next, base
    <3>5. t.color = grey /\ grey[next] # "GREY"
      <4>1. t.color = color /\ t.cycle = ClosesCycle(color, n, next)
        BY <3>2
      <4> QED
        BY <2>7, <4>1 DEF ClosesCycle
    <3>6. CASE grey[next] = "WHITE"
      <4>1. t.stack = base \o << <<next, 0>> >>
        BY <2>7, <3>2, <3>6
      <4>2. <<next, 0>> \in Entry(E)
        BY <3>1, EntryOf
      <4>3. /\ t.stack \in Seq(Entry(E)) /\ Len(t.stack) = d + 1 /\ t.stack[d + 1] = <<next, 0>>
            /\ \A j \in 1..d : t.stack[j] = base[j]
        <5> DEFINE x == <<next, 0>>
        <5>1. x \in Entry(E) /\ t.stack = base \o <<x>> /\ base \in Seq(Entry(E)) /\ Len(base) = d
          BY <3>3, <4>1, <4>2
        <5> SUFFICES /\ t.stack \in Seq(Entry(E)) /\ Len(t.stack) = d + 1 /\ t.stack[d + 1] = x
                     /\ \A j \in 1..d : t.stack[j] = base[j]
          OBVIOUS
        <5> HIDE DEF x
        <5>2. /\ Append(base, x) \in Seq(Entry(E)) /\ Len(Append(base, x)) = Len(base) + 1
              /\ Append(base, x)[Len(base) + 1] = x
              /\ \A j \in 1..Len(base) : Append(base, x)[j] = base[j]
              /\ base \o <<x>> = Append(base, x)
          BY <5>1, Pushed
        <5> QED
          BY <5>1, <5>2
      <4>4. SearchType(E, t)
        BY <2>7, <3>2, <3>4, <4>1, <4>3 DEF SearchType, ClosesCycle
      <4>5. SameBelow(s, t, d - 1) /\ t.stack[d] = <<n, i + 1>> /\ Depth(t) = d + 1
        BY <2>1, <3>3, <4>3 DEF SameBelow, Depth
      <4>6. d > 0 /\ i < Len(E[n])
        BY <2>1, <2>3, <2>4, <2>10
      <4> QED
        BY <3>5, <3>6, <4>3, <4>4, <4>5, <4>6 DEF GoesOn, n, i, d, grey, next
    <3>7. CASE grey[next] = "BLACK"
      <4>1. t.stack = base
        BY <2>7, <3>2, <3>3, <3>7
      <4>2. SearchType(E, t)
        BY <2>7, <3>2, <3>3, <3>4, <4>1 DEF SearchType, ClosesCycle
      <4>3. SameBelow(s, t, d - 1) /\ t.stack[d] = <<n, i + 1>> /\ Depth(t) = d
        BY <2>1, <3>3, <4>1 DEF SameBelow, Depth
      <4>4. d > 0 /\ i < Len(E[n])
        BY <2>1, <2>3, <2>4, <2>10
      <4> QED
        BY <3>5, <3>7, <4>2, <4>3, <4>4 DEF GoesOn, n, i, d, grey, next
    <3> QED
      BY <3>1, <3>4, <3>5, <3>6, <3>7
  <2> QED
    BY <2>9, <2>10
<1> QED
  BY <1>2, <1>3, <1>4

\* What is on the stack is a node and a number.
LEMMA StackParts ==
  ASSUME NEW E, NEW s, SearchType(E, s)
  PROVE  /\ Depth(s) \in Nat
         /\ \A j \in 1..Depth(s) : /\ At(s, j) \in DOMAIN E /\ Seen(s, j) \in Nat
                                   /\ s.stack[j] = <<At(s, j), Seen(s, j)>>
         /\ \A n \in DOMAIN E : s.color[n] \in {"WHITE", "GREY", "BLACK"}
<1>1. s.stack \in Seq(Entry(E)) /\ s.color \in [DOMAIN E -> {"WHITE", "GREY", "BLACK"}]
  BY DEF SearchType
<1>2. Depth(s) \in Nat /\ \A j \in 1..Depth(s) : s.stack[j] \in Entry(E)
  BY <1>1 DEF Depth
<1> QED
  BY <1>1, <1>2, EntryParts DEF At, Seen

LEMMA SameParts ==
  ASSUME NEW s, NEW t, NEW d, SameBelow(s, t, d)
  PROVE  \A j \in 1..d : At(t, j) = At(s, j) /\ Seen(t, j) = Seen(s, j)
  BY DEF SameBelow, At, Seen

\* What a step of the search does to the colors.
LEMMA Colors ==
  ASSUME NEW E, NEW s, SearchType(E, s), NEW n \in DOMAIN E, NEW c, NEW color,
         color = [s.color EXCEPT ![n] = c]
  PROVE  color[n] = c /\ \A m \in DOMAIN E \ {n} : color[m] = s.color[m]
  BY DEF SearchType

LEMMA PathFinishes ==
  ASSUME NEW E, Lists(E), NEW s, NEW t, SearchType(E, s), SearchType(E, t), PathInv(E, s),
         Finishes(E, s, t)
  PROVE  PathInv(E, t)
<1> DEFINE d == Depth(s)
           n == At(s, d)
<1>1. d \in Nat \ {0} /\ d \in 1..d /\ Depth(t) = d - 1
  BY StackParts DEF Finishes
<1>2. n \in DOMAIN E /\ \A j \in 1..d : At(s, j) \in DOMAIN E /\ Seen(s, j) \in Nat
  BY <1>1, StackParts
<1>3. \A j \in 1..(d - 1) : At(t, j) = At(s, j) /\ Seen(t, j) = Seen(s, j)
  BY SameParts DEF Finishes
<1>4. t.color[n] = "BLACK" /\ \A m \in DOMAIN E \ {n} : t.color[m] = s.color[m]
  BY <1>2, Colors DEF Finishes
<1>5. \A j \in 1..(d - 1) : At(s, j) # n
  BY <1>1 DEF PathInv
<1>6. \A m \in DOMAIN E : s.color[m] = "BLACK" => t.color[m] = "BLACK"
  BY <1>4
<1>7. \A j \in 1..(d - 1) : \A m \in 1..Seen(s, j) : E[At(s, j)][m] \in DOMAIN E
  <2> SUFFICES ASSUME NEW j \in 1..(d - 1), NEW m \in 1..Seen(s, j)
               PROVE  E[At(s, j)][m] \in DOMAIN E
    OBVIOUS
  <2>1. j \in 1..d
    BY <1>1
  <2>2. E[At(s, j)] \in Seq(DOMAIN E) /\ Seen(s, j) <= Len(E[At(s, j)]) /\ Seen(s, j) \in Nat
    BY <1>2, <2>1 DEF Lists, PathInv
  <2> QED
    BY <2>2
<1> HIDE DEF n, d
<1>8. \A j \in 1..(d - 1) : j \in 1..d
  BY <1>1
<1>9. \A j \in 1..Depth(t) : Seen(t, j) <= Len(E[At(t, j)])
  BY <1>1, <1>3, <1>8 DEF PathInv, d
<1>10. \A j \in 1..Depth(t) : t.color[At(t, j)] = IF Seen(t, j) = 0 THEN "WHITE" ELSE "GREY"
  <2> SUFFICES ASSUME NEW j \in 1..(d - 1)
               PROVE  t.color[At(s, j)] = IF Seen(s, j) = 0 THEN "WHITE" ELSE "GREY"
    BY <1>1, <1>3
  <2> QED
    BY <1>2, <1>4, <1>5, <1>8 DEF PathInv, d
<1>11. \A j \in 1..(Depth(t) - 1) : Seen(t, j) > 0 /\ E[At(t, j)][Seen(t, j)] = At(t, j + 1)
  <2> SUFFICES ASSUME NEW j \in 1..(d - 2)
               PROVE  Seen(s, j) > 0 /\ E[At(s, j)][Seen(s, j)] = At(s, j + 1)
                        /\ j \in 1..(d - 1) /\ j + 1 \in 1..(d - 1)
    BY <1>1, <1>3
  <2>1. j \in 1..(d - 1) /\ j + 1 \in 1..(d - 1)
    BY <1>1
  <2> QED
    BY <2>1 DEF PathInv, d
<1>12. \A j \in 1..Depth(t) : \A m \in 1..Seen(t, j) :
         (j < Depth(t) /\ m = Seen(t, j)) \/ t.color[E[At(t, j)][m]] = "BLACK"
  <2> SUFFICES ASSUME NEW j \in 1..(d - 1), NEW m \in 1..Seen(s, j)
               PROVE  (j < d - 1 /\ m = Seen(s, j)) \/ t.color[E[At(s, j)][m]] = "BLACK"
    BY <1>1, <1>3
  <2>1. (j < d /\ m = Seen(s, j)) \/ s.color[E[At(s, j)][m]] = "BLACK"
    BY <1>8 DEF PathInv, d
  <2>2. CASE s.color[E[At(s, j)][m]] = "BLACK"
    BY <1>6, <1>7, <2>2
  <2>3. CASE m = Seen(s, j) /\ ~(j < d - 1)
    <3>1. j = d - 1
      BY <1>1, <2>3
    <3>2. E[At(s, j)][m] = At(s, j + 1)
      BY <2>3 DEF PathInv, d
    <3>3. At(s, j + 1) = n
      BY <1>1, <3>1 DEF n
    <3> QED
      BY <1>4, <3>2, <3>3
  <2> QED
    BY <2>1, <2>2, <2>3
<1>13. \A j, k \in 1..Depth(t) : At(t, j) = At(t, k) => j = k
  BY <1>1, <1>3, <1>8 DEF PathInv, d
<1>14. \A m \in DOMAIN E : t.color[m] = "GREY" => \E j \in 1..Depth(t) : At(t, j) = m
  <2> SUFFICES ASSUME NEW m \in DOMAIN E, t.color[m] = "GREY"
               PROVE  \E j \in 1..(d - 1) : At(s, j) = m
    BY <1>1, <1>3
  <2>1. m # n /\ s.color[m] = "GREY"
    BY <1>4
  <2>2. PICK j \in 1..d : At(s, j) = m
    BY <2>1 DEF PathInv, d
  <2>3. j # d
    BY <2>1, <2>2 DEF n
  <2> QED
    BY <1>1, <2>2, <2>3
<1> QED
  BY <1>9, <1>10, <1>11, <1>12, <1>13, <1>14 DEF PathInv

LEMMA PathGoesOn ==
  ASSUME NEW E, Lists(E), NEW s, NEW t, SearchType(E, s), SearchType(E, t), PathInv(E, s),
         GoesOn(E, s, t)
  PROVE  PathInv(E, t)
<1> DEFINE d == Depth(s)
           n == At(s, d)
           i == Seen(s, d)
           next == E[n][i + 1]
<1>1. d \in Nat \ {0} /\ d \in 1..d /\ d - 1 \in Nat
  BY StackParts DEF GoesOn
<1>2. n \in DOMAIN E /\ i \in Nat /\ \A j \in 1..d : At(s, j) \in DOMAIN E /\ Seen(s, j) \in Nat
  BY <1>1, StackParts
<1>3. \A j \in 1..(d - 1) : At(t, j) = At(s, j) /\ Seen(t, j) = Seen(s, j)
  BY SameParts DEF GoesOn
<1>4. At(t, d) = n /\ Seen(t, d) = i + 1
  BY DEF GoesOn, At, Seen
<1>5. t.color[n] = "GREY" /\ \A m \in DOMAIN E \ {n} : t.color[m] = s.color[m]
  <2>1. t.color = [s.color EXCEPT ![n] = "GREY"]
    BY DEF GoesOn
  <2> QED
    BY <1>2, <2>1, Colors
<1>6. i < Len(E[n]) /\ E[n] \in Seq(DOMAIN E) /\ next \in DOMAIN E
  <2>1. i < Len(E[n]) /\ E[n] \in Seq(DOMAIN E)
    BY <1>2 DEF GoesOn, Lists
  <2> QED
    BY <1>2, <2>1
<1>7. \/ t.color[next] = "BLACK" /\ Depth(t) = d
      \/ t.color[next] = "WHITE" /\ Depth(t) = d + 1 /\ At(t, d + 1) = next /\ Seen(t, d + 1) = 0
  BY DEF GoesOn, At, Seen
<1>8. \A j \in 1..(d - 1) : At(s, j) # n /\ Seen(s, j) > 0 /\ E[At(s, j)][Seen(s, j)] = At(s, j + 1)
  BY <1>1 DEF PathInv
<1>9. s.color[n] # "BLACK"
  BY <1>1, <1>2 DEF PathInv
<1>10. \A m \in DOMAIN E : s.color[m] = "BLACK" => t.color[m] = "BLACK"
  BY <1>5, <1>9
<1>11. \A j \in 1..d : \A m \in 1..Seen(s, j) : E[At(s, j)][m] \in DOMAIN E
  <2> SUFFICES ASSUME NEW j \in 1..d, NEW m \in 1..Seen(s, j) PROVE E[At(s, j)][m] \in DOMAIN E
    OBVIOUS
  <2>1. E[At(s, j)] \in Seq(DOMAIN E) /\ Seen(s, j) <= Len(E[At(s, j)]) /\ Seen(s, j) \in Nat
    BY <1>2 DEF Lists, PathInv
  <2> QED
    BY <2>1
<1>12. \A j \in 1..d : \A m \in 1..Seen(s, j) :
         (j < d /\ m = Seen(s, j)) \/ s.color[E[At(s, j)][m]] = "BLACK"
  BY DEF PathInv
<1>13. \A j \in 1..(d - 1) : s.color[At(s, j)] = "GREY"
  <2>1. \A j \in 1..(d - 1) : j \in 1..d
    BY <1>1
  <2>2. \A j \in 1..d : s.color[At(s, j)] = IF Seen(s, j) = 0 THEN "WHITE" ELSE "GREY"
    BY DEF PathInv
  <2> QED
    BY <1>2, <1>8, <2>1, <2>2
<1>14. \A j \in 1..d : Seen(s, j) <= Len(E[At(s, j)])
  BY DEF PathInv
<1>15. \A j, k \in 1..d : At(s, j) = At(s, k) => j = k
  BY DEF PathInv
<1>16. \A m \in DOMAIN E : s.color[m] = "GREY" => \E j \in 1..d : At(s, j) = m
  BY DEF PathInv
<1>17. \A j \in 1..(d - 1) : j \in 1..d /\ j < d /\ j + 1 \in 1..d
  BY <1>1
<1>18. n = At(s, d) /\ i = Seen(s, d) /\ next = E[n][i + 1]
  OBVIOUS
<1> HIDE DEF n, d, i, next
<1>19. \A j \in 1..Depth(t) : j \in 1..(d - 1) \/ j = d \/ (j = d + 1 /\ Depth(t) = d + 1)
  BY <1>1, <1>7
<1>20. \A j \in 1..Depth(t) : Seen(t, j) <= Len(E[At(t, j)])
  <2> SUFFICES ASSUME NEW j \in 1..Depth(t) PROVE Seen(t, j) <= Len(E[At(t, j)])
    OBVIOUS
  <2>1. CASE j \in 1..(d - 1)
    BY <1>3, <1>14, <1>17, <2>1
  <2>2. CASE j = d
    BY <1>2, <1>4, <1>6, <2>2
  <2>3. CASE j = d + 1 /\ Depth(t) = d + 1
    <3>1. Seen(t, j) = 0 /\ At(t, j) = next /\ Len(E[next]) \in Nat
      BY <1>1, <1>6, <1>7, <2>3 DEF Lists
    <3> QED
      BY <3>1
  <2> QED
    BY <1>19, <2>1, <2>2, <2>3
<1>21. \A j \in 1..Depth(t) : t.color[At(t, j)] = IF Seen(t, j) = 0 THEN "WHITE" ELSE "GREY"
  <2> SUFFICES ASSUME NEW j \in 1..Depth(t)
               PROVE  t.color[At(t, j)] = IF Seen(t, j) = 0 THEN "WHITE" ELSE "GREY"
    OBVIOUS
  <2>1. CASE j \in 1..(d - 1)
    BY <1>2, <1>3, <1>5, <1>8, <1>13, <1>17, <2>1
  <2>2. CASE j = d
    BY <1>2, <1>4, <1>5, <2>2
  <2>3. CASE j = d + 1 /\ Depth(t) = d + 1
    BY <1>1, <1>7, <2>3
  <2> QED
    BY <1>19, <2>1, <2>2, <2>3
<1>22. \A j \in 1..(Depth(t) - 1) : Seen(t, j) > 0 /\ E[At(t, j)][Seen(t, j)] = At(t, j + 1)
  <2> SUFFICES ASSUME NEW j \in 1..(Depth(t) - 1)
               PROVE  Seen(t, j) > 0 /\ E[At(t, j)][Seen(t, j)] = At(t, j + 1)
    OBVIOUS
  <2>1. CASE j \in 1..(d - 1)
    <3>1. At(t, j + 1) = At(s, j + 1)
      <4>1. j + 1 \in 1..(d - 1) \/ j + 1 = d
        BY <1>1, <2>1
      <4> QED
        BY <1>3, <1>4, <1>18, <4>1
    <3> QED
      BY <1>3, <1>8, <2>1, <3>1
  <2>2. CASE j = d /\ Depth(t) = d + 1
    BY <1>1, <1>2, <1>4, <1>7, <1>18, <2>2
  <2>3. j \in 1..(d - 1) \/ (j = d /\ Depth(t) = d + 1)
    BY <1>1, <1>7
  <2> QED
    BY <2>1, <2>2, <2>3
<1>23. \A j \in 1..Depth(t) : \A m \in 1..Seen(t, j) :
         (j < Depth(t) /\ m = Seen(t, j)) \/ t.color[E[At(t, j)][m]] = "BLACK"
  <2> SUFFICES ASSUME NEW j \in 1..Depth(t), NEW m \in 1..Seen(t, j)
               PROVE  (j < Depth(t) /\ m = Seen(t, j)) \/ t.color[E[At(t, j)][m]] = "BLACK"
    OBVIOUS
  <2>1. CASE j \in 1..(d - 1)
    <3>1. At(t, j) = At(s, j) /\ Seen(t, j) = Seen(s, j) /\ j \in 1..d /\ j < Depth(t)
      BY <1>1, <1>3, <1>7, <1>17, <2>1
    <3>2. m = Seen(s, j) \/ s.color[E[At(s, j)][m]] = "BLACK"
      BY <1>12, <3>1
    <3>3. E[At(s, j)][m] \in DOMAIN E
      BY <1>11, <3>1
    <3> QED
      BY <1>10, <3>1, <3>2, <3>3
  <2>2. CASE j = d
    <3>1. At(t, j) = n /\ Seen(t, j) = i + 1
      BY <1>4, <2>2
    <3>2. CASE m = i + 1
      <4>1. E[At(t, j)][m] = next
        BY <1>18, <3>1, <3>2
      <4> QED
        BY <1>1, <1>7, <2>2, <3>1, <3>2, <4>1
    <3>3. CASE m # i + 1
      <4>1. m \in 1..i
        BY <1>2, <3>1, <3>3
      <4>2. s.color[E[n][m]] = "BLACK" /\ E[n][m] \in DOMAIN E
        BY <1>1, <1>11, <1>12, <1>18, <4>1
      <4> QED
        BY <1>10, <3>1, <4>2
    <3> QED
      BY <3>2, <3>3
  <2>3. CASE j = d + 1 /\ Depth(t) = d + 1
    <3>1. Seen(t, j) = 0
      BY <1>1, <1>7, <2>3
    <3> QED
      BY <3>1
  <2> QED
    BY <1>19, <2>1, <2>2, <2>3
<1>24. \A j, k \in 1..Depth(t) : At(t, j) = At(t, k) => j = k
  <2>1. \A j \in 1..d : At(t, j) = At(s, j) /\ t.color[At(t, j)] = "GREY"
    <3> SUFFICES ASSUME NEW j \in 1..d PROVE At(t, j) = At(s, j) /\ t.color[At(t, j)] = "GREY"
      OBVIOUS
    <3>1. CASE j = d
      BY <1>4, <1>5, <1>18, <3>1
    <3>2. CASE j # d
      <4>1. j \in 1..(d - 1)
        BY <1>1, <3>2
      <4> QED
        BY <1>2, <1>3, <1>5, <1>8, <1>13, <4>1
    <3> QED
      BY <3>1, <3>2
  <2>2. Depth(t) = d + 1 => t.color[At(t, d + 1)] = "WHITE"
    BY <1>1, <1>7
  <2>3. \A j \in 1..Depth(t) : j \in 1..d \/ (j = d + 1 /\ Depth(t) = d + 1)
    BY <1>1, <1>7
  <2> QED
    BY <1>15, <2>1, <2>2, <2>3
<1>25. \A m \in DOMAIN E : t.color[m] = "GREY" => \E j \in 1..Depth(t) : At(t, j) = m
  <2> SUFFICES ASSUME NEW m \in DOMAIN E, t.color[m] = "GREY"
               PROVE  \E j \in 1..Depth(t) : At(t, j) = m
    OBVIOUS
  <2>1. d \in 1..Depth(t) /\ \A j \in 1..(d - 1) : j \in 1..Depth(t)
    BY <1>1, <1>7
  <2>2. CASE m = n
    BY <1>4, <2>1, <2>2
  <2>3. CASE m # n
    <3>1. PICK j \in 1..d : At(s, j) = m
      BY <1>5, <1>16, <2>3
    <3>2. j \in 1..(d - 1)
      BY <1>1, <1>18, <2>3, <3>1
    <3> QED
      BY <1>3, <2>1, <3>1, <3>2
  <2> QED
    BY <2>2, <2>3
<1> QED
  BY <1>20, <1>21, <1>22, <1>23, <1>24, <1>25 DEF PathInv

LEMMA PathBegins ==
  ASSUME NEW E, Lists(E), NEW s, NEW t, SearchType(E, s), SearchType(E, t), PathInv(E, s),
         Begins(E, s, t)
  PROVE  PathInv(E, t)
<1>1. PICK n \in DOMAIN E : s.color[n] = "WHITE" /\ t.stack = << <<n, 0>> >>
  BY DEF Begins
<1>2. Depth(t) = 1 /\ At(t, 1) = n /\ Seen(t, 1) = 0 /\ t.color = s.color /\ Depth(s) = 0
  BY <1>1 DEF Begins, Depth, At, Seen
<1>3. \A m \in DOMAIN E : t.color[m] # "GREY"
  BY <1>2 DEF PathInv
<1>4. Len(E[n]) \in Nat
  BY DEF Lists
<1>5. \A j \in 1..Depth(t) : j = 1
  BY <1>2
<1> QED
  BY <1>1, <1>2, <1>3, <1>4, <1>5 DEF PathInv

\* Finished nodes have numbers that fall along every edge.
Blacks(E, s) == {n \in DOMAIN E : s.color[n] = "BLACK"}

RankInv(E, s) ==
  \E rank \in [DOMAIN E -> Nat] : \A n \in Blacks(E, s) :
    /\ rank[n] < Cardinality(Blacks(E, s))
    /\ \A i \in 1..Len(E[n]) : E[n][i] \in Blacks(E, s) /\ rank[E[n][i]] < rank[n]

\* The node on top of the stack is at its place only, and not finished.
LEMMA TopOfStack ==
  ASSUME NEW E, NEW s, SearchType(E, s), PathInv(E, s), Depth(s) > 0
  PROVE  /\ Depth(s) \in 1..Depth(s)
         /\ At(s, Depth(s)) \in DOMAIN E /\ Seen(s, Depth(s)) \in Nat
         /\ s.color[At(s, Depth(s))] \in {"WHITE", "GREY"}
         /\ \A j \in 1..Depth(s) : At(s, j) = At(s, Depth(s)) => j = Depth(s)
<1>1. Depth(s) \in 1..Depth(s)
  BY StackParts
<1> QED
  BY <1>1, StackParts DEF PathInv

LEMMA BlacksStay ==
  ASSUME NEW E, NEW s, NEW t, SearchType(E, s), PathInv(E, s),
         Begins(E, s, t) \/ GoesOn(E, s, t)
  PROVE  Blacks(E, t) = Blacks(E, s)
<1>1. CASE Begins(E, s, t)
  BY <1>1 DEF Begins, Blacks
<1>2. CASE GoesOn(E, s, t)
  <2> DEFINE n == At(s, Depth(s))
  <2>1. n \in DOMAIN E /\ s.color[n] \in {"WHITE", "GREY"}
    BY <1>2, TopOfStack DEF GoesOn
  <2>2. t.color = [s.color EXCEPT ![n] = "GREY"]
    BY <1>2 DEF GoesOn
  <2> HIDE DEF n
  <2>3. t.color[n] = "GREY" /\ \A m \in DOMAIN E \ {n} : t.color[m] = s.color[m]
    <3>1. s.color \in [DOMAIN E -> {"WHITE", "GREY", "BLACK"}]
      BY DEF SearchType
    <3> QED
      BY <2>1, <2>2, <3>1
  <2> QED
    BY <2>1, <2>3 DEF Blacks
<1> QED
  BY <1>1, <1>2

LEMMA BlacksGrow ==
  ASSUME NEW E, NEW s, NEW t, SearchType(E, s), PathInv(E, s), Finishes(E, s, t)
  PROVE  /\ Blacks(E, t) = Blacks(E, s) \cup {At(s, Depth(s))}
         /\ At(s, Depth(s)) \in DOMAIN E \ Blacks(E, s)
<1> DEFINE n == At(s, Depth(s))
<1>1. n \in DOMAIN E /\ s.color[n] \in {"WHITE", "GREY"}
  BY TopOfStack DEF Finishes
<1>2. t.color = [s.color EXCEPT ![n] = "BLACK"]
  BY DEF Finishes
<1>3. t.color[n] = "BLACK" /\ \A m \in DOMAIN E \ {n} : t.color[m] = s.color[m]
  BY <1>1, <1>2, Colors
<1> HIDE DEF n
<1>4. Blacks(E, t) = Blacks(E, s) \cup {n} /\ n \in DOMAIN E \ Blacks(E, s)
  BY <1>1, <1>3 DEF Blacks
<1> QED
  BY <1>4 DEF n

LEMMA RankFinishes ==
  ASSUME NEW E, Lists(E), NEW s, NEW t, SearchType(E, s), PathInv(E, s), RankInv(E, s),
         Finishes(E, s, t)
  PROVE  RankInv(E, t)
<1> DEFINE d == Depth(s)
           n == At(s, d)
           B == Blacks(E, s)
           C == Cardinality(B)
<1>1. PICK rank \in [DOMAIN E -> Nat] : \A m \in B :
        rank[m] < C /\ \A i \in 1..Len(E[m]) : E[m][i] \in B /\ rank[E[m][i]] < rank[m]
  BY DEF RankInv
<1>2. IsFiniteSet(B) /\ C \in Nat
  <2>1. B \in SUBSET DOMAIN E /\ IsFiniteSet(DOMAIN E)
    BY DEF Blacks, Lists
  <2> QED
    BY <2>1, FS_Subset, FS_CardinalityType
<1>3. Blacks(E, t) = B \cup {n} /\ n \in DOMAIN E \ B
  BY BlacksGrow
<1>4. Cardinality(Blacks(E, t)) = C + 1
  BY <1>2, <1>3, FS_AddElement
<1>5. \A i \in 1..Len(E[n]) : E[n][i] \in B
  <2>1. d \in 1..d /\ Seen(s, d) = Len(E[n])
    BY TopOfStack DEF Finishes
  <2>2. \A m \in 1..Seen(s, d) : s.color[E[n][m]] = "BLACK"
    BY <2>1, StackParts DEF PathInv
  <2>3. E[n] \in Seq(DOMAIN E)
    BY <1>3 DEF Lists
  <2>4. \A m \in 1..Len(E[n]) : E[n][m] \in DOMAIN E
    BY <2>3
  <2> QED
    BY <2>1, <2>2, <2>4 DEF Blacks
<1> DEFINE new == [rank EXCEPT ![n] = C]
<1> HIDE DEF n, d, B, C
<1>6. new \in [DOMAIN E -> Nat] /\ new[n] = C /\ \A m \in B : new[m] = rank[m]
  <2>1. B \subseteq DOMAIN E
    BY DEF B, Blacks
  <2> QED
    BY <1>2, <1>3, <2>1
<1>7. \A m \in B : rank[m] \in Nat
  BY DEF B, Blacks
<1>8. \A m \in B \cup {n} :
        new[m] < C + 1 /\ \A i \in 1..Len(E[m]) : E[m][i] \in B /\ new[E[m][i]] < new[m]
  <2> HIDE DEF new
  <2> SUFFICES ASSUME NEW m \in B \cup {n}
               PROVE  /\ new[m] < C + 1
                      /\ \A i \in 1..Len(E[m]) : E[m][i] \in B /\ new[E[m][i]] < new[m]
    OBVIOUS
  <2>1. CASE m = n
    BY <1>1, <1>2, <1>5, <1>6, <1>7, <2>1
  <2>2. CASE m \in B
    BY <1>1, <1>2, <1>6, <1>7, <2>2
  <2> QED
    BY <2>1, <2>2
<1> HIDE DEF new
<1> QED
  BY <1>3, <1>4, <1>6, <1>8 DEF RankInv

-----------------------------------------------------------------------------
(* The search ends.                                                        *)

\* Which turns were made: a node is begun (0), passes its neighbours one by one,
\* and is finished.
Steps(E) == (DOMAIN E) \X (0..(Cardinality(DOMAIN E) + 1))

Made(E, s) ==
  {x \in Steps(E) : \/ s.color[x[1]] = "BLACK"
                    \/ \E j \in 1..Depth(s) : At(s, j) = x[1] /\ x[2] <= Seen(s, j)}

LEMMA StepOf ==
  ASSUME NEW E, NEW n \in DOMAIN E, NEW k \in 0..(Cardinality(DOMAIN E) + 1)
  PROVE  <<n, k>> \in Steps(E) /\ <<n, k>>[1] = n /\ <<n, k>>[2] = k
  BY DEF Steps

LEMMA StepParts ==
  ASSUME NEW E, NEW x \in Steps(E)
  PROVE  x[1] \in DOMAIN E /\ x[2] \in 0..(Cardinality(DOMAIN E) + 1)
  BY DEF Steps

LEMMA MoreMade ==
  ASSUME NEW E, Lists(E), NEW s, NEW t, SearchType(E, s), PathInv(E, s),
         Begins(E, s, t) \/ Finishes(E, s, t) \/ GoesOn(E, s, t)
  PROVE  Made(E, s) \subseteq Made(E, t) /\ Made(E, s) # Made(E, t)
<1> DEFINE d == Depth(s)
           n == At(s, d)
           i == Seen(s, d)
           N == Cardinality(DOMAIN E)
<1>1. N \in Nat /\ d \in Nat
  BY StackParts, FS_CardinalityType DEF Lists
<1>2. CASE Begins(E, s, t)
  <2>1. PICK m \in DOMAIN E : s.color[m] = "WHITE" /\ t.stack = << <<m, 0>> >>
    BY <1>2 DEF Begins
  <2>2. Depth(s) = 0 /\ t.color = s.color /\ Depth(t) = 1 /\ At(t, 1) = m /\ Seen(t, 1) = 0
    BY <1>2, <2>1 DEF Begins, Depth, At, Seen
  <2>3. <<m, 0>> \in Steps(E) /\ <<m, 0>>[1] = m /\ <<m, 0>>[2] = 0
    BY <1>1, StepOf
  <2>4. Made(E, s) \subseteq Made(E, t)
    BY <2>2 DEF Made
  <2>5. <<m, 0>> \in Made(E, t)
    BY <2>2, <2>3 DEF Made
  <2>6. <<m, 0>> \notin Made(E, s)
    BY <2>1, <2>2, <2>3 DEF Made
  <2> QED
    BY <2>4, <2>5, <2>6
<1>3. CASE Finishes(E, s, t)
  <2>1. /\ d \in 1..d /\ n \in DOMAIN E /\ s.color[n] \in {"WHITE", "GREY"}
        /\ i = Len(E[n]) /\ Depth(t) = d - 1
        /\ \A j \in 1..d : At(s, j) = n => j = d
    BY <1>3, TopOfStack DEF Finishes
  <2>2. Len(E[n]) \in Nat /\ Len(E[n]) <= N
    BY <2>1 DEF Lists
  <2>3. t.color[n] = "BLACK" /\ \A m \in DOMAIN E \ {n} : t.color[m] = s.color[m]
    BY <1>3, <2>1, Colors DEF Finishes
  <2>4. \A j \in 1..(d - 1) : At(t, j) = At(s, j) /\ Seen(t, j) = Seen(s, j)
    BY <1>3, SameParts DEF Finishes
  <2>5. <<n, N + 1>> \in Steps(E) /\ <<n, N + 1>>[1] = n /\ <<n, N + 1>>[2] = N + 1
    BY <1>1, <2>1, StepOf
  <2>6. i = Seen(s, d) /\ n = At(s, d) /\ d = Depth(s)
    OBVIOUS
  <2> HIDE DEF d, n, i, N
  <2>7. Made(E, s) \subseteq Made(E, t)
    <3> SUFFICES ASSUME NEW x \in Made(E, s) PROVE x \in Made(E, t)
      OBVIOUS
    <3>1. x \in Steps(E) /\ x[1] \in DOMAIN E
      BY StepParts DEF Made
    <3>2. CASE x[1] = n \/ s.color[x[1]] = "BLACK"
      BY <2>3, <3>1, <3>2 DEF Made
    <3>3. CASE x[1] # n /\ s.color[x[1]] # "BLACK"
      <4>1. PICK j \in 1..d : At(s, j) = x[1] /\ x[2] <= Seen(s, j)
        BY <2>6, <3>3 DEF Made
      <4>2. j \in 1..(d - 1)
        BY <1>1, <2>6, <3>3, <4>1
      <4> QED
        BY <2>1, <2>4, <3>1, <4>1, <4>2 DEF Made
    <3> QED
      BY <3>2, <3>3
  <2>8. <<n, N + 1>> \in Made(E, t)
    BY <2>3, <2>5 DEF Made
  <2>9. <<n, N + 1>> \notin Made(E, s)
    <3>1. ~\E j \in 1..d : At(s, j) = n /\ N + 1 <= Seen(s, j)
      BY <1>1, <2>1, <2>2, <2>6
    <3> QED
      BY <2>1, <2>5, <2>6, <3>1 DEF Made
  <2> QED
    BY <2>7, <2>8, <2>9
<1>4. CASE GoesOn(E, s, t)
  <2>1. /\ d \in 1..d /\ n \in DOMAIN E /\ s.color[n] \in {"WHITE", "GREY"}
        /\ i < Len(E[n]) /\ i \in Nat
        /\ \A j \in 1..d : At(s, j) = n => j = d
    BY <1>4, TopOfStack DEF GoesOn
  <2>2. Len(E[n]) \in Nat /\ Len(E[n]) <= N
    BY <2>1 DEF Lists
  <2>3. Depth(t) \in {d, d + 1} /\ SameBelow(s, t, d - 1) /\ t.stack[d] = <<n, i + 1>>
    BY <1>4 DEF GoesOn
  <2>4. \A j \in 1..(d - 1) : At(t, j) = At(s, j) /\ Seen(t, j) = Seen(s, j)
    BY <2>3, SameParts
  <2>5. At(t, d) = n /\ Seen(t, d) = i + 1
    BY <2>3 DEF At, Seen
  <2>6. Blacks(E, t) = Blacks(E, s)
    BY <1>4, BlacksStay
  <2>7. <<n, i + 1>> \in Steps(E) /\ <<n, i + 1>>[1] = n /\ <<n, i + 1>>[2] = i + 1
    <3>1. i + 1 \in 0..(N + 1)
      BY <1>1, <2>1, <2>2
    <3> QED
      BY <2>1, <3>1, StepOf
  <2>8. i = Seen(s, d) /\ n = At(s, d) /\ d = Depth(s)
    OBVIOUS
  <2> HIDE DEF d, n, i, N
  <2>9. d \in 1..Depth(t) /\ \A j \in 1..(d - 1) : j \in 1..Depth(t)
    BY <1>1, <2>1, <2>3
  <2>10. Made(E, s) \subseteq Made(E, t)
    <3> SUFFICES ASSUME NEW x \in Made(E, s) PROVE x \in Made(E, t)
      OBVIOUS
    <3>1. x \in Steps(E) /\ x[1] \in DOMAIN E /\ x[2] \in Int
      <4>1. x \in Steps(E)
        BY DEF Made
      <4> QED
        BY <4>1, StepParts
    <3>2. CASE s.color[x[1]] = "BLACK"
      BY <2>6, <3>1, <3>2 DEF Made, Blacks
    <3>3. CASE s.color[x[1]] # "BLACK"
      <4>1. PICK j \in 1..d : At(s, j) = x[1] /\ x[2] <= Seen(s, j)
        BY <2>8, <3>3 DEF Made
      <4>2. CASE j \in 1..(d - 1)
        BY <2>4, <2>9, <3>1, <4>1, <4>2 DEF Made
      <4>3. CASE j = d
        <5>1. At(t, d) = x[1] /\ x[2] <= Seen(t, d)
          BY <2>1, <2>5, <2>8, <3>1, <4>1, <4>3
        <5> QED
          BY <2>9, <3>1, <5>1 DEF Made
      <4> QED
        BY <1>1, <4>2, <4>3
    <3> QED
      BY <3>2, <3>3
  <2>11. <<n, i + 1>> \in Made(E, t)
    BY <2>1, <2>5, <2>7, <2>9 DEF Made
  <2>12. <<n, i + 1>> \notin Made(E, s)
    <3>1. ~\E j \in 1..d : At(s, j) = n /\ i + 1 <= Seen(s, j)
      BY <1>1, <2>1, <2>8
    <3> QED
      BY <2>1, <2>7, <2>8, <3>1 DEF Made
  <2> QED
    BY <2>10, <2>11, <2>12
<1> QED
  BY <1>2, <1>3, <1>4

\* The search so far is sound.
SoundSearch(E, s) == SearchType(E, s) /\ PathInv(E, s) /\ RankInv(E, s)

LEMMA SoundTurn ==
  ASSUME NEW E, NEW s, NEW t, Lists(E), SoundSearch(E, s), ~s.cycle, t = Search(E, s), ~t.cycle
  PROVE  /\ SoundSearch(E, t)
         /\ \/ Rests(E, s) /\ t = s
            \/ Made(E, s) \subseteq Made(E, t) /\ Made(E, s) # Made(E, t)
<1>1. /\ SearchType(E, t)
      /\ \/ Rests(E, s) /\ t = s
         \/ Begins(E, s, t) \/ Finishes(E, s, t) \/ GoesOn(E, s, t)
  BY Turn DEF SoundSearch
<1>2. CASE Rests(E, s) /\ t = s
  BY <1>2
<1>3. CASE Begins(E, s, t)
  <2>1. PathInv(E, t) /\ Blacks(E, t) = Blacks(E, s)
    BY <1>1, <1>3, PathBegins, BlacksStay DEF SoundSearch
  <2> QED
    BY <1>1, <1>3, <2>1, MoreMade DEF SoundSearch, RankInv
<1>4. CASE GoesOn(E, s, t)
  <2>1. PathInv(E, t) /\ Blacks(E, t) = Blacks(E, s)
    BY <1>1, <1>4, PathGoesOn, BlacksStay DEF SoundSearch
  <2> QED
    BY <1>1, <1>4, <2>1, MoreMade DEF SoundSearch, RankInv
<1>5. CASE Finishes(E, s, t)
  BY <1>1, <1>5, PathFinishes, RankFinishes, MoreMade DEF SoundSearch
<1> QED
  BY <1>1, <1>2, <1>3, <1>4, <1>5

\* The first k turns of the search of p.
Searched(f, k, p) ==
  f = [i \in 0..k |-> IF i = 0 THEN Unsearched(p) ELSE Search(Edges(p), f[i - 1])]

LEMMA SearchedExist ==
  ASSUME NEW p, NEW n \in Nat
  PROVE  \E f : Searched(f, n, p)
<1> DEFINE T == {k \in Nat : ~\E f : Searched(f, k, p)}
<1> SUFFICES ASSUME T # {} PROVE FALSE
  OBVIOUS
<1>1. PICK k \in T : \A j \in T : k <= j
  BY Least
<1>2. CASE k = 0
  <2>1. Searched([i \in 0..0 |-> Unsearched(p)], 0, p)
    BY DEF Searched
  <2> QED
    BY <1>1, <1>2, <2>1
<1>3. CASE k # 0
  <2>1. k - 1 \in Nat /\ k - 1 \notin T
    BY <1>1, <1>3
  <2>2. PICK f : Searched(f, k - 1, p)
    BY <2>1
  <2> DEFINE g == [i \in 0..k |-> IF i = k THEN Search(Edges(p), f[k - 1]) ELSE f[i]]
  <2>3. \A i \in 0..k : g[i] = IF i = 0 THEN Unsearched(p) ELSE Search(Edges(p), g[i - 1])
    <3> SUFFICES ASSUME NEW i \in 0..k
                 PROVE  g[i] = IF i = 0 THEN Unsearched(p) ELSE Search(Edges(p), g[i - 1])
      OBVIOUS
    <3>1. CASE i = k
      BY <1>1, <1>3, <3>1
    <3>2. CASE i # k
      <4>1. i \in 0..(k - 1)
        BY <1>1, <3>2
      <4>2. f[i] = IF i = 0 THEN Unsearched(p) ELSE Search(Edges(p), f[i - 1])
        BY <2>2, <4>1 DEF Searched
      <4>3. g[i] = f[i]
        BY <3>2
      <4>4. i # 0 => g[i - 1] = f[i - 1]
        BY <1>1, <3>2
      <4> QED
        BY <4>2, <4>3, <4>4
    <3> QED
      BY <3>1, <3>2
  <2>4. Searched(g, k, p)
    BY <2>3 DEF Searched
  <2> QED
    BY <1>1, <2>4
<1> QED
  BY <1>2, <1>3

LEMMA TurnsInNat ==
  ASSUME NEW p \in Proposals
  PROVE  /\ Cardinality(DOMAIN p) \in Nat /\ Turns(p) \in Nat
         /\ IsFiniteSet(Steps(Edges(p))) /\ Cardinality(Steps(Edges(p))) = Turns(p)
<1> DEFINE N == Cardinality(DOMAIN p)
<1>1. IsFiniteSet(DOMAIN p) /\ N \in Nat
  BY ConstantsAssumption, FS_CardinalityType
<1>2. DOMAIN Edges(p) = DOMAIN p
  BY DEF Edges
<1> HIDE DEF N
<1>3. IsFiniteSet(0..(N + 1)) /\ Cardinality(0..(N + 1)) = N + 2
  <2>1. 0 \in Int /\ N + 1 \in Int /\ ~(0 > N + 1) /\ (N + 1) - 0 + 1 = N + 2
    BY <1>1
  <2> QED
    BY <2>1, FS_Interval
<1>4. IsFiniteSet(Steps(Edges(p))) /\ Cardinality(Steps(Edges(p))) = N * (N + 2)
  BY <1>1, <1>2, <1>3, FS_Product DEF Steps, N
<1>5. N * (N + 2) \in Nat
  BY <1>1
<1> QED
  BY <1>1, <1>4, <1>5 DEF Turns, N

LEMMA SearchingRuns ==
  ASSUME NEW p \in Proposals
  PROVE  \E f : Searched(f, Turns(p), p) /\ HasCycle(p) = f[Turns(p)].cycle
<1> DEFINE run == CHOOSE f : Searched(f, Turns(p), p)
<1>1. Searched(run, Turns(p), p)
  BY TurnsInNat, SearchedExist
<1>2. HasCycle(p) = run[Turns(p)].cycle
  BY DEF HasCycle, Searched
<1> QED
  BY <1>1, <1>2

LEMMA EdgesAreLists ==
  ASSUME NEW p \in Proposals, Resolves(p)
  PROVE  Lists(Edges(p)) /\ DOMAIN Edges(p) = DOMAIN p
<1>1. DOMAIN Edges(p) = DOMAIN p /\ IsFiniteSet(DOMAIN p)
  BY ConstantsAssumption DEF Edges
<1> QED
  BY <1>1, EdgesList DEF Lists

LEMMA SoundStart ==
  ASSUME NEW p \in Proposals
  PROVE  SoundSearch(Edges(p), Unsearched(p)) /\ ~Unsearched(p).cycle
<1> DEFINE s == Unsearched(p)
           E == Edges(p)
<1>1. DOMAIN E = DOMAIN p
  BY DEF Edges
<1>2. s.stack = << >> /\ s.color = [n \in DOMAIN p |-> "WHITE"] /\ s.cycle = FALSE
  BY DEF Unsearched
<1>3. SearchType(E, s)
  <2>1. << >> \in Seq(Entry(E))
    OBVIOUS
  <2> QED
    BY <1>1, <2>1 DEF SearchType, Unsearched
<1>4. PathInv(E, s)
  BY <1>1, <1>2 DEF PathInv, Depth
<1>5. Blacks(E, s) = {}
  BY <1>1, <1>2 DEF Blacks
<1>6. RankInv(E, s)
  <2>1. [n \in DOMAIN E |-> 0] \in [DOMAIN E -> Nat]
    OBVIOUS
  <2> QED
    BY <1>5, <2>1 DEF RankInv
<1> QED
  BY <1>2, <1>3, <1>4, <1>6 DEF SoundSearch

LEMMA RestsStays ==
  ASSUME NEW E, NEW s, SearchType(E, s), Rests(E, s)
  PROVE  Search(E, s) = s
<1>1. DOMAIN s.color = DOMAIN E /\ s.stack = << >>
  BY DEF SearchType, Rests
<1>2. {n \in DOMAIN s.color : s.color[n] = "WHITE"} = {}
  BY <1>1 DEF Rests
<1> QED
  BY <1>1, <1>2 DEF Search

\* After as many turns as HasCycle makes, a search that met no cycle is through.
LEMMA SearchEnds ==
  ASSUME NEW p \in Proposals, Resolves(p), ~HasCycle(p)
  PROVE  \E s : SoundSearch(Edges(p), s) /\ Rests(Edges(p), s)
<1> DEFINE E == Edges(p)
           N == Turns(p)
<1>1. PICK f : Searched(f, N, p) /\ ~f[N].cycle
  BY SearchingRuns
<1>2. N \in Nat /\ IsFiniteSet(Steps(E)) /\ Cardinality(Steps(E)) = N
  BY TurnsInNat
<1>3. Lists(E)
  BY EdgesAreLists
<1>4. f[0] = Unsearched(p) /\ \A k \in 1..N : f[k] = Search(E, f[k - 1])
  BY <1>1, <1>2 DEF Searched
<1>5. SoundSearch(E, f[0]) /\ ~f[0].cycle
  BY <1>4, SoundStart
<1>6. \A k \in 1..N : f[k - 1].cycle => f[k].cycle
  <2> SUFFICES ASSUME NEW k \in 1..N, f[k - 1].cycle PROVE f[k].cycle
    OBVIOUS
  <2>1. f[k] = f[k - 1]
    BY <1>4 DEF Search
  <2> QED
    BY <2>1
<1> HIDE DEF E, N
\* No turn meets a cycle: the last would have it.
<1>7. \A k \in 0..N : ~f[k].cycle
  <2> DEFINE T == {k \in 0..N : f[N - k].cycle}
  <2>1. T = {}
    <3> SUFFICES ASSUME T # {} PROVE FALSE
      OBVIOUS
    <3>1. T \in SUBSET Nat
      BY <1>2
    <3>2. PICK k \in T : \A j \in T : k <= j
      BY <3>1, Least
    <3>3. N - k \in 0..N /\ f[N - k].cycle /\ k \in 0..N
      BY <1>2, <3>2
    <3>4. k # 0
      <4>1. N - 0 = N
        BY <1>2
      <4> QED
        BY <1>1, <3>3, <4>1
    <3>5. N - k + 1 \in 1..N /\ N - k + 1 - 1 = N - k
      BY <1>2, <3>3, <3>4
    <3>6. f[N - k + 1].cycle
      BY <1>6, <3>3, <3>5
    <3>7. k - 1 \in 0..N /\ N - (k - 1) = N - k + 1
      BY <1>2, <3>3, <3>4
    <3>8. k - 1 \in T /\ ~(k <= k - 1)
      BY <3>3, <3>6, <3>7
    <3> QED
      BY <3>2, <3>8
  <2> SUFFICES ASSUME NEW k \in 0..N, f[k].cycle PROVE FALSE
    OBVIOUS
  <2>2. N - k \in 0..N /\ N - (N - k) = k
    BY <1>2
  <2> QED
    BY <2>1, <2>2
<1> DEFINE Through(k) == SoundSearch(E, f[k]) /\ (Rests(E, f[k]) \/ Cardinality(Made(E, f[k])) >= k)
<1>8. \A s : /\ IsFiniteSet(Made(E, s))
             /\ Cardinality(Made(E, s)) \in Nat /\ Cardinality(Made(E, s)) <= N
  <2> SUFFICES ASSUME NEW s PROVE IsFiniteSet(Made(E, s)) /\ Cardinality(Made(E, s)) \in Nat
                                    /\ Cardinality(Made(E, s)) <= N
    OBVIOUS
  <2>1. Made(E, s) \in SUBSET Steps(E)
    BY DEF Made
  <2> QED
    BY <1>2, <2>1, FS_Subset, FS_CardinalityType
<1>9. Through(0)
  BY <1>5, <1>8
<1>10. ASSUME NEW k \in 1..N, Through(k - 1) PROVE Through(k)
  <2>1. f[k] = Search(E, f[k - 1]) /\ ~f[k].cycle /\ ~f[k - 1].cycle
    BY <1>2, <1>4, <1>7
  <2>2. /\ SoundSearch(E, f[k])
        /\ \/ Rests(E, f[k - 1]) /\ f[k] = f[k - 1]
           \/ /\ Made(E, f[k - 1]) \subseteq Made(E, f[k])
              /\ Made(E, f[k - 1]) # Made(E, f[k])
    BY <1>3, <1>10, <2>1, SoundTurn
  <2>3. CASE Rests(E, f[k - 1]) /\ f[k] = f[k - 1]
    BY <2>2, <2>3
  <2>4. CASE ~Rests(E, f[k - 1])
    <3>1. Cardinality(Made(E, f[k - 1])) >= k - 1
      BY <1>10, <2>4
    <3>2. Made(E, f[k - 1]) \in SUBSET Made(E, f[k]) /\ Made(E, f[k - 1]) # Made(E, f[k])
      BY <2>2, <2>4
    <3>3. /\ Cardinality(Made(E, f[k - 1])) <= Cardinality(Made(E, f[k]))
          /\ Cardinality(Made(E, f[k])) # Cardinality(Made(E, f[k - 1]))
      BY <1>8, <3>2, FS_Subset
    <3>4. Cardinality(Made(E, f[k])) >= k
      BY <1>8, <3>1, <3>3
    <3> QED
      BY <2>2, <3>4
  <2>5. CASE Rests(E, f[k - 1]) /\ f[k] # f[k - 1]
    <3>1. Made(E, f[k - 1]) # Made(E, f[k])
      BY <2>2, <2>5
    <3>2. f[k] = f[k - 1]
      <4>1. SearchType(E, f[k - 1])
        BY <1>10 DEF SoundSearch
      <4> QED
        BY <2>1, <2>5, <4>1, RestsStays
    <3> QED
      BY <2>5, <3>2
  <2> QED
    BY <2>3, <2>4, <2>5
<1>11. Through(N)
  <2> DEFINE T == {k \in 0..N : ~Through(k)}
  <2> HIDE DEF Through
  <2> SUFFICES ASSUME T # {} PROVE FALSE
    BY <1>2
  <2>1. T \in SUBSET Nat
    BY <1>2
  <2>2. PICK k \in T : \A j \in T : k <= j
    BY <2>1, Least
  <2>3. k # 0
    BY <1>9, <2>2
  <2>4. k \in 1..N /\ k - 1 \in 0..N /\ k - 1 \notin T
    BY <1>2, <2>2, <2>3
  <2>5. Through(k - 1)
    BY <2>4
  <2> QED
    BY <1>10, <2>2, <2>4, <2>5
<1>12. Rests(E, f[N])
  <2> SUFFICES ASSUME ~Rests(E, f[N]) PROVE FALSE
    OBVIOUS
  <2>1. Made(E, f[N]) = Steps(E)
    <3>1. Cardinality(Made(E, f[N])) >= N
      BY <1>11
    <3>2. Cardinality(Made(E, f[N])) = N
      BY <1>2, <1>8, <3>1
    <3>3. Made(E, f[N]) \in SUBSET Steps(E)
      BY DEF Made
    <3> QED
      BY <1>2, <3>2, <3>3, FS_Subset
  <2>2. SearchType(E, f[N]) /\ PathInv(E, f[N])
    BY <1>11 DEF SoundSearch
  <2> DEFINE C == Cardinality(DOMAIN E)
  <2>3. C \in Nat
    BY <1>3, FS_CardinalityType DEF Lists
  <2>4. ASSUME NEW n \in DOMAIN E PROVE f[N].color[n] = "BLACK"
    <3>1. <<n, C + 1>> \in Steps(E) /\ <<n, C + 1>>[1] = n /\ <<n, C + 1>>[2] = C + 1
      <4>1. C + 1 \in 0..(C + 1)
        BY <2>3
      <4> QED
        BY <4>1, StepOf
    <3>2. \/ f[N].color[n] = "BLACK"
          \/ \E j \in 1..Depth(f[N]) : At(f[N], j) = n /\ C + 1 <= Seen(f[N], j)
      BY <2>1, <3>1 DEF Made
    <3>3. ASSUME NEW j \in 1..Depth(f[N]), At(f[N], j) = n PROVE ~(C + 1 <= Seen(f[N], j))
      <4>1. Seen(f[N], j) \in Nat /\ Seen(f[N], j) <= Len(E[n])
        BY <2>2, <3>3, StackParts DEF PathInv
      <4>2. Len(E[n]) \in Nat /\ Len(E[n]) <= C
        BY <1>3 DEF Lists
      <4> QED
        BY <2>3, <4>1, <4>2
    <3> QED
      BY <3>2, <3>3
  <2>5. Depth(f[N]) = 0
    <3> SUFFICES ASSUME Depth(f[N]) # 0 PROVE FALSE
      OBVIOUS
    <3>1. Depth(f[N]) > 0
      BY <2>2, StackParts
    <3> QED
      BY <2>2, <2>4, <3>1, TopOfStack
  <2>6. f[N].stack \in Seq(Entry(E))
    BY <2>2 DEF SearchType
  <2>7. f[N].stack = << >>
    BY <2>5, <2>6 DEF Depth
  <2> QED
    BY <2>4, <2>7 DEF Rests
<1> QED
  BY <1>11, <1>12 DEF E

\* What the validator's search means: the nodes of a valid plan have numbers that
\* fall along every dependency, as it resolves them.
Ranks(p, rank) ==
  /\ rank \in [DOMAIN p -> Nat]
  /\ \A n \in DOMAIN p : /\ rank[n] < Cardinality(DOMAIN p)
                         /\ \A d \in p[n].deps : /\ Target(d, DOMAIN p) \in DOMAIN p
                                                 /\ rank[Target(d, DOMAIN p)] < rank[n]

LEMMA ValidRanks ==
  ASSUME NEW p \in Proposals, Valid(p)
  PROVE  \E rank : Ranks(p, rank)
<1> DEFINE G == Edges(p)
<1>1. Resolves(p) /\ ~HasCycle(p)
  BY DEF Valid
<1>2. Lists(G) /\ DOMAIN G = DOMAIN p
  BY <1>1, EdgesAreLists
<1>3. PICK s : SoundSearch(G, s) /\ Rests(G, s)
  BY <1>1, SearchEnds
<1>4. SearchType(G, s) /\ PathInv(G, s) /\ RankInv(G, s) /\ Depth(s) = 0
  BY <1>3 DEF SoundSearch, Rests, Depth
<1>5. Blacks(G, s) = DOMAIN p
  <2> SUFFICES ASSUME NEW n \in DOMAIN G PROVE s.color[n] = "BLACK"
    BY <1>2 DEF Blacks
  <2>1. s.color[n] \in {"WHITE", "GREY", "BLACK"} /\ s.color[n] # "WHITE"
    BY <1>3, <1>4, StackParts DEF Rests
  <2>2. s.color[n] # "GREY"
    BY <1>4 DEF PathInv
  <2> QED
    BY <2>1, <2>2
<1>6. PICK rank \in [DOMAIN p -> Nat] : \A n \in DOMAIN p :
        /\ rank[n] < Cardinality(DOMAIN p)
        /\ \A i \in 1..Len(G[n]) : G[n][i] \in DOMAIN p /\ rank[G[n][i]] < rank[n]
  BY <1>2, <1>4, <1>5 DEF RankInv
<1>7. ASSUME NEW n \in DOMAIN p, NEW d \in p[n].deps
      PROVE  Target(d, DOMAIN p) \in DOMAIN p /\ rank[Target(d, DOMAIN p)] < rank[n]
  <2>1. PICK i \in 1..Len(G[n]) : G[n][i] = Target(d, DOMAIN p)
    BY <1>1, EdgesList
  <2> QED
    BY <1>6, <2>1
<1> QED
  BY <1>6, <1>7 DEF Ranks

\* A node's bases are what the validator resolves its dependencies to, unless an
\* id is itself a pattern.
LEMMA BasesAreTargets ==
  ASSUME NEW p, NEW n \in DOMAIN p, DOMAIN p \cap Pattern = {}, NEW b \in Bases(p, n)
  PROVE  b \in DOMAIN p /\ \E d \in p[n].deps : Target(d, DOMAIN p) = b
<1>1. b \in DOMAIN p
  BY DEF Bases
<1>2. PICK d \in p[n].deps : Strip(d) = b
  BY DEF Bases
<1>3. Target(d, DOMAIN p) = b
  BY <1>1, <1>2 DEF Strip, Target
<1> QED
  BY <1>1, <1>3

\* The layering comes to rest on every plan the validator accepts, unless an id is
\* itself a pattern.
LEMMA ValidRests ==
  ASSUME NEW p \in Proposals, Valid(p), DOMAIN p \cap Pattern = {}
  PROVE  ~Recurses(p)
<1> DEFINE N == Cardinality(DOMAIN p)
           U == Unrolled(p)
<1>1. IsFiniteSet(DOMAIN p) /\ N \in Nat
  BY ConstantsAssumption, FS_CardinalityType
<1>2. PICK rank : Ranks(p, rank)
  BY ValidRanks
<1>3. \A n \in DOMAIN p : rank[n] \in Nat /\ rank[n] < N
  BY <1>2 DEF Ranks
<1>4. \A n \in DOMAIN p : \A b \in Bases(p, n) : b \in DOMAIN p /\ rank[b] < rank[n]
  BY <1>2, BasesAreTargets DEF Ranks
<1>5. \A k \in 0..(N + 1) :
        k > 0 => \A n \in DOMAIN p : U[k][n] = After({U[k - 1][b] : b \in Bases(p, n)})
  BY <1>1, UnrolledStep
<1>6. U[N] = [n \in DOMAIN p |-> U[N][n]] /\ U[N + 1] = [n \in DOMAIN p |-> U[N + 1][n]]
  <2>1. \A k \in 0..(N + 1) : U[k] = [n \in DOMAIN p |-> U[k][n]]
    BY <1>1, UnrolledStep
  <2> QED
    BY <1>1, <2>1
<1> DEFINE T == {k \in 0..N : \E n \in DOMAIN p : rank[n] < k /\ U[k + 1][n] # U[k][n]}
<1> HIDE DEF N, U
<1>7. T = {}
  <2> SUFFICES ASSUME T # {} PROVE FALSE
    OBVIOUS
  <2>1. T \in SUBSET Nat
    BY <1>1
  <2>2. PICK k \in T : \A j \in T : k <= j
    BY <2>1, Least
  <2>3. PICK n \in DOMAIN p : rank[n] < k /\ U[k + 1][n] # U[k][n]
    BY <2>2
  <2>4. k \in 1..N /\ k + 1 \in 0..(N + 1) /\ k + 1 > 0 /\ k > 0 /\ k \in 0..(N + 1)
    BY <1>1, <1>3, <2>2, <2>3
  <2>5. k - 1 \in 0..N /\ k - 1 \notin T /\ k + 1 - 1 = k /\ k - 1 + 1 = k
    BY <1>1, <2>2, <2>4
  <2>6. U[k + 1][n] = After({U[k][b] : b \in Bases(p, n)})
    BY <1>5, <2>4, <2>5
  <2>7. U[k][n] = After({U[k - 1][b] : b \in Bases(p, n)})
    BY <1>5, <2>4
  <2>8. \A b \in Bases(p, n) : U[k][b] = U[k - 1][b]
    <3> SUFFICES ASSUME NEW b \in Bases(p, n) PROVE U[k][b] = U[k - 1][b]
      OBVIOUS
    <3>1. b \in DOMAIN p /\ rank[b] < k - 1
      BY <1>3, <1>4, <2>3, <2>4
    <3> QED
      BY <2>5, <3>1
  <2>9. {U[k][b] : b \in Bases(p, n)} = {U[k - 1][b] : b \in Bases(p, n)}
    BY <2>8
  <2> QED
    BY <2>3, <2>6, <2>7, <2>9
<1>8. \A n \in DOMAIN p : U[N + 1][n] = U[N][n]
  BY <1>1, <1>3, <1>7
<1>9. U[N + 1] = U[N]
  BY <1>6, <1>8
<1> QED
  BY <1>9 DEF Recurses, Layers, N, U

-----------------------------------------------------------------------------
(* The invariant.                                                          *)

Driven == {"running", "DONE", "NEEDS_HUMAN", "BLOCKED"}

\* A plan that got out of the conversation is valid; until the job is created there
\* is none, from then on its plan and its waves are those the user approved.
PlanKept ==
  /\ phase \notin {"asking", "failed"} => plan \in Proposals /\ Valid(plan)
  /\ phase = "crashed" => Recurses(plan)
  /\ phase \notin Driven =>
       layer = None /\ rows = None /\ outputs = None /\ ran = None /\ limit = 0 /\ round = 0
  /\ phase \in Driven =>
       /\ ~Recurses(plan) /\ layer = Layers(plan)
       /\ DOMAIN plan \subseteq DOMAIN rows
       /\ \A n \in DOMAIN plan :
            rows[n].deps = plan[n].deps /\ rows[n].template = plan[n].template

\* A row beside the plan's is a child; a child is one of its template's, which is
\* done, and waits for what the template waited for.
ParentsDone ==
  /\ phase \in Driven => \A n \in DOMAIN rows \ DOMAIN plan : rows[n].parent # NoName
  /\ \A c \in DOMAIN rows : rows[c].parent # NoName =>
       /\ rows[c].parent \in DOMAIN rows /\ rows[rows[c].parent].status = "DONE"
       /\ rows[c].parent \in DOMAIN Child
       /\ \E i \in 1..MaxKids : c = Child[rows[c].parent][i]
       /\ c \notin DOMAIN plan => rows[c].deps = rows[rows[c].parent].deps

\* What never ran is as it was created.
RanFirst == \A n \in DOMAIN rows : ran[n] = 0 => rows[n].status = "PENDING"

\* What is done was ready, and still is.
DoneWereReady == \A n \in DOMAIN rows : rows[n].status = "DONE" => DepsSatisfied(n)

\* Without patterns and second tries no node of an earlier wave is ready any more.
NothingBehind ==
  Plain /\ ~late =>
    \A n \in DOMAIN layer : layer[n] < round /\ rows[n].status \in Runnable => ~DepsSatisfied(n)

IInv ==
  /\ TypeOK /\ PlanKept /\ ParentsDone /\ RanFirst /\ DoneWereReady /\ NothingBehind
  /\ WavesAreRounds /\ AcceptedPlanRuns

LEMMA InitIInv == Init => IInv
<1> SUFFICES ASSUME Init PROVE IInv
  OBVIOUS
<1>1. /\ phase = "asking" /\ asked = 0 /\ plan = None /\ layer = None /\ rows = None
      /\ outputs = None /\ ran = None /\ limit = 0 /\ round = 0 /\ late = FALSE
  BY DEF Init
<1>2. DOMAIN None = {} /\ \A S : None \in [{} -> S]
  BY DEF None
<1>3. TypeOK
  <2>1. Attempts \in Nat /\ Attempts # 0
    BY ConstantsAssumption
  <2>2. plan \in [DOMAIN plan -> Node] /\ layer \in [DOMAIN layer -> Nat]
    BY <1>1, <1>2
  <2>3. rows \in [DOMAIN rows -> Row] /\ outputs \in [DOMAIN outputs -> 0..MaxKids]
    BY <1>1, <1>2
  <2>4. ran \in [DOMAIN rows -> 0..round]
    BY <1>1, <1>2
  <2>5. /\ DOMAIN plan = {} /\ DOMAIN rows = {} /\ DOMAIN outputs = {}
        /\ limit \in {0} /\ round \in 0..limit
    BY <1>1, <1>2
  <2>6. phase \in Phases /\ asked \in 0..Attempts /\ (phase = "failed" <=> asked = Attempts)
    BY <1>1, <2>1 DEF Phases
  <2> QED
    BY <1>1, <2>2, <2>3, <2>4, <2>5, <2>6 DEF TypeOK
<1>4. PlanKept
  BY <1>1 DEF PlanKept, Driven
<1>5. ParentsDone /\ RanFirst /\ DoneWereReady /\ NothingBehind /\ WavesAreRounds
  BY <1>1, <1>2 DEF ParentsDone, RanFirst, DoneWereReady, NothingBehind, WavesAreRounds, Driven
<1>6. AcceptedPlanRuns
  BY <1>1 DEF AcceptedPlanRuns
<1> QED
  BY <1>3, <1>4, <1>5, <1>6 DEF IInv

-----------------------------------------------------------------------------
(* What a round does to the rows.                                          *)

\* An answer that gives a template children settles the template.
LEMMA KidsSettle ==
  ASSUME TypeOK, NEW t \in DOMAIN rows, IsTemplate(t), NEW f \in Fates(t), NEW i \in 1..f.list
  PROVE  f.status = "DONE" /\ i \in 1..MaxKids
<1>1. outputs \in [DOMAIN outputs -> 0..MaxKids] /\ MaxKids \in Nat
  BY ConstantsAssumption DEF TypeOK
<1>2. f # Fate("DONE", 0) /\ f # Fate("NEEDS_HUMAN", 0)
  BY DEF Fate
<1>3. PICK s \in Sources(t) : f = Fate("DONE", outputs[s])
  BY <1>2 DEF Fates
<1>4. s \in DOMAIN outputs
  BY DEF Sources
<1>5. f.status = "DONE" /\ f.list = outputs[s]
  BY <1>3 DEF Fate
<1> QED
  BY <1>1, <1>4, <1>5

\* Every fate is a status and the length of a list.
LEMMA FateTyped ==
  ASSUME TypeOK, NEW n \in DOMAIN rows, NEW f \in Fates(n)
  PROVE  f.status \in Status \ {"PENDING"} /\ f.list \in 0..MaxKids
<1>1. outputs \in [DOMAIN outputs -> 0..MaxKids] /\ MaxKids \in Nat /\ 0 \in 0..MaxKids
  BY ConstantsAssumption DEF TypeOK
<1>2. \A s \in Sources(n) : outputs[s] \in 0..MaxKids
  BY <1>1 DEF Sources
<1>3. \E st \in Status \ {"PENDING"} : \E k \in 0..MaxKids : f = Fate(st, k)
  <2>1. CASE rows[n].op = "Gate"
    BY <1>1, <2>1 DEF Fates, Status
  <2>2. CASE rows[n].op # "Gate" /\ IsTemplate(n)
    BY <1>1, <1>2, <2>2 DEF Fates, Status
  <2>3. CASE rows[n].op # "Gate" /\ ~IsTemplate(n) /\ rows[n].local
    BY <1>1, <2>3 DEF Fates, Status
  <2>4. CASE rows[n].op # "Gate" /\ ~IsTemplate(n) /\ ~rows[n].local
    <3>1. \/ f \in {Fate("RE_ENQUEUED", 0), Fate("DONE", 0), Fate("NEEDS_HUMAN", 0)}
          \/ f \in {Fate("DONE", k) : k \in 0..MaxKids}
      BY <2>4 DEF Fates
    <3> QED
      BY <1>1, <3>1 DEF Status
  <2> QED
    BY <2>1, <2>2, <2>3, <2>4
<1> QED
  BY <1>3 DEF Fate

\* A round's fates, and what they make of the rows.
RoundOf(fate) ==
  /\ DOMAIN fate = Frontier
  /\ \A n \in Frontier : fate[n] \in Fates(n)
  /\ rows' = [n \in DOMAIN rows \cup DOMAIN Minted(fate) |->
                IF n \notin DOMAIN Minted(fate) THEN Settled(n, fate)
                ELSE IF n \in DOMAIN rows
                     THEN [Settled(n, fate) EXCEPT !.parent = Minted(fate)[n]]
                     ELSE [rows[Minted(fate)[n]] EXCEPT !.parent = Minted(fate)[n],
                                                        !.status = "PENDING"]]
  /\ ran' = [n \in DOMAIN rows' |->
               IF n \in Frontier /\ ran[n] = 0 THEN round'
               ELSE IF n \in DOMAIN ran THEN ran[n] ELSE 0]
  /\ outputs' = [n \in DOMAIN outputs \cup {m \in Frontier : KeepsAnswer(m, fate)} |->
                   IF n \in Frontier THEN fate[n].list ELSE outputs[n]]
  /\ late' = (late \/ \E n \in Frontier : fate[n].status = "RE_ENQUEUED")

LEMMA RoundHasFates ==
  ASSUME Round
  PROVE  \E fate : RoundOf(fate)
  BY DEF Round, RoundOf

LEMMA MintedParts ==
  ASSUME TypeOK, NEW fate, DOMAIN fate = Frontier, \A n \in Frontier : fate[n] \in Fates(n),
         NEW c \in DOMAIN Minted(fate)
  PROVE  /\ Minted(fate)[c] \in Frontier /\ IsTemplate(Minted(fate)[c])
         /\ fate[Minted(fate)[c]].status = "DONE"
         /\ \E i \in 1..MaxKids : c = Child[Minted(fate)[c]][i]
<1>1. c \in UNION {{Child[t][i] : i \in 1..fate[t].list} :
                     t \in {n \in DOMAIN fate : IsTemplate(n)}}
  BY DEF Minted
<1>2. PICK t \in DOMAIN fate : IsTemplate(t) /\ c \in {Child[t][i] : i \in 1..fate[t].list}
  BY <1>1
<1> DEFINE u == CHOOSE v \in DOMAIN fate :
                  IsTemplate(v) /\ c \in {Child[v][i] : i \in 1..fate[v].list}
<1>3. Minted(fate)[c] = u
  BY <1>1 DEF Minted
<1>4. u \in DOMAIN fate /\ IsTemplate(u) /\ c \in {Child[u][i] : i \in 1..fate[u].list}
  BY <1>2
<1> HIDE DEF u
<1>5. PICK i \in 1..fate[u].list : c = Child[u][i]
  BY <1>4
<1>6. u \in DOMAIN rows /\ u \in Frontier /\ fate[u] \in Fates(u)
  BY <1>4 DEF Frontier
<1>7. fate[u].status = "DONE" /\ i \in 1..MaxKids
  BY <1>4, <1>6, KidsSettle
<1> QED
  BY <1>3, <1>4, <1>5, <1>6, <1>7

\* A template that may get children is one of the plan's.
LEMMA TemplatesKnown ==
  ASSUME PlanKept, ParentsDone, phase \in Driven, NEW t \in DOMAIN rows, IsTemplate(t)
  PROVE  t \in DOMAIN Child
<1>1. t \in DOMAIN plan
  BY DEF ParentsDone, IsTemplate
<1>2. plan \in Proposals /\ plan[t].template
  BY <1>1 DEF PlanKept, Driven, IsTemplate
<1> QED
  BY <1>1, <1>2, ConstantsAssumption

\* A row keeps what its node is; only the frontier's rows get a new status.
LEMMA RoundRows ==
  ASSUME TypeOK, NEW fate, RoundOf(fate)
  PROVE  /\ DOMAIN rows \subseteq DOMAIN rows'
         /\ \A n \in DOMAIN rows :
              /\ rows'[n].deps = rows[n].deps /\ rows'[n].template = rows[n].template
              /\ rows'[n].status = IF n \in Frontier THEN fate[n].status ELSE rows[n].status
              /\ n \notin DOMAIN Minted(fate) => rows'[n].parent = rows[n].parent
         /\ \A c \in DOMAIN rows' \ DOMAIN rows :
              /\ c \in DOMAIN Minted(fate) /\ rows'[c].status = "PENDING"
              /\ rows'[c].deps = rows[Minted(fate)[c]].deps
         /\ \A c \in DOMAIN Minted(fate) : c \in DOMAIN rows' /\ rows'[c].parent = Minted(fate)[c]
<1> DEFINE M == Minted(fate)
<1>1. rows' = [n \in DOMAIN rows \cup DOMAIN M |->
                IF n \notin DOMAIN M THEN Settled(n, fate)
                ELSE IF n \in DOMAIN rows
                     THEN [Settled(n, fate) EXCEPT !.parent = M[n]]
                     ELSE [rows[M[n]] EXCEPT !.parent = M[n], !.status = "PENDING"]]
  BY DEF RoundOf
<1>2. \A n \in DOMAIN rows : rows[n] \in Row
  BY DEF TypeOK
<1>3. \A c \in DOMAIN M : M[c] \in DOMAIN rows
  BY MintedParts DEF RoundOf, Frontier
<1>4. \A n \in DOMAIN rows :
        Settled(n, fate) =
          IF n \in Frontier THEN [rows[n] EXCEPT !.status = fate[n].status] ELSE rows[n]
  BY DEF Settled, RoundOf
<1> HIDE DEF M
<1>5. ASSUME NEW n \in DOMAIN rows
      PROVE  /\ n \in DOMAIN rows' /\ rows'[n].deps = rows[n].deps
             /\ rows'[n].template = rows[n].template
             /\ rows'[n].status = IF n \in Frontier THEN fate[n].status ELSE rows[n].status
             /\ n \notin DOMAIN M => rows'[n].parent = rows[n].parent
             /\ n \in DOMAIN M => rows'[n].parent = M[n]
  <2> DEFINE r == Settled(n, fate)
  <2>1. /\ r.deps = rows[n].deps /\ r.parent = rows[n].parent /\ r.template = rows[n].template
        /\ r.status = IF n \in Frontier THEN fate[n].status ELSE rows[n].status
        /\ DOMAIN r = {"op", "template", "deps", "local", "parent", "status"}
    <3>1. r = IF n \in Frontier THEN [rows[n] EXCEPT !.status = fate[n].status] ELSE rows[n]
      BY <1>4
    <3> HIDE DEF r
    <3> QED
      BY <1>2, <3>1 DEF Row
  <2>2. rows'[n] = IF n \notin DOMAIN M THEN r ELSE [r EXCEPT !.parent = M[n]]
    BY <1>1
  <2>3. n \in DOMAIN rows'
    BY <1>1
  <2> HIDE DEF r
  <2> QED
    BY <2>1, <2>2, <2>3
<1>6. ASSUME NEW c \in DOMAIN rows', c \notin DOMAIN rows
      PROVE  /\ c \in DOMAIN M /\ rows'[c].status = "PENDING"
             /\ rows'[c].deps = rows[M[c]].deps /\ rows'[c].parent = M[c]
  <2>1. c \in DOMAIN M /\ rows'[c] = [rows[M[c]] EXCEPT !.parent = M[c], !.status = "PENDING"]
    BY <1>1, <1>6
  <2>2. rows[M[c]] \in Row
    BY <1>2, <1>3, <2>1
  <2> QED
    BY <2>1, <2>2 DEF Row
<1>7. \A c \in DOMAIN M : c \in DOMAIN rows' /\ rows'[c].parent = M[c]
  <2> SUFFICES ASSUME NEW c \in DOMAIN M PROVE c \in DOMAIN rows' /\ rows'[c].parent = M[c]
    OBVIOUS
  <2>1. c \in DOMAIN rows'
    BY <1>1
  <2> QED
    BY <1>5, <1>6, <2>1
<1> QED
  BY <1>5, <1>6, <1>7 DEF M

LEMMA RoundTyped ==
  ASSUME TypeOK, PlanKept, ParentsDone, Round
  PROVE  TypeOK'
<1>1. PICK fate : RoundOf(fate)
  BY RoundHasFates
<1>2. /\ phase = "running" /\ round < limit /\ round' = round + 1
      /\ UNCHANGED <<phase, asked, plan, layer, limit>>
  BY DEF Round
<1>3. /\ DOMAIN rows \subseteq Name /\ rows \in [DOMAIN rows -> Row]
      /\ DOMAIN outputs \subseteq DOMAIN rows /\ outputs \in [DOMAIN outputs -> 0..MaxKids]
      /\ limit \in Limits \cup {0} /\ limit \in Nat /\ round \in 0..limit
      /\ ran \in [DOMAIN rows -> 0..round] /\ late \in BOOLEAN
  BY ConstantsAssumption DEF TypeOK
<1>4. Frontier \subseteq DOMAIN rows
  BY DEF Frontier
<1> DEFINE M == Minted(fate)
<1>5. /\ DOMAIN fate = Frontier
      /\ \A n \in Frontier : fate[n].status \in Status /\ fate[n].list \in 0..MaxKids
  BY <1>1, <1>4, FateTyped DEF RoundOf
<1>6. \A c \in DOMAIN M : M[c] \in DOMAIN rows /\ c \in Name
  <2> SUFFICES ASSUME NEW c \in DOMAIN M PROVE M[c] \in DOMAIN rows /\ c \in Name
    OBVIOUS
  <2>1. /\ M[c] \in Frontier /\ IsTemplate(M[c])
        /\ \E i \in 1..MaxKids : c = Child[M[c]][i]
    <3>1. DOMAIN fate = Frontier /\ \A n \in Frontier : fate[n] \in Fates(n)
      BY <1>1 DEF RoundOf
    <3> QED
      BY <3>1, MintedParts
  <2>2. M[c] \in DOMAIN Child
    BY <1>2, <1>4, <2>1, TemplatesKnown DEF Driven
  <2>3. Child[M[c]] \in [1..MaxKids -> Name]
    BY <2>2, ConstantsAssumption
  <2> QED
    BY <1>4, <2>1, <2>3
<1>7. rows' = [n \in DOMAIN rows \cup DOMAIN M |->
                IF n \notin DOMAIN M THEN Settled(n, fate)
                ELSE IF n \in DOMAIN rows
                     THEN [Settled(n, fate) EXCEPT !.parent = M[n]]
                     ELSE [rows[M[n]] EXCEPT !.parent = M[n], !.status = "PENDING"]]
  BY <1>1 DEF RoundOf
<1>8. \A n \in DOMAIN rows : Settled(n, fate) \in Row
  <2> SUFFICES ASSUME NEW n \in DOMAIN rows PROVE Settled(n, fate) \in Row
    OBVIOUS
  <2>1. rows[n] \in Row
    BY <1>3
  <2>2. Settled(n, fate) =
          IF n \in Frontier THEN [rows[n] EXCEPT !.status = fate[n].status] ELSE rows[n]
    BY <1>5 DEF Settled
  <2>3. CASE n \in Frontier
    <3>1. fate[n].status \in Status
      BY <1>5, <2>3
    <3> QED
      BY <2>1, <2>2, <2>3, <3>1 DEF Row
  <2> QED
    BY <2>1, <2>2, <2>3
<1>9. DOMAIN rows' \subseteq Name /\ rows' \in [DOMAIN rows' -> Row]
  <2> HIDE DEF M
  <2>1. DOMAIN rows' = DOMAIN rows \cup DOMAIN M
    BY <1>7
  <2>2. ASSUME NEW n \in DOMAIN rows' PROVE rows'[n] \in Row
    <3>1. CASE n \notin DOMAIN M
      BY <1>7, <1>8, <2>1, <3>1
    <3>2. CASE n \in DOMAIN M /\ n \in DOMAIN rows
      <4>1. rows'[n] = [Settled(n, fate) EXCEPT !.parent = M[n]]
        BY <1>7, <3>2
      <4>2. M[n] \in Name \cup {NoName} /\ Settled(n, fate) \in Row
        BY <1>3, <1>6, <1>8, <3>2
      <4> QED
        BY <4>1, <4>2 DEF Row
    <3>3. CASE n \in DOMAIN M /\ n \notin DOMAIN rows
      <4>1. rows'[n] = [rows[M[n]] EXCEPT !.parent = M[n], !.status = "PENDING"]
        BY <1>7, <3>3
      <4>2. M[n] \in Name \cup {NoName} /\ rows[M[n]] \in Row
        BY <1>3, <1>6, <3>3
      <4> QED
        BY <4>1, <4>2 DEF Row, Status
    <3> QED
      BY <3>1, <3>2, <3>3
  <2>3. rows' = [n \in DOMAIN rows' |-> rows'[n]]
    BY <1>7
  <2> QED
    BY <1>3, <1>6, <2>1, <2>2, <2>3
<1>10. DOMAIN outputs' \subseteq DOMAIN rows' /\ outputs' \in [DOMAIN outputs' -> 0..MaxKids]
  <2>1. outputs' = [n \in DOMAIN outputs \cup {m \in Frontier : KeepsAnswer(m, fate)} |->
                      IF n \in Frontier THEN fate[n].list ELSE outputs[n]]
    BY <1>1 DEF RoundOf
  <2>2. DOMAIN rows \subseteq DOMAIN rows'
    BY <1>7
  <2> QED
    BY <1>3, <1>4, <1>5, <2>1, <2>2
<1>11. round' \in 0..limit' /\ limit' \in Limits \cup {0}
  BY <1>2, <1>3
<1>12. ran' \in [DOMAIN rows' -> 0..round']
  <2>1. ran' = [n \in DOMAIN rows' |->
                  IF n \in Frontier /\ ran[n] = 0 THEN round'
                  ELSE IF n \in DOMAIN ran THEN ran[n] ELSE 0]
    BY <1>1 DEF RoundOf
  <2>2. round' \in 0..round' /\ 0 \in 0..round' /\ \A x \in 0..round : x \in 0..round'
    BY <1>2, <1>3
  <2> QED
    BY <1>3, <2>1, <2>2
<1>13. late' \in BOOLEAN
  BY <1>1 DEF RoundOf
<1>14. /\ phase' \in Phases
       /\ asked' \in 0..Attempts /\ (phase' = "failed" <=> asked' = Attempts)
       /\ DOMAIN plan' \subseteq Name /\ plan' \in [DOMAIN plan' -> Node]
       /\ layer' \in [DOMAIN layer' -> Nat]
  BY <1>2 DEF TypeOK
<1> QED
  BY <1>9, <1>10, <1>11, <1>12, <1>13, <1>14 DEF TypeOK

LEMMA DoneStays ==
  ASSUME TypeOK, NEW fate, RoundOf(fate), NEW n \in DOMAIN rows, rows[n].status = "DONE"
  PROVE  n \in DOMAIN rows' /\ rows'[n].status = "DONE" /\ n \notin Frontier
<1>1. n \notin Frontier
  BY DEF Frontier, Runnable
<1> QED
  BY <1>1, RoundRows

\* No row gets another parent, and none a second batch of children.
LEMMA ParentStays ==
  ASSUME TypeOK, PlanKept, ParentsDone, phase \in Driven, NEW fate, RoundOf(fate),
         NEW c \in DOMAIN rows, rows[c].parent # NoName
  PROVE  c \notin DOMAIN Minted(fate) /\ rows'[c].parent = rows[c].parent
<1> DEFINE t == rows[c].parent
           u == Minted(fate)[c]
<1>1. /\ t \in DOMAIN rows /\ rows[t].status = "DONE" /\ t \in DOMAIN Child
      /\ \E i \in 1..MaxKids : c = Child[t][i]
  BY DEF ParentsDone
<1>2. t \notin Frontier
  BY <1>1, DoneStays
<1>3. c \notin DOMAIN Minted(fate)
  <2> SUFFICES ASSUME c \in DOMAIN Minted(fate) PROVE FALSE
    OBVIOUS
  <2>1. u \in Frontier /\ IsTemplate(u) /\ \E i \in 1..MaxKids : c = Child[u][i]
    BY MintedParts DEF RoundOf
  <2>2. u \in DOMAIN Child
    BY <2>1, TemplatesKnown DEF Frontier
  <2> HIDE DEF t, u
  <2>3. t = u
    BY <1>1, <2>1, <2>2, ChildrenAssumption
  <2> QED
    BY <1>2, <2>1, <2>3
<1> QED
  BY <1>3, RoundRows

LEMMA KidsStay ==
  ASSUME TypeOK, PlanKept, ParentsDone, phase \in Driven, NEW fate, RoundOf(fate),
         NEW t \in Name, Kids(t) # {}
  PROVE  Kids(t)' = Kids(t)
<1>1. t # NoName
  BY ConstantsAssumption
<1>2. PICK k \in DOMAIN rows : rows[k].parent = t
  BY DEF Kids
<1>3. t \in DOMAIN rows /\ rows[t].status = "DONE"
  BY <1>1, <1>2 DEF ParentsDone
<1>4. t \notin Frontier
  BY <1>3, DoneStays
<1>5. ASSUME NEW c \in Kids(t) PROVE c \in Kids(t)'
  <2>1. c \in DOMAIN rows /\ rows[c].parent = t
    BY DEF Kids
  <2>2. c \in DOMAIN rows' /\ rows'[c].parent = t
    BY <1>1, <2>1, ParentStays, RoundRows
  <2> QED
    BY <2>2 DEF Kids
<1>6. ASSUME NEW c \in Kids(t)' PROVE c \in Kids(t)
  <2>1. c \in DOMAIN rows' /\ rows'[c].parent = t
    BY DEF Kids
  <2>2. c \notin DOMAIN Minted(fate)
    <3> SUFFICES ASSUME c \in DOMAIN Minted(fate) PROVE FALSE
      OBVIOUS
    <3>1. rows'[c].parent = Minted(fate)[c]
      BY RoundRows
    <3>2. Minted(fate)[c] \in Frontier
      BY MintedParts DEF RoundOf
    <3> QED
      BY <1>4, <2>1, <3>1, <3>2
  <2>3. c \in DOMAIN rows /\ rows'[c].parent = rows[c].parent
    BY <2>1, <2>2, RoundRows
  <2> QED
    BY <2>1, <2>3 DEF Kids
<1> QED
  BY <1>5, <1>6

\* What is ready stays ready.
LEMMA ReadyStays ==
  ASSUME TypeOK, PlanKept, ParentsDone, phase \in Driven, NEW fate, RoundOf(fate),
         NEW n \in DOMAIN rows, DepsSatisfied(n)
  PROVE  DepsSatisfied(n)'
<1>1. rows'[n].deps = rows[n].deps
  BY RoundRows
<1>2. ASSUME NEW d \in rows[n].deps
      PROVE  IF d \in Pattern
             THEN Kids(Base[d])' # {} /\ \A c \in Kids(Base[d])' : rows'[c].status = "DONE"
             ELSE d \in DOMAIN rows' /\ rows'[d].status = "DONE"
  <2>1. CASE d \in Pattern
    <3>1. Kids(Base[d]) # {} /\ \A c \in Kids(Base[d]) : rows[c].status = "DONE"
      BY <2>1 DEF DepsSatisfied
    <3>2. Base[d] \in Name
      BY <2>1, ConstantsAssumption
    <3>3. Kids(Base[d])' = Kids(Base[d])
      BY <3>1, <3>2, KidsStay
    <3>4. \A c \in Kids(Base[d]) : rows'[c].status = "DONE"
      <4> SUFFICES ASSUME NEW c \in Kids(Base[d]) PROVE rows'[c].status = "DONE"
        OBVIOUS
      <4>1. c \in DOMAIN rows
        BY DEF Kids
      <4> QED
        BY <3>1, <4>1, DoneStays
    <3> QED
      BY <2>1, <3>1, <3>3, <3>4
  <2>2. CASE d \notin Pattern
    <3>1. d \in DOMAIN rows /\ rows[d].status = "DONE"
      BY <2>2 DEF DepsSatisfied
    <3> QED
      BY <2>2, <3>1, DoneStays
  <2> QED
    BY <2>1, <2>2
<1> QED
  BY <1>1, <1>2 DEF DepsSatisfied

\* The waves of the plan whose job is driven.
LEMMA JobLayers ==
  ASSUME PlanKept, phase \in Driven
  PROVE  /\ plan \in Proposals /\ Valid(plan)
         /\ layer \in [DOMAIN plan -> Nat]
         /\ \A n \in DOMAIN plan : /\ \A b \in Bases(plan, n) : layer[b] < layer[n]
                                   /\ layer[n] # 0 =>
                                        \E b \in Bases(plan, n) : layer[n] = layer[b] + 1
<1>1. plan \in Proposals /\ Valid(plan) /\ ~Recurses(plan) /\ layer = Layers(plan)
  BY DEF PlanKept, Driven
<1>2. IsFiniteSet(DOMAIN plan)
  BY <1>1, ConstantsAssumption
<1> QED
  BY <1>1, <1>2, LayersRest

\* What a ready node waits for has run: no node is ready before its wave.
LEMMA ReadyInItsWave ==
  ASSUME TypeOK, PlanKept, ParentsDone, RanFirst, WavesAreRounds, phase \in Driven,
         NEW n \in DOMAIN plan, DepsSatisfied(n)
  PROVE  layer[n] <= round
<1>1. /\ layer \in [DOMAIN plan -> Nat] /\ round \in Nat /\ ran \in [DOMAIN rows -> 0..round]
      /\ DOMAIN plan \subseteq DOMAIN rows /\ rows[n].deps = plan[n].deps
      /\ DOMAIN layer = DOMAIN plan
  BY JobLayers, ConstantsAssumption DEF TypeOK, PlanKept
<1>2. CASE layer[n] = 0
  BY <1>1, <1>2
<1>3. CASE layer[n] # 0
  <2>1. PICK b \in Bases(plan, n) : layer[n] = layer[b] + 1
    BY <1>3, JobLayers
  <2>2. b \in DOMAIN plan
    BY <2>1 DEF Bases
  <2>3. PICK d \in rows[n].deps : Strip(d) = b
    BY <1>1, <2>1 DEF Bases
  <2>4. rows[b].status = "DONE"
    <3>1. CASE d \in Pattern
      <4>1. b = Base[d] /\ b \in Name /\ b # NoName
        BY <2>3, <3>1, ConstantsAssumption DEF Strip
      <4>2. Kids(b) # {}
        BY <3>1, <4>1 DEF DepsSatisfied
      <4>3. PICK c \in DOMAIN rows : rows[c].parent = b
        BY <4>2 DEF Kids
      <4> QED
        BY <4>1, <4>3 DEF ParentsDone
    <3>2. CASE d \notin Pattern
      BY <2>3, <3>2 DEF DepsSatisfied, Strip
    <3> QED
      BY <3>1, <3>2
  <2>5. b \in DOMAIN rows /\ ran[b] # 0
    BY <1>1, <2>2, <2>4 DEF RanFirst
  <2>6. layer[b] < ran[b] /\ ran[b] \in 0..round /\ layer[b] \in Nat
    BY <1>1, <2>2, <2>5 DEF WavesAreRounds
  <2> QED
    BY <1>1, <2>1, <2>6
<1> QED
  BY <1>2, <1>3

LEMMA RoundParents ==
  ASSUME TypeOK, PlanKept, ParentsDone, NEW fate, RoundOf(fate), phase \in Driven,
         plan' = plan
  PROVE  /\ \A c \in DOMAIN rows' \ DOMAIN plan' : rows'[c].parent # NoName
         /\ \A c \in DOMAIN rows' : rows'[c].parent # NoName =>
              /\ rows'[c].parent \in DOMAIN rows' /\ rows'[rows'[c].parent].status = "DONE"
              /\ rows'[c].parent \in DOMAIN Child
              /\ \E i \in 1..MaxKids : c = Child[rows'[c].parent][i]
              /\ c \notin DOMAIN plan' => rows'[c].deps = rows'[rows'[c].parent].deps
<1> DEFINE M == Minted(fate)
<1>1. DOMAIN fate = Frontier /\ \A n \in Frontier : fate[n] \in Fates(n)
  BY DEF RoundOf
<1>2. DOMAIN rows \subseteq Name /\ NoName \notin Name /\ Frontier \subseteq DOMAIN rows
  BY ConstantsAssumption DEF TypeOK, Frontier
<1>3. ASSUME NEW c \in DOMAIN M
      PROVE  /\ c \in DOMAIN rows' /\ rows'[c].parent = M[c] /\ M[c] \in Frontier /\ M[c] # NoName
             /\ M[c] \in DOMAIN rows' /\ rows'[M[c]].status = "DONE" /\ M[c] \in DOMAIN Child
             /\ rows'[M[c]].deps = rows[M[c]].deps
             /\ \E i \in 1..MaxKids : c = Child[M[c]][i]
             /\ c \notin DOMAIN plan => rows'[c].deps = rows[M[c]].deps
  <2>1. /\ M[c] \in Frontier /\ IsTemplate(M[c]) /\ fate[M[c]].status = "DONE"
        /\ \E i \in 1..MaxKids : c = Child[M[c]][i]
    BY <1>1, MintedParts
  <2>2. c \in DOMAIN rows' /\ rows'[c].parent = M[c]
    BY RoundRows
  <2>3. M[c] \in DOMAIN rows /\ M[c] # NoName /\ M[c] \in DOMAIN Child
    BY <1>2, <2>1, TemplatesKnown
  <2>4. M[c] \in DOMAIN rows' /\ rows'[M[c]].status = "DONE" /\ rows'[M[c]].deps = rows[M[c]].deps
    BY <2>1, <2>3, RoundRows
  <2>5. ASSUME c \notin DOMAIN plan PROVE rows'[c].deps = rows[M[c]].deps
    <3>1. c \notin DOMAIN rows
      <4> SUFFICES ASSUME c \in DOMAIN rows PROVE FALSE
        OBVIOUS
      <4>1. rows[c].parent # NoName
        BY <2>5 DEF ParentsDone
      <4> QED
        BY <4>1, ParentStays
    <3> QED
      BY <2>2, <3>1, RoundRows
  <2> QED
    BY <2>1, <2>2, <2>3, <2>4, <2>5
<1>4. ASSUME NEW c \in DOMAIN rows', c \notin DOMAIN M
      PROVE  c \in DOMAIN rows /\ rows'[c].parent = rows[c].parent /\ rows'[c].deps = rows[c].deps
  BY <1>4, RoundRows
<1>5. ASSUME NEW c \in DOMAIN rows, rows[c].parent # NoName
      PROVE  /\ rows[c].parent \in DOMAIN rows' /\ rows'[rows[c].parent].status = "DONE"
             /\ rows[c].parent \in DOMAIN Child
             /\ rows'[rows[c].parent].deps = rows[rows[c].parent].deps
             /\ \E i \in 1..MaxKids : c = Child[rows[c].parent][i]
             /\ c \notin DOMAIN plan => rows[c].deps = rows[rows[c].parent].deps
  <2>1. /\ rows[c].parent \in DOMAIN rows /\ rows[rows[c].parent].status = "DONE"
        /\ rows[c].parent \in DOMAIN Child
        /\ \E i \in 1..MaxKids : c = Child[rows[c].parent][i]
        /\ c \notin DOMAIN plan => rows[c].deps = rows[rows[c].parent].deps
    BY <1>5 DEF ParentsDone
  <2> QED
    BY <2>1, DoneStays, RoundRows
<1> HIDE DEF M
<1>6. ASSUME NEW c \in DOMAIN rows', c \notin DOMAIN plan
      PROVE  rows'[c].parent # NoName
  <2>1. CASE c \in DOMAIN M
    BY <1>3, <2>1
  <2>2. CASE c \notin DOMAIN M
    BY <1>4, <1>6, <2>2 DEF ParentsDone
  <2> QED
    BY <2>1, <2>2
<1>7. ASSUME NEW c \in DOMAIN rows', rows'[c].parent # NoName
      PROVE  /\ rows'[c].parent \in DOMAIN rows' /\ rows'[rows'[c].parent].status = "DONE"
             /\ rows'[c].parent \in DOMAIN Child
             /\ \E i \in 1..MaxKids : c = Child[rows'[c].parent][i]
             /\ c \notin DOMAIN plan => rows'[c].deps = rows'[rows'[c].parent].deps
  <2>1. CASE c \in DOMAIN M
    BY <1>3, <2>1
  <2>2. CASE c \notin DOMAIN M
    <3>1. c \in DOMAIN rows /\ rows'[c].parent = rows[c].parent /\ rows'[c].deps = rows[c].deps
      BY <1>4, <2>2
    <3> QED
      BY <1>5, <1>7, <3>1
  <2> QED
    BY <2>1, <2>2
<1> QED
  BY <1>6, <1>7

LEMMA RoundReady ==
  ASSUME TypeOK, PlanKept, ParentsDone, DoneWereReady, phase \in Driven, NEW fate, RoundOf(fate)
  PROVE  DoneWereReady'
<1> SUFFICES ASSUME NEW n \in DOMAIN rows', rows'[n].status = "DONE"
             PROVE  DepsSatisfied(n)'
  BY DEF DoneWereReady
<1>1. n \in DOMAIN rows
  BY RoundRows
<1>2. DepsSatisfied(n)
  <2>1. CASE n \in Frontier
    BY <2>1 DEF Frontier
  <2>2. CASE n \notin Frontier
    BY <1>1, <2>2, RoundRows DEF DoneWereReady
  <2> QED
    BY <2>1, <2>2
<1> QED
  BY <1>1, <1>2, ReadyStays

LEMMA RoundRan ==
  ASSUME TypeOK, RanFirst, NEW fate, RoundOf(fate), round' = round + 1
  PROVE  RanFirst'
<1> SUFFICES ASSUME NEW n \in DOMAIN rows', ran'[n] = 0 PROVE rows'[n].status = "PENDING"
  BY DEF RanFirst
<1>1. ran \in [DOMAIN rows -> 0..round] /\ round \in Nat
  BY ConstantsAssumption DEF TypeOK
<1>2. ran'[n] = IF n \in Frontier /\ ran[n] = 0 THEN round'
                ELSE IF n \in DOMAIN ran THEN ran[n] ELSE 0
  BY DEF RoundOf
<1>3. CASE n \in DOMAIN rows
  <2>1. ran[n] = 0 /\ n \notin Frontier
    BY <1>1, <1>2, <1>3
  <2> QED
    BY <1>3, <2>1, RoundRows DEF RanFirst
<1>4. CASE n \notin DOMAIN rows
  BY <1>4, RoundRows
<1> QED
  BY <1>3, <1>4

\* In a plan without patterns, what a node waits for is a node of an earlier wave.
LEMMA PlainDeps ==
  ASSUME PlanKept, phase \in Driven, Plain, NEW n \in DOMAIN plan, NEW d \in plan[n].deps
  PROVE  d \notin Pattern /\ d \in DOMAIN plan /\ layer[d] < layer[n]
<1>1. plan \in Proposals /\ Valid(plan)
  BY JobLayers
<1>2. d \notin Pattern
  BY DEF Plain
<1>3. NoName # Target(d, DOMAIN plan)
  BY <1>1 DEF Valid, Resolves
<1>4. d \in DOMAIN plan
  BY <1>2, <1>3 DEF Target
<1>5. d \in Bases(plan, n)
  BY <1>2, <1>4 DEF Bases, Strip
<1> QED
  BY <1>2, <1>4, <1>5, JobLayers

LEMMA RoundBehind ==
  ASSUME TypeOK, PlanKept, NothingBehind, NEW fate, RoundOf(fate), phase \in Driven,
         round' = round + 1, plan' = plan, layer' = layer, Plain, ~late'
  PROVE  \A n \in DOMAIN layer :
           layer[n] < round' /\ rows'[n].status \in Runnable => ~DepsSatisfied(n)'
<1> SUFFICES ASSUME NEW n \in DOMAIN layer, layer[n] < round', rows'[n].status \in Runnable,
                    DepsSatisfied(n)'
             PROVE  FALSE
  OBVIOUS
<1>1. /\ layer \in [DOMAIN plan -> Nat] /\ round \in Nat /\ n \in DOMAIN plan
      /\ DOMAIN plan \subseteq DOMAIN rows /\ rows[n].deps = plan[n].deps
  BY JobLayers, ConstantsAssumption DEF TypeOK, PlanKept
<1>2. ~late /\ \A m \in Frontier : fate[m].status # "RE_ENQUEUED"
  BY DEF RoundOf
<1>3. n \notin Frontier
  <2> SUFFICES ASSUME n \in Frontier PROVE FALSE
    OBVIOUS
  <2>1. rows'[n].status = fate[n].status
    BY <1>1, RoundRows
  <2>2. fate[n].status # "PENDING"
    BY <1>1, FateTyped DEF RoundOf
  <2> QED
    BY <1>2, <2>1, <2>2 DEF Runnable
<1>4. rows[n].status \in Runnable
  BY <1>1, <1>3, RoundRows
<1>5. ~DepsSatisfied(n)
  BY <1>1, <1>3, <1>4 DEF Frontier
<1>6. PICK d \in plan[n].deps : ~(d \in DOMAIN rows /\ rows[d].status = "DONE")
  BY <1>1, <1>5, PlainDeps DEF DepsSatisfied
<1>7. d \notin Pattern /\ d \in DOMAIN plan /\ layer[d] < layer[n]
  BY <1>1, PlainDeps
<1>8. d \in DOMAIN rows /\ rows[d].status # "DONE"
  BY <1>1, <1>6, <1>7
<1>9. d \notin Frontier
  <2>1. layer[d] < round /\ d \in DOMAIN layer
    BY <1>1, <1>7
  <2> QED
    BY <1>2, <2>1 DEF NothingBehind, Frontier
<1>10. rows'[d].status # "DONE"
  BY <1>8, <1>9, RoundRows
<1>11. rows'[n].deps = plan[n].deps
  BY <1>1, RoundRows
<1> QED
  BY <1>7, <1>10, <1>11 DEF DepsSatisfied

LEMMA RoundWaves ==
  ASSUME IInv, NEW fate, RoundOf(fate), phase = "running",
         round' = round + 1, plan' = plan, layer' = layer
  PROVE  WavesAreRounds'
<1>1. /\ phase \in Driven /\ TypeOK /\ PlanKept /\ ParentsDone /\ RanFirst /\ NothingBehind
      /\ WavesAreRounds
  BY DEF IInv, Driven
<1>2. /\ layer \in [DOMAIN plan -> Nat] /\ round \in Nat /\ ran \in [DOMAIN rows -> 0..round]
      /\ DOMAIN plan \subseteq DOMAIN rows
  BY <1>1, JobLayers, ConstantsAssumption DEF TypeOK, PlanKept
<1> SUFFICES ASSUME NEW n \in DOMAIN layer, ran'[n] # 0
             PROVE  layer[n] < ran'[n] /\ (Plain /\ ~late' => ran'[n] = layer[n] + 1)
  BY DEF WavesAreRounds, Plain
<1>3. n \in DOMAIN plan /\ n \in DOMAIN rows /\ layer[n] \in Nat
  BY <1>2
<1>4. n \in DOMAIN rows' /\ (late => late')
  BY <1>1, <1>3, RoundRows DEF RoundOf
<1>5. ran'[n] = IF n \in Frontier /\ ran[n] = 0 THEN round + 1 ELSE ran[n]
  BY <1>2, <1>3, <1>4 DEF RoundOf
<1>6. CASE n \in Frontier /\ ran[n] = 0
  <2>1. DepsSatisfied(n) /\ rows[n].status \in Runnable
    BY <1>6 DEF Frontier
  <2>2. layer[n] <= round
    BY <1>1, <1>3, <2>1, ReadyInItsWave
  <2>3. Plain /\ ~late' => ~(layer[n] < round)
    BY <1>1, <1>4, <2>1 DEF NothingBehind
  <2> QED
    BY <1>2, <1>3, <1>5, <1>6, <2>2, <2>3
<1>7. CASE ~(n \in Frontier /\ ran[n] = 0)
  BY <1>1, <1>4, <1>5, <1>7 DEF WavesAreRounds
<1> QED
  BY <1>6, <1>7

LEMMA RoundIInv ==
  ASSUME IInv, Round
  PROVE  IInv'
<1>1. PICK fate : RoundOf(fate)
  BY RoundHasFates
<1>2. /\ phase = "running" /\ round < limit /\ round' = round + 1
      /\ phase' = phase /\ asked' = asked /\ plan' = plan /\ layer' = layer /\ limit' = limit
  BY DEF Round
<1>3. /\ TypeOK /\ PlanKept /\ ParentsDone /\ RanFirst /\ DoneWereReady /\ NothingBehind
      /\ phase \in Driven
  BY <1>2 DEF IInv, Driven
<1>4. TypeOK'
  BY <1>3, RoundTyped
<1>5. PlanKept'
  <2>1. plan \in Proposals /\ Valid(plan) /\ ~Recurses(plan) /\ layer = Layers(plan)
    BY <1>3 DEF PlanKept, Driven
  <2>2. /\ DOMAIN plan \subseteq DOMAIN rows
        /\ \A n \in DOMAIN plan :
             rows[n].deps = plan[n].deps /\ rows[n].template = plan[n].template
    BY <1>3 DEF PlanKept
  <2>3. /\ DOMAIN plan \subseteq DOMAIN rows'
        /\ \A n \in DOMAIN plan :
             rows'[n].deps = plan[n].deps /\ rows'[n].template = plan[n].template
    BY <1>1, <1>3, <2>2, RoundRows
  <2> QED
    BY <1>2, <2>1, <2>3 DEF PlanKept, Driven
<1>6. ParentsDone'
  <2>1. /\ \A c \in DOMAIN rows' \ DOMAIN plan' : rows'[c].parent # NoName
        /\ \A c \in DOMAIN rows' : rows'[c].parent # NoName =>
             /\ rows'[c].parent \in DOMAIN rows' /\ rows'[rows'[c].parent].status = "DONE"
             /\ rows'[c].parent \in DOMAIN Child
             /\ \E i \in 1..MaxKids : c = Child[rows'[c].parent][i]
             /\ c \notin DOMAIN plan' => rows'[c].deps = rows'[rows'[c].parent].deps
    BY <1>1, <1>2, <1>3, RoundParents
  <2> QED
    BY <2>1 DEF ParentsDone
<1>7. RanFirst' /\ DoneWereReady'
  BY <1>1, <1>2, <1>3, RoundRan, RoundReady
<1>8. NothingBehind'
  <2> SUFFICES ASSUME Plain, ~late'
               PROVE  \A n \in DOMAIN layer :
                        layer[n] < round' /\ rows'[n].status \in Runnable => ~DepsSatisfied(n)'
    BY <1>2 DEF NothingBehind, Plain
  <2> QED
    BY <1>1, <1>2, <1>3, RoundBehind
<1>9. WavesAreRounds'
  BY <1>1, <1>2, RoundWaves
<1>10. AcceptedPlanRuns'
  BY <1>2 DEF AcceptedPlanRuns
<1> QED
  BY <1>4, <1>5, <1>6, <1>7, <1>8, <1>9, <1>10 DEF IInv

\* A job in which nothing is ready, nothing is given up and nothing waits for the
\* children of what has none is done: the first by its number of the nodes left
\* would be ready.
LEMMA NothingStuck ==
  ASSUME TypeOK, PlanKept, ParentsDone, DoneWereReady, phase \in Driven,
         Frontier = {}, ~Adopted,
         \A n \in DOMAIN rows : rows[n].status \notin {"DONE", "NEEDS_HUMAN"} => ~Unfilled(n),
         \A n \in DOMAIN rows : rows[n].status # "NEEDS_HUMAN"
  PROVE  \A n \in DOMAIN rows : rows[n].status = "DONE"
<1> DEFINE Left == {n \in DOMAIN rows : rows[n].status # "DONE"}
<1> SUFFICES ASSUME Left # {} PROVE FALSE
  OBVIOUS
<1>1. /\ DOMAIN plan \subseteq DOMAIN rows /\ \A n \in DOMAIN plan : rows[n].deps = plan[n].deps
      /\ plan \in Proposals /\ Valid(plan)
  BY JobLayers DEF PlanKept
<1>2. ASSUME NEW n \in Left PROVE ~DepsSatisfied(n) /\ ~Unfilled(n)
  <2>1. rows[n].status \in Status
    BY DEF TypeOK, Row
  <2>2. rows[n].status \in Runnable
    BY <2>1 DEF Status, Runnable
  <2> QED
    BY <2>2 DEF Frontier
<1>3. Left \subseteq DOMAIN plan
  <2> SUFFICES ASSUME NEW c \in Left, c \notin DOMAIN plan PROVE FALSE
    OBVIOUS
  <2> DEFINE t == rows[c].parent
  <2>1. t \in DOMAIN rows /\ rows[t].status = "DONE" /\ rows[c].deps = rows[t].deps
    BY DEF ParentsDone
  <2>2. DepsSatisfied(t)
    BY <2>1 DEF DoneWereReady
  <2>3. DepsSatisfied(c)
    BY <2>1, <2>2 DEF DepsSatisfied
  <2> QED
    BY <1>2, <2>3
<1>4. PICK rank : Ranks(plan, rank)
  BY <1>1, ValidRanks
<1> DEFINE T == {rank[n] : n \in Left}
<1>5. T \in SUBSET Nat /\ T # {}
  BY <1>3, <1>4 DEF Ranks
<1>6. PICK x \in T : \A y \in T : x <= y
  BY <1>5, Least
<1>7. PICK n \in Left : rank[n] = x
  BY <1>6
<1>8. n \in DOMAIN plan /\ rows[n].deps = plan[n].deps /\ n \in DOMAIN rows
  BY <1>1, <1>3
<1>9. PICK d \in plan[n].deps :
        ~IF d \in Pattern
         THEN Kids(Base[d]) # {} /\ \A c \in Kids(Base[d]) : rows[c].status = "DONE"
         ELSE d \in DOMAIN rows /\ rows[d].status = "DONE"
  BY <1>2, <1>8 DEF DepsSatisfied
<1>10. CASE d \in Pattern
  <2>1. Kids(Base[d]) # {}
    BY <1>2, <1>8, <1>10 DEF Unfilled
  <2>2. PICK c \in Kids(Base[d]) : rows[c].status # "DONE"
    BY <1>9, <1>10, <2>1
  <2>3. c \in DOMAIN rows /\ rows[c].parent = Base[d]
    BY DEF Kids
  <2>4. c \in DOMAIN plan
    BY <1>3, <2>2, <2>3
  <2>5. Base[d] # NoName
    BY <1>10, ConstantsAssumption
  <2> QED
    BY <2>3, <2>4, <2>5 DEF Adopted
<1>11. CASE d \notin Pattern
  <2>1. Target(d, DOMAIN plan) \in DOMAIN plan /\ rank[Target(d, DOMAIN plan)] < rank[n]
    BY <1>4, <1>8 DEF Ranks
  <2>2. Target(d, DOMAIN plan) = d
    BY <1>11, <2>1, ConstantsAssumption, <1>1 DEF Target
  <2>3. d \in Left /\ rank[d] \in T /\ rank[d] < x
    BY <1>1, <1>7, <1>9, <1>11, <2>1, <2>2
  <2>4. x \in Nat /\ rank[d] \in Nat /\ x <= rank[d]
    BY <1>5, <1>6, <2>3
  <2> QED
    BY <2>3, <2>4
<1> QED
  BY <1>10, <1>11

LEMMA FinalizeIInv ==
  ASSUME IInv, Finalize
  PROVE  IInv'
<1>1. /\ phase = "running" /\ (round = limit \/ Frontier = {})
      /\ asked' = asked /\ plan' = plan /\ layer' = layer /\ rows' = rows /\ outputs' = outputs
      /\ limit' = limit /\ round' = round /\ ran' = ran /\ late' = late
  BY DEF Finalize, job
<1>2. phase' \in {"DONE", "NEEDS_HUMAN", "BLOCKED"}
  BY DEF Finalize
<1>3. /\ TypeOK /\ PlanKept /\ ParentsDone /\ RanFirst /\ DoneWereReady /\ NothingBehind
      /\ WavesAreRounds /\ phase \in Driven /\ phase' \in Driven
  BY <1>1, <1>2 DEF IInv, Driven
<1>4. TypeOK'
  <2>1. phase' \in Phases /\ phase' # "failed" /\ phase # "failed"
    BY <1>1, <1>2 DEF Phases
  <2> QED
    BY <1>1, <1>3, <2>1 DEF TypeOK
<1>5. PlanKept'
  <2>1. /\ plan \in Proposals /\ Valid(plan) /\ ~Recurses(plan) /\ layer = Layers(plan)
        /\ DOMAIN plan \subseteq DOMAIN rows
        /\ \A n \in DOMAIN plan :
             rows[n].deps = plan[n].deps /\ rows[n].template = plan[n].template
    BY <1>3, JobLayers DEF PlanKept
  <2>2. phase' # "crashed"
    BY <1>2
  <2> QED
    BY <1>1, <1>3, <2>1, <2>2 DEF PlanKept
<1>6. ParentsDone'
  BY <1>1, <1>3 DEF ParentsDone
<1>7. RanFirst' /\ DoneWereReady' /\ NothingBehind' /\ WavesAreRounds'
  BY <1>1, <1>3
  DEF RanFirst, DoneWereReady, NothingBehind, WavesAreRounds, Plain, DepsSatisfied, Kids
<1>8. AcceptedPlanRuns'
  <2> SUFFICES ASSUME phase' = "BLOCKED", round # limit, ~Adopted,
                      \A n \in DOMAIN rows : rows[n].status # "DONE" => ~Unfilled(n)
               PROVE  FALSE
    BY <1>1, <1>2 DEF AcceptedPlanRuns, Adopted, Unfilled, Kids
  <2> DEFINE left == {n \in DOMAIN rows : rows[n].status # "DONE"}
  <2>1. left # {} /\ \A n \in left : rows[n].status # "NEEDS_HUMAN"
    BY DEF Finalize
  <2>2. \A n \in DOMAIN rows : rows[n].status = "DONE"
    BY <1>1, <1>3, <2>1, NothingStuck
  <2> QED
    BY <2>1, <2>2
<1> QED
  BY <1>4, <1>5, <1>6, <1>7, <1>8 DEF IInv

\* Before the job there is nothing to keep but the plan.
LEMMA BeforeJob ==
  ASSUME IInv, phase \notin Driven, phase' \notin Driven, UNCHANGED job, TypeOK', PlanKept',
         phase' = "crashed" => DOMAIN plan' \cap Pattern # {}
  PROVE  IInv'
<1>1. layer' = None /\ rows' = None /\ DOMAIN None = {}
  BY DEF PlanKept, None
<1>2. ParentsDone' /\ RanFirst' /\ DoneWereReady' /\ NothingBehind' /\ WavesAreRounds'
  BY <1>1 DEF ParentsDone, RanFirst, DoneWereReady, NothingBehind, WavesAreRounds
<1>3. AcceptedPlanRuns'
  BY DEF AcceptedPlanRuns, Driven
<1> QED
  BY <1>2, <1>3 DEF IInv

LEMMA RefusedIInv ==
  ASSUME IInv, phase = "asking", Refused
  PROVE  IInv'
<1>1. /\ asked' = asked + 1 /\ phase' = (IF asked' = Attempts THEN "failed" ELSE "asking")
      /\ plan' = plan /\ layer' = layer /\ rows' = rows /\ outputs' = outputs
      /\ limit' = limit /\ round' = round /\ ran' = ran /\ late' = late /\ UNCHANGED job
  BY DEF Refused, GivesUp, job
<1>2. TypeOK /\ PlanKept /\ Attempts \in Nat
  BY ConstantsAssumption DEF IInv
<1>3. asked' \in 0..Attempts /\ (phase' = "failed" <=> asked' = Attempts) /\ phase' \in Phases
  BY <1>1, <1>2 DEF TypeOK, Phases
<1>4. TypeOK'
  BY <1>1, <1>2, <1>3 DEF TypeOK
<1>5. phase \notin Driven /\ phase' \notin Driven /\ phase' \in {"asking", "failed"}
  BY <1>1 DEF Driven
<1>6. PlanKept'
  BY <1>1, <1>2, <1>5 DEF PlanKept, Driven
<1>7. phase' # "crashed"
  BY <1>5
<1> QED
  BY <1>1, <1>4, <1>5, <1>6, <1>7, BeforeJob

LEMMA ProposeIInv ==
  ASSUME IInv, NEW p \in Proposals, Propose(p)
  PROVE  IInv'
<1>1. CASE ~Valid(p)
  BY <1>1, RefusedIInv DEF Propose
<1>2. CASE Valid(p)
  <2>1. /\ phase = "asking" /\ phase' = "offered" /\ plan' = p /\ asked' = 0 /\ UNCHANGED job
        /\ layer' = layer /\ rows' = rows /\ outputs' = outputs
        /\ limit' = limit /\ round' = round /\ ran' = ran /\ late' = late
    BY <1>2 DEF Propose, job
  <2>2. TypeOK /\ PlanKept /\ Attempts \in Nat \ {0}
    BY ConstantsAssumption DEF IInv
  <2>3. DOMAIN p \subseteq Name /\ p \in [DOMAIN p -> Node]
    BY ConstantsAssumption
  <2>4. asked' \in 0..Attempts /\ (phase' = "failed" <=> asked' = Attempts) /\ phase' \in Phases
    BY <2>1, <2>2 DEF Phases
  <2>5. TypeOK'
    BY <2>1, <2>2, <2>3, <2>4 DEF TypeOK
  <2>6. phase \notin Driven /\ phase' \notin Driven /\ phase' # "crashed"
    BY <2>1 DEF Driven
  <2>7. PlanKept'
    BY <1>2, <2>1, <2>2, <2>6 DEF PlanKept
  <2> QED
    BY <2>1, <2>5, <2>6, <2>7, BeforeJob
<1> QED
  BY <1>1, <1>2

LEMMA LeaveIInv ==
  ASSUME IInv, Decline \/ CreateFails
  PROVE  IInv'
<1>1. /\ phase = "offered" /\ phase' \in {"declined", "crashed"}
      /\ asked' = asked /\ plan' = plan /\ UNCHANGED job
      /\ layer' = layer /\ rows' = rows /\ outputs' = outputs
      /\ limit' = limit /\ round' = round /\ ran' = ran /\ late' = late
      /\ phase' = "crashed" => Recurses(plan)
  BY DEF Decline, CreateFails, job
<1>2. TypeOK /\ PlanKept
  BY DEF IInv
<1>3. phase' \in Phases /\ phase' # "failed" /\ phase # "failed"
  BY <1>1 DEF Phases
<1>4. TypeOK'
  BY <1>1, <1>2, <1>3 DEF TypeOK
<1>5. phase \notin Driven /\ phase' \notin Driven /\ plan \in Proposals /\ Valid(plan)
  BY <1>1, <1>2 DEF Driven, PlanKept
<1>6. PlanKept'
  BY <1>1, <1>2, <1>5 DEF PlanKept
<1>7. phase' = "crashed" => DOMAIN plan \cap Pattern # {}
  BY <1>1, <1>5, ValidRests
<1> QED
  BY <1>1, <1>4, <1>5, <1>6, <1>7, BeforeJob

LEMMA CreateJobIInv ==
  ASSUME IInv, NEW m \in Limits, CreateJob(m)
  PROVE  IInv'
<1>1. /\ phase = "offered" /\ ~Recurses(plan) /\ phase' = "running" /\ limit' = m
      /\ layer' = Layers(plan)
      /\ asked' = asked /\ plan' = plan /\ outputs' = outputs /\ round' = round /\ late' = late
  BY DEF CreateJob
<1>2. /\ TypeOK /\ PlanKept /\ plan \in Proposals /\ Valid(plan) /\ outputs = None /\ round = 0
  BY <1>1 DEF IInv, PlanKept, Driven
<1>3. /\ rows' = [n \in DOMAIN plan |->
                    [op |-> plan[n].op, template |-> plan[n].template, deps |-> plan[n].deps,
                     local |-> IsLocal(plan, n), parent |-> NoName, status |-> "PENDING"]]
      /\ ran' = [n \in DOMAIN plan |-> 0]
  BY DEF CreateJob
<1>4. DOMAIN plan \subseteq Name /\ plan \in [DOMAIN plan -> Node] /\ IsFiniteSet(DOMAIN plan)
  BY <1>2, ConstantsAssumption
<1>5. \A n \in DOMAIN plan :
        /\ rows'[n].deps = plan[n].deps /\ rows'[n].template = plan[n].template
        /\ rows'[n].parent = NoName /\ rows'[n].status = "PENDING"
  BY <1>3
<1>6. Layers(plan) \in [DOMAIN plan -> Nat]
  BY <1>1, <1>4, LayersRest
<1>7. TypeOK'
  <2>1. \A n \in DOMAIN plan : IsLocal(plan, n) \in BOOLEAN
    BY DEF IsLocal
  <2>2. \A n \in DOMAIN plan : plan[n].op \in Ops /\ plan[n].template \in BOOLEAN
                                 /\ plan[n].deps \in SUBSET Name
    BY <1>4 DEF Node
  <2>3. rows' \in [DOMAIN rows' -> Row] /\ DOMAIN rows' = DOMAIN plan
    BY <1>3, <2>1, <2>2 DEF Row, Status
  <2>4. ran' \in [DOMAIN rows' -> 0..round'] /\ round' \in 0..limit'
    <3>1. m \in Nat
      BY ConstantsAssumption
    <3> QED
      BY <1>1, <1>2, <1>3, <2>3, <3>1
  <2>5. DOMAIN outputs' \subseteq DOMAIN rows' /\ outputs' \in [DOMAIN outputs' -> 0..MaxKids]
    BY <1>1, <1>2 DEF None
  <2>6. layer' \in [DOMAIN layer' -> Nat]
    BY <1>1, <1>6
  <2>7. phase' \in Phases /\ (phase' = "failed" <=> asked' = Attempts) /\ asked' \in 0..Attempts
    BY <1>1, <1>2 DEF TypeOK, Phases
  <2> QED
    BY <1>1, <1>2, <1>4, <2>3, <2>4, <2>5, <2>6, <2>7 DEF TypeOK
<1>8. PlanKept'
  <2>1. phase' \in Driven /\ phase' # "crashed"
    BY <1>1 DEF Driven
  <2> QED
    BY <1>1, <1>2, <1>3, <1>5, <2>1 DEF PlanKept
<1>9. DOMAIN rows' = DOMAIN plan /\ DOMAIN plan' = DOMAIN plan
  BY <1>1, <1>3
<1>10. ParentsDone' /\ RanFirst' /\ DoneWereReady'
  BY <1>5, <1>9 DEF ParentsDone, RanFirst, DoneWereReady
<1>11. NothingBehind' /\ WavesAreRounds'
  <2>1. DOMAIN layer' = DOMAIN plan /\ \A n \in DOMAIN plan : layer'[n] \in Nat /\ ran'[n] = 0
    BY <1>1, <1>3, <1>6
  <2>2. \A n \in DOMAIN layer' : ~(layer'[n] < round')
    BY <1>1, <1>2, <2>1
  <2> QED
    BY <2>1, <2>2 DEF NothingBehind, WavesAreRounds
<1>12. AcceptedPlanRuns'
  BY <1>1 DEF AcceptedPlanRuns
<1> QED
  BY <1>7, <1>8, <1>10, <1>11, <1>12 DEF IInv

LEMMA NextIInv == IInv /\ [Next]_vars => IInv'
<1> SUFFICES ASSUME IInv, [Next]_vars PROVE IInv'
  OBVIOUS
<1>1. CASE NoPlanInAnswer
  BY <1>1, RefusedIInv DEF NoPlanInAnswer
<1>2. CASE \E p \in Proposals : Propose(p)
  BY <1>2, ProposeIInv
<1>3. CASE Decline \/ CreateFails
  BY <1>3, LeaveIInv
<1>4. CASE \E n \in Limits : CreateJob(n)
  BY <1>4, CreateJobIInv
<1>5. CASE Round
  BY <1>5, RoundIInv
<1>6. CASE Finalize
  BY <1>6, FinalizeIInv
<1>7. CASE UNCHANGED vars
  <2>1. /\ phase' = phase /\ asked' = asked /\ plan' = plan /\ layer' = layer /\ rows' = rows
        /\ outputs' = outputs /\ limit' = limit /\ round' = round /\ ran' = ran /\ late' = late
    BY <1>7 DEF vars
  <2>2. TypeOK' /\ PlanKept' /\ ParentsDone'
    BY <2>1 DEF IInv, TypeOK, PlanKept, ParentsDone
  <2>3. RanFirst' /\ DoneWereReady' /\ NothingBehind' /\ WavesAreRounds'
    BY <2>1 DEF IInv, RanFirst, DoneWereReady, NothingBehind, WavesAreRounds, Plain,
                DepsSatisfied, Kids
  <2>4. AcceptedPlanRuns'
    BY <2>1 DEF IInv, AcceptedPlanRuns, Adopted, Unfilled, Kids
  <2> QED
    BY <2>2, <2>3, <2>4 DEF IInv
<1> QED
  BY <1>1, <1>2, <1>3, <1>4, <1>5, <1>6, <1>7 DEF Next

\* The strengthening of the three run properties.
THEOREM AlwaysIInv == Spec => []IInv
BY InitIInv, NextIInv, PTL DEF Spec

\* The planning calls, the plan, the rows and the rounds keep their ranges.
THEOREM GraphTyped == Spec => []TypeOK
<1>1. IInv => TypeOK
  BY DEF IInv
<1> QED
  BY <1>1, AlwaysIInv, PTL

\* The plan the validator accepted can be carried out: plan_physical's recursion ends
\* on it unless an id is itself a pattern, and its job comes out BLOCKED only when
\* the waves ran out, a child took a planned id, or a node waits for the children of
\* what never had any.
THEOREM AcceptedPlansRun == Spec => []AcceptedPlanRuns
<1>1. IInv => AcceptedPlanRuns
  BY DEF IInv
<1> QED
  BY <1>1, AlwaysIInv, PTL

\* The waves plan_physical numbers are the rounds of the loop: none is later, and
\* without patterns and second tries they are the same.
THEOREM WavesMatchRounds == Spec => []WavesAreRounds
<1>1. IInv => WavesAreRounds
  BY DEF IInv
<1> QED
  BY <1>1, AlwaysIInv, PTL
===============================================================================
