------------------------ MODULE CoordTransformProofs ------------------------
(***************************************************************************)
(* Proofs about CoordTransform, for any number of coordinate systems, any  *)
(* pairs set between them and any group of isometries.                     *)
(*                                                                         *)
(* TableInv: what is set stays within the parts the given pairs connect,   *)
(* and finalize leaves no pair behind unset.  FitInv: what is set is what  *)
(* any placement of the systems says that fits the given transforms.       *)
(* SearchInv: while a search runs, a visited system has only visited       *)
(* neighbours, or reaches the target, or is still in its loop; and one     *)
(* that reaches it has an activation that does.  So a search that fails    *)
(* leaves a closed set of visited systems without the target.              *)
(***************************************************************************)
EXTENDS CoordTransform, FiniteSetTheorems, TLAPS

-----------------------------------------------------------------------------
(* The inductive invariant.                                                *)

TypeInv ==
    /\ setup \in Seq(Coords \X Coords)
    /\ given \in [1..Len(setup) -> Isometry]
    /\ m_transforms \in [Coords \X Coords -> Isometry]
    /\ m_transformSet \subseteq Coords \X Coords
    /\ calls \in 0..Len(setup)
    /\ service \in {"open", "finalizing", "final", "thrown"}
    /\ pair \in (0..N) \X Coords
    /\ stack \in Seq(Activation)
    /\ visited \subseteq Coords

\* Each activation but the last has called the next one for the neighbour its
\* loop is at, and no two are for the same system.
StackInv ==
    /\ stack # <<>> =>
          /\ service = "finalizing" /\ pair[1] < N /\ pair[1] # to
          /\ stack[1].from = pair[1]
    /\ \A k \in 1..Len(stack) : stack[k].from \in visited
    /\ \A k \in 1..(Len(stack) - 1) :
          /\ stack[k].i < N /\ stack[k + 1].from = stack[k].i
          /\ Known(stack[k].from, stack[k].i)
    /\ \A k, l \in 1..Len(stack) : stack[k].from = stack[l].from => k = l

\* What is set joins no systems that the given pairs keep apart.
Uncut(S) == \A e \in Edges : e \cap S = {} \/ e \subseteq S

CutInv ==
    \A S \in SUBSET Coords : Uncut(S) =>
        \A p \in m_transformSet : p[1] \in S <=> p[2] \in S

\* The pairs set so far, and those finalize has been through.
Behind(a, b) == a < pair[1] \/ (a = pair[1] /\ b < pair[2])

DoneInv ==
    /\ \A k \in 1..calls : /\ setup[k] \in m_transformSet
                           /\ <<setup[k][2], setup[k][1]>> \in m_transformSet
    /\ service # "open" => calls = Len(setup)
    /\ service = "finalizing" =>
          \A a, b \in Coords : a # b /\ Behind(a, b) => <<a, b>> \in m_transformSet
    /\ service = "final" => \A a, b \in Coords : a # b => <<a, b>> \in m_transformSet

\* Every placement that fits the given transforms fits what is set.
Fits(pose) ==
    \A k \in 1..Len(setup) : given[k] = Relative(pose, setup[k][1], setup[k][2])

FitInv ==
    \A pose \in [Coords -> Isometry] : Fits(pose) =>
        \A a, b \in Coords :
            m_transforms[<<a, b>>] =
                IF <<a, b>> \in m_transformSet THEN Relative(pose, a, b) ELSE Identity

Reaches(v) == <<v, to>> \in m_transformSet

Active(v, w) == \E k \in 1..Len(stack) : stack[k].from = v /\ w >= stack[k].i

SearchInv ==
    stack # <<>> =>
        /\ (\E v \in visited : Reaches(v)) =>
              \E k \in 1..Len(stack) : Reaches(stack[k].from)
        /\ to \in visited => \E v \in visited : Reaches(v)
        /\ \A v \in visited, w \in Coords :
              <<v, w>> \in m_transformSet => w \in visited \/ Reaches(v) \/ Active(v, w)

ThrownInv == service = "thrown" => ~Connected

TableInv == StackInv /\ CutInv /\ DoneInv /\ SearchInv /\ ThrownInv
-----------------------------------------------------------------------------
(* The stack and the table.                                                *)

\* The next turn of an activation ends the ones above it.
LEMMA NextTurnStack ==
  ASSUME stack \in Seq(Activation), NEW d \in 1..Len(stack), stack[d].i < N, NextTurn(d)
  PROVE  /\ stack' \in Seq(Activation) /\ Len(stack') = d
         /\ stack'[d].i = stack[d].i + 1
         /\ \A k \in 1..d : stack'[k].from = stack[k].from
         /\ \A k \in 1..(d - 1) : stack'[k] = stack[k]
<1> DEFINE below == SubSeq(stack, 1, d)
<1>1. below \in Seq(Activation) /\ Len(below) = d /\ \A k \in 1..d : below[k] = stack[k]
  OBVIOUS
<1>2. below[d] \in Activation /\ below[d].i + 1 \in 0..N
  BY <1>1, CoordAssumption DEF Activation
<1> HIDE DEF below
<1>3. stack' = [below EXCEPT ![d].i = @ + 1]
  BY DEF NextTurn, below
<1> DEFINE next == [below[d] EXCEPT !.i = @ + 1]
<1>4. next \in Activation /\ next.from = below[d].from /\ next.i = below[d].i + 1
  BY <1>2 DEF Activation
<1>5. stack' = [below EXCEPT ![d] = next]
  BY <1>3
<1> HIDE DEF next
<1>6. \A k \in 1..d : stack'[k] = IF k = d THEN next ELSE below[k]
  BY <1>1, <1>5
<1>7. stack' \in Seq(Activation) /\ Len(stack') = d
  BY <1>1, <1>4, <1>5
<1>8. QED BY <1>1, <1>4, <1>6, <1>7

LEMMA PushStack ==
  ASSUME stack \in Seq(Activation), NEW a \in Activation, stack' = Append(stack, a)
  PROVE  /\ stack' \in Seq(Activation) /\ Len(stack') = Len(stack) + 1
         /\ stack'[Len(stack) + 1] = a
         /\ \A k \in 1..Len(stack) : stack'[k] = stack[k]
  OBVIOUS

LEMMA SetupAt ==
  ASSUME TypeInv, NEW k \in 1..Len(setup)
  PROVE  /\ setup[k] \in Coords \X Coords /\ setup[k][1] \in Coords /\ setup[k][2] \in Coords
         /\ given[k] \in Isometry
<1>1. setup[k] \in Coords \X Coords
  <2> DEFINE P == Coords \X Coords
  <2>1. setup \in Seq(P)
    BY DEF TypeInv
  <2> HIDE DEF P
  <2>2. setup[k] \in P
    BY <2>1
  <2>3. QED BY <2>2 DEF P
<1>2. given[k] \in Isometry
  BY DEF TypeInv
<1>3. QED BY <1>1, <1>2

LEMMA ActivationAt ==
  ASSUME TypeInv, NEW k \in 1..Len(stack)
  PROVE  stack[k] \in Activation /\ stack[k].from \in Coords /\ stack[k].i \in 0..N
<1>1. stack[k] \in Activation
  BY DEF TypeInv
<1>2. QED BY <1>1 DEF Activation

\* The activation that runs.
LEMMA Running ==
  ASSUME TypeInv, Searching
  PROVE  /\ depth \in Nat \ {0} /\ depth \in 1..Len(stack)
         /\ from \in Coords /\ intermediate \in 0..N
<1>1. depth \in Nat \ {0} /\ depth \in 1..Len(stack)
  BY DEF TypeInv, Searching, depth
<1>2. QED BY <1>1, ActivationAt DEF from, intermediate

\* The only thing a search does to the table.
Joins(v, w) == Known(v, w) /\ Known(w, to) /\ Join(v, w)

LEMMA SearchTable ==
  ASSUME TypeInv, StackInv, Search
  PROVE  /\ UNCHANGED <<setup, given, calls, service, pair, inits>>
         /\ UNCHANGED table \/ \E v, w \in Coords : Joins(v, w)
<1> USE DEF table
<1>1. Searching
  BY DEF Search, JoinDirect, Descend, Pass, Return
<1>2. CASE JoinDirect
  <2>1. intermediate \in Coords
    BY <1>1, <1>2, Running, CoordAssumption DEF JoinDirect, Coords
  <2>2. QED BY <1>1, <1>2, <2>1, Running DEF JoinDirect, Joins
<1>3. CASE Descend \/ Pass
  BY <1>3 DEF Descend, Pass
<1>4. CASE Return
  <2>1. depth \in Nat /\ depth > 1
    BY <1>1, <1>4, Running DEF Return
  <2>2. /\ depth - 1 \in 1..(Len(stack) - 1) /\ depth - 1 \in 1..Len(stack)
        /\ (depth - 1) + 1 = depth
    BY <2>1 DEF depth
  <2>3. Known(stack[depth - 1].from, from)
    BY <2>2 DEF StackInv, from
  <2>4. stack[depth - 1].from \in Coords
    BY <2>2, ActivationAt
  <2>5. QED BY <1>1, <1>4, <2>3, <2>4, Running DEF Return, Joins
<1>5. QED BY <1>2, <1>3, <1>4 DEF Search

-----------------------------------------------------------------------------
(* Types and the stack.                                                    *)

LEMMA TypeInit == CoordInit => TypeInv /\ TableInv /\ FitInv
<1> SUFFICES ASSUME CoordInit PROVE TypeInv /\ TableInv /\ FitInv
  OBVIOUS
<1> USE CoordAssumption DEF CoordInit
<1>1. 0 \in Coords
  BY DEF Coords
<1>2. TypeInv
  BY <1>1, GroupAssumption DEF TypeInv
<1>3. StackInv /\ SearchInv /\ CutInv /\ ThrownInv
  BY DEF StackInv, SearchInv, CutInv, ThrownInv
<1>4. DoneInv
  BY DEF DoneInv
<1>5. FitInv
  BY DEF FitInv
<1>6. QED BY <1>2, <1>3, <1>4, <1>5 DEF TableInv

LEMMA TypeStep ==
  ASSUME TypeInv, StackInv, [CoordNext]_cvars
  PROVE  TypeInv'
<1> USE CoordAssumption
<1>1. CASE SetTransform
  <2>0. calls + 1 \in 1..Len(setup)
    BY <1>1 DEF SetTransform, TypeInv
  <2>1. setup[calls + 1] \in Coords \X Coords /\ given[calls + 1] \in Isometry
    BY <2>0, SetupAt
  <2>2. Invert(given[calls + 1]) \in Isometry
    BY <2>1, GroupAssumption
  <2>3. m_transforms' \in [Coords \X Coords -> Isometry]
    BY <1>1, <2>1, <2>2 DEF SetTransform, TypeInv
  <2>4. m_transformSet' \subseteq Coords \X Coords
    BY <1>1, <2>1 DEF SetTransform, TypeInv
  <2>5. calls' \in 0..Len(setup)
    BY <1>1, <2>0 DEF SetTransform, TypeInv
  <2>6. QED BY <1>1, <2>3, <2>4, <2>5 DEF SetTransform, TypeInv
<1>2. CASE Search
  <2>1. Searching
    BY <1>2 DEF Search, JoinDirect, Descend, Pass, Return
  <2>2. stack' \in Seq(Activation)
    <3>1. CASE JoinDirect \/ Pass
      BY <2>1, <3>1, Running, NextTurnStack DEF JoinDirect, Pass, TypeInv, intermediate
    <3>2. CASE Descend
      <4>1. [from |-> intermediate, i |-> 0] \in Activation
        BY <2>1, <3>2, Running DEF Descend, Activation, Coords
      <4>2. QED BY <3>2, <4>1, PushStack DEF Descend, TypeInv
    <3>3. CASE Return
      <4>1. depth - 1 \in 1..Len(stack) /\ depth - 1 \in 1..(Len(stack) - 1)
        BY <2>1, <3>3, Running DEF Return, depth
      <4>2. stack[depth - 1].i < N
        BY <4>1 DEF StackInv
      <4>3. QED BY <3>3, <4>1, <4>2, NextTurnStack DEF Return, TypeInv
    <3>4. QED BY <1>2, <3>1, <3>2, <3>3 DEF Search
  <2>3. visited' \subseteq Coords
    <3>1. CASE Descend
      <4>1. intermediate \in Coords
        BY <2>1, <3>1, Running DEF Descend, Coords
      <4>2. QED BY <3>1, <4>1 DEF Descend, TypeInv
    <3>2. QED BY <1>2, <3>1 DEF Search, JoinDirect, Pass, Return, TypeInv
  <2>4. to \in Coords
    BY DEF TypeInv, to
  <2>5. /\ m_transforms' \in [Coords \X Coords -> Isometry]
        /\ m_transformSet' \subseteq Coords \X Coords
    <3>1. CASE UNCHANGED table
      BY <3>1 DEF table, TypeInv
    <3>2. ASSUME NEW v \in Coords, NEW w \in Coords, Joins(v, w) PROVE <2>5
      <4>1. m_transforms[<<w, to>>] \in Isometry /\ m_transforms[<<v, w>>] \in Isometry
        BY <2>4 DEF TypeInv
      <4>2. Compose(m_transforms[<<w, to>>], m_transforms[<<v, w>>]) \in Isometry
        BY <4>1, GroupAssumption
      <4>3. QED BY <2>4, <3>2, <4>2 DEF Joins, Join, TypeInv
    <3>3. QED BY <1>2, <3>1, <3>2, SearchTable
  <2>6. QED BY <1>2, <2>2, <2>3, <2>5, SearchTable DEF TypeInv
<1>3. CASE StartFinalize
  BY <1>3 DEF StartFinalize, TypeInv, table, Coords
<1>4. ASSUME NextPair, pair[1] < N PROVE pair' \in (0..N) \X Coords
  BY <1>4 DEF NextPair, TypeInv, Coords
<1>5. CASE SkipPair
  BY <1>4, <1>5 DEF SkipPair, InLoop, TypeInv, table
<1>6. CASE StartSearch
  <2>1. pair[1] \in Coords
    BY <1>6 DEF StartSearch, InLoop, TypeInv, Coords
  <2>2. [from |-> pair[1], i |-> 0] \in Activation
    BY <2>1 DEF Activation
  <2>3. QED BY <1>6, <2>1, <2>2 DEF StartSearch, TypeInv, table
<1>7. CASE EndSearch
  BY <1>4, <1>7 DEF EndSearch, Searching, StackInv, TypeInv, table
<1>8. CASE EndFinalize \/ InitAgain \/ UNCHANGED cvars
  <2>1. CASE EndFinalize
    BY <2>1 DEF EndFinalize, TypeInv, table
  <2>2. CASE InitAgain
    BY <2>2 DEF InitAgain, TypeInv, table
  <2>3. CASE UNCHANGED cvars
    BY <2>3 DEF cvars, TypeInv, table
  <2>4. QED BY <1>8, <2>1, <2>2, <2>3
<1>9. QED BY <1>1, <1>2, <1>3, <1>5, <1>6, <1>7, <1>8 DEF CoordNext, Finalize

LEMMA NextTurnNested ==
  ASSUME TypeInv, StackInv, NEW d \in 1..Len(stack), stack[d].i < N, NextTurn(d),
         UNCHANGED <<service, pair, visited>>, m_transformSet \subseteq m_transformSet'
  PROVE  StackInv'
<1>1. /\ stack' \in Seq(Activation) /\ Len(stack') = d
      /\ \A k \in 1..d : stack'[k].from = stack[k].from
      /\ \A k \in 1..(d - 1) : stack'[k] = stack[k]
  BY NextTurnStack DEF TypeInv
<1>2. d \in Nat /\ 1 \in 1..d /\ stack # <<>>
  OBVIOUS
<1>3. /\ service' = "finalizing" /\ pair'[1] < N /\ pair'[1] # to'
      /\ stack'[1].from = pair'[1]
  BY <1>1, <1>2 DEF StackInv, to
<1>4. \A k \in 1..d : stack'[k].from \in visited'
  BY <1>1 DEF StackInv
<1>5. ASSUME NEW k \in 1..(d - 1)
      PROVE  /\ stack'[k].i < N /\ stack'[k + 1].from = stack'[k].i
             /\ <<stack'[k].from, stack'[k].i>> \in m_transformSet'
  <2>1. k \in 1..(Len(stack) - 1) /\ k \in 1..d /\ k + 1 \in 1..d
    BY <1>2
  <2>2. /\ stack[k].i < N /\ stack[k + 1].from = stack[k].i
        /\ <<stack[k].from, stack[k].i>> \in m_transformSet
    BY <2>1 DEF StackInv, Known
  <2>3. stack'[k] = stack[k] /\ stack'[k + 1].from = stack[k + 1].from
    BY <1>1, <2>1
  <2>4. QED BY <2>2, <2>3
<1>6. \A k, l \in 1..d : stack'[k].from = stack'[l].from => k = l
  BY <1>1 DEF StackInv
<1>7. QED BY <1>1, <1>3, <1>4, <1>5, <1>6 DEF StackInv, Known

LEMMA StackStep ==
  ASSUME TypeInv, StackInv, [CoordNext]_cvars
  PROVE  StackInv'
<1> USE CoordAssumption
<1>e. ASSUME stack' = <<>> PROVE StackInv'
  BY <1>e DEF StackInv
<1>1. CASE Search
  <2>1. Searching
    BY <1>1 DEF Search, JoinDirect, Descend, Pass, Return
  <2>2. UNCHANGED <<service, pair>> /\ m_transformSet \subseteq m_transformSet'
    BY <1>1, SearchTable DEF Joins, Join, table
  <2>3. CASE JoinDirect \/ Pass
    <3>1. depth \in 1..Len(stack) /\ stack[depth].i < N /\ NextTurn(depth)
      BY <2>1, <2>3, Running DEF JoinDirect, Pass, intermediate
    <3>2. visited' = visited
      BY <2>3 DEF JoinDirect, Pass
    <3>3. QED BY <2>2, <3>1, <3>2, NextTurnNested
  <2>4. CASE Return
    <3>1. depth - 1 \in 1..Len(stack) /\ depth - 1 \in 1..(Len(stack) - 1)
      BY <2>1, <2>4, Running DEF Return, depth
    <3>2. stack[depth - 1].i < N /\ NextTurn(depth - 1) /\ visited' = visited
      BY <2>4, <3>1 DEF StackInv, Return
    <3>3. QED BY <2>2, <3>1, <3>2, NextTurnNested
  <2>5. CASE Descend
    <3> DEFINE L == Len(stack)
               new == [from |-> intermediate, i |-> 0]
    <3>1. /\ intermediate \in Coords /\ intermediate \notin visited
          /\ Known(from, intermediate)
          /\ visited' = visited \cup {intermediate} /\ m_transformSet' = m_transformSet
      BY <2>1, <2>5, Running DEF Descend, Seen, Coords, table
    <3>2. new \in Activation /\ new.from = intermediate
      BY <3>1 DEF Activation, Coords
    <3>3. stack' = Append(stack, new)
      BY <2>5 DEF Descend
    <3> HIDE DEF new
    <3>4. /\ Len(stack') = L + 1 /\ stack'[L + 1] = new
          /\ \A k \in 1..L : stack'[k] = stack[k]
      BY <3>2, <3>3, PushStack DEF TypeInv
    <3>5. /\ L \in Nat \ {0} /\ L = depth /\ 1 \in 1..L
          /\ \A k \in 1..(L + 1) : k \in 1..L \/ k = L + 1
      BY <2>1, Running DEF depth
    <3>6. /\ service' = "finalizing" /\ pair'[1] < N /\ pair'[1] # to'
          /\ stack'[1].from = pair'[1]
      BY <2>1, <2>2, <3>4, <3>5 DEF StackInv, to, Searching
    <3>7. \A k \in 1..(L + 1) : stack'[k].from \in visited'
      BY <3>1, <3>2, <3>4, <3>5 DEF StackInv
    <3>8. ASSUME NEW k \in 1..L
          PROVE  /\ stack'[k].i < N /\ stack'[k + 1].from = stack'[k].i
                 /\ <<stack'[k].from, stack'[k].i>> \in m_transformSet'
      <4>1. CASE k = L
        <5>1. stack'[k].from = from /\ stack'[k].i = intermediate
          BY <3>4, <3>5, <4>1 DEF from, intermediate
        <5>2. stack'[k + 1].from = intermediate
          BY <3>2, <3>4, <4>1
        <5>3. intermediate < N
          BY <2>5 DEF Descend
        <5>4. QED BY <3>1, <5>1, <5>2, <5>3 DEF Known
      <4>2. CASE k # L
        <5>1. k \in 1..(Len(stack) - 1) /\ k + 1 \in 1..L
          BY <3>5, <4>2
        <5>2. QED BY <3>1, <3>4, <5>1 DEF StackInv, Known
      <4>3. QED BY <4>1, <4>2
    <3>9. \A k, l \in 1..(L + 1) : stack'[k].from = stack'[l].from => k = l
      <4>1. \A k \in 1..L : stack'[k].from # stack'[L + 1].from
        BY <3>1, <3>2, <3>4 DEF StackInv
      <4>2. \A k, l \in 1..L : stack'[k].from = stack'[l].from => k = l
        BY <3>4 DEF StackInv
      <4>3. QED BY <3>5, <4>1, <4>2
    <3>10. (L + 1) - 1 = L
      BY <3>5
    <3> HIDE DEF L
    <3>11. QED BY <3>4, <3>6, <3>7, <3>8, <3>9, <3>10 DEF StackInv, Known
  <2>6. QED BY <1>1, <2>3, <2>4, <2>5 DEF Search
<1>2. CASE StartSearch
  <2>1. /\ stack' = << [from |-> pair[1], i |-> 0] >> /\ visited' = {pair[1]}
        /\ service' = "finalizing" /\ pair' = pair /\ pair[1] < N /\ pair[1] # pair[2]
    BY <1>2 DEF StartSearch, InLoop, NeedsSearch
  <2>2. Len(stack') = 1 /\ stack'[1].from = pair[1]
    BY <2>1
  <2>3. (Len(stack') - 1) = 0 /\ \A k \in 1..1 : k = 1
    BY <2>2
  <2>4. \A k \in 1..0 : FALSE
    OBVIOUS
  <2>5. QED BY <2>1, <2>2, <2>3, <2>4 DEF StackInv, to
<1>3. CASE SetTransform \/ StartFinalize \/ SkipPair \/ EndFinalize \/ InitAgain
  <2>1. stack = <<>> /\ stack' = stack
    BY <1>3 DEF SetTransform, StartFinalize, SkipPair, InLoop, EndFinalize, InitAgain, StackInv
  <2>2. QED BY <1>e, <2>1
<1>4. CASE EndSearch
  BY <1>4, <1>e DEF EndSearch
<1>5. CASE UNCHANGED cvars
  BY <1>5 DEF cvars, table, StackInv, Known, to
<1>6. QED BY <1>1, <1>2, <1>3, <1>4, <1>5 DEF CoordNext, Finalize

-----------------------------------------------------------------------------
(* The parts the given pairs connect, and the pairs finalize has been      *)
(* through.                                                                *)

\* Only setTransform and the search change the table.
LEMMA TableElsewhere ==
  ASSUME [CoordNext]_cvars, ~SetTransform, ~Search
  PROVE  UNCHANGED <<setup, given, m_transforms, m_transformSet>>
<1>1. CASE StartFinalize \/ SkipPair \/ StartSearch
  BY <1>1 DEF StartFinalize, SkipPair, StartSearch, table
<1>2. CASE EndSearch \/ EndFinalize \/ InitAgain
  BY <1>2 DEF EndSearch, EndFinalize, InitAgain, table
<1>3. CASE UNCHANGED cvars
  BY <1>3 DEF cvars, table
<1>4. QED BY <1>1, <1>2, <1>3 DEF CoordNext, Finalize

LEMMA TableGrows ==
  ASSUME TypeInv, StackInv, [CoordNext]_cvars
  PROVE  m_transformSet \subseteq m_transformSet' /\ UNCHANGED <<setup, given>>
<1>1. CASE SetTransform
  BY <1>1 DEF SetTransform
<1>2. CASE Search
  BY <1>2, SearchTable DEF Joins, Join, table
<1>3. QED BY <1>1, <1>2, TableElsewhere

\* The pair of one setTransform call.
LEMMA SetTransformPair ==
  ASSUME TypeInv, SetTransform
  PROVE  LET a == setup[calls + 1][1]
             b == setup[calls + 1][2]
         IN  /\ calls + 1 \in 1..Len(setup) /\ a \in Coords /\ b \in Coords
             /\ setup[calls + 1] = <<a, b>> /\ given[calls + 1] \in Isometry
             /\ m_transforms' = [m_transforms EXCEPT ![<<a, b>>] = given[calls + 1],
                                                     ![<<b, a>>] = Invert(given[calls + 1])]
             /\ m_transformSet' = m_transformSet \cup {<<a, b>>, <<b, a>>}
<1>1. calls + 1 \in 1..Len(setup)
  BY DEF SetTransform, TypeInv
<1>2. setup[calls + 1] \in Coords \X Coords /\ given[calls + 1] \in Isometry
  BY <1>1, SetupAt
<1>3. QED BY <1>1, <1>2 DEF SetTransform

LEMMA CutStep ==
  ASSUME TypeInv, StackInv, CutInv, [CoordNext]_cvars
  PROVE  CutInv'
<1>1. Edges' = Edges
  BY TableGrows DEF Edges
<1>2. SUFFICES ASSUME NEW S \in SUBSET Coords, Uncut(S), NEW p \in m_transformSet'
               PROVE  p[1] \in S <=> p[2] \in S
  BY <1>1 DEF CutInv, Uncut
<1>3. \A q \in m_transformSet : q[1] \in S <=> q[2] \in S
  BY <1>2 DEF CutInv
<1>4. CASE SetTransform
  <2> DEFINE a == setup[calls + 1][1]
             b == setup[calls + 1][2]
  <2>1. {a, b} \in Edges
    BY <1>4, SetTransformPair DEF Edges
  <2>2. a \in S <=> b \in S
    BY <1>2, <2>1 DEF Uncut
  <2>3. p \in m_transformSet \/ p = <<a, b>> \/ p = <<b, a>>
    BY <1>4, SetTransformPair
  <2>4. QED BY <1>3, <2>2, <2>3
<1>5. CASE Search
  <2>1. CASE UNCHANGED table
    BY <1>3, <2>1 DEF table
  <2>2. ASSUME NEW v \in Coords, NEW w \in Coords, Joins(v, w) PROVE p[1] \in S <=> p[2] \in S
    <3>1. <<v, w>> \in m_transformSet /\ <<w, to>> \in m_transformSet
      BY <2>2 DEF Joins, Known
    <3>2. v \in S <=> to \in S
      BY <1>3, <3>1
    <3>3. p \in m_transformSet \/ p = <<v, to>>
      BY <2>2 DEF Joins, Join
    <3>4. QED BY <1>3, <3>2, <3>3
  <2>3. QED BY <1>5, <2>1, <2>2, SearchTable
<1>6. QED BY <1>3, <1>4, <1>5, TableElsewhere

LEMMA DoneStep ==
  ASSUME TypeInv, StackInv, DoneInv, [CoordNext]_cvars
  PROVE  DoneInv'
<1> USE CoordAssumption
<1> DEFINE Set(k) == setup[k] \in m_transformSet
                     /\ <<setup[k][2], setup[k][1]>> \in m_transformSet
           SetNext(k) == setup'[k] \in m_transformSet'
                         /\ <<setup'[k][2], setup'[k][1]>> \in m_transformSet'
           Through == \A a, b \in Coords : a # b /\ Behind(a, b) => <<a, b>> \in m_transformSet
           ThroughNext == \A a, b \in Coords :
                              a # b /\ Behind(a, b)' => <<a, b>> \in m_transformSet'
           All == \A a, b \in Coords : a # b => <<a, b>> \in m_transformSet
           AllNext == \A a, b \in Coords : a # b => <<a, b>> \in m_transformSet'
<1>1. /\ \A k \in 1..calls : Set(k)
      /\ service # "open" => calls = Len(setup)
      /\ service = "finalizing" => Through
      /\ service = "final" => All
  BY DEF DoneInv
<1>2. \A k : Set(k) => SetNext(k)
  BY TableGrows
<1>3. All => AllNext
  BY TableGrows
<1>4. pair' = pair => (Through => ThroughNext)
  BY TableGrows DEF Behind
\* The next pair is behind only what the last one was, and the last one.
<1>5. ASSUME NextPair, Through, pair[1] = pair[2] \/ pair \in m_transformSet PROVE ThroughNext
  <2> SUFFICES ASSUME NEW a \in Coords, NEW b \in Coords, a # b, Behind(a, b)'
               PROVE  <<a, b>> \in m_transformSet
    BY TableGrows
  <2>1. pair = <<pair[1], pair[2]>> /\ pair[1] \in 0..N /\ pair[2] \in Coords
    BY DEF TypeInv
  <2>2. Behind(a, b) \/ (a = pair[1] /\ b = pair[2])
    BY <1>5, <2>1 DEF Behind, NextPair, Coords
  <2>3. CASE Behind(a, b)
    BY <1>5, <2>3
  <2>4. CASE a = pair[1] /\ b = pair[2]
    BY <1>5, <2>1, <2>4
  <2>5. QED BY <2>2, <2>3, <2>4
<1> SUFFICES /\ \A k \in 1..calls' : SetNext(k)
             /\ service' # "open" => calls' = Len(setup')
             /\ service' = "finalizing" => ThroughNext
             /\ service' = "final" => AllNext
  BY DEF DoneInv
<1> HIDE DEF Set, SetNext, Through, ThroughNext, All, AllNext
<1>6. setup' = setup
  BY TableGrows
<1>7. CASE SetTransform
  <2>1. SetNext(calls + 1)
    BY <1>6, <1>7, SetTransformPair DEF SetNext
  <2>2. calls' = calls + 1 /\ service = "open" /\ service' = service /\ calls \in Nat
    BY <1>7 DEF SetTransform, TypeInv
  <2>3. \A k \in 1..calls' : k \in 1..calls \/ k = calls + 1
    BY <2>2
  <2>4. QED BY <1>1, <1>2, <2>1, <2>2, <2>3
<1>8. CASE Search
  BY <1>1, <1>2, <1>3, <1>4, <1>6, <1>8, SearchTable
<1>9. CASE StartFinalize
  <2>1. /\ calls' = calls /\ calls = Len(setup) /\ service' = "finalizing" /\ pair' = <<0, 0>>
    BY <1>9 DEF StartFinalize
  <2>2. ThroughNext
    BY <2>1 DEF ThroughNext, Behind, Coords
  <2>3. QED BY <1>1, <1>2, <1>6, <2>1, <2>2
<1>10. CASE SkipPair \/ EndSearch
  <2>1. service = "finalizing" /\ calls' = calls
    BY <1>10 DEF SkipPair, InLoop, EndSearch, Searching
  <2>2. \/ /\ service' = service /\ NextPair
           /\ pair[1] = pair[2] \/ pair \in m_transformSet
        \/ service' = "thrown"
    BY <1>10, <2>1 DEF SkipPair, EndSearch, NeedsSearch
  <2>3. QED BY <1>1, <1>2, <1>5, <1>6, <2>1, <2>2
<1>11. CASE StartSearch
  BY <1>1, <1>2, <1>3, <1>4, <1>6, <1>11 DEF StartSearch
<1>12. CASE EndFinalize
  <2>1. service = "finalizing" /\ calls' = calls /\ service' = "final" /\ pair[1] = N
    BY <1>12 DEF EndFinalize
  <2>2. Through => All
    BY <2>1 DEF Through, All, Behind, Coords
  <2>3. QED BY <1>1, <1>2, <1>3, <1>6, <2>1, <2>2
<1>13. CASE InitAgain
  BY <1>13 DEF InitAgain
<1>14. CASE UNCHANGED cvars
  BY <1>1, <1>2, <1>3, <1>4, <1>6, <1>14 DEF cvars
<1>15. QED BY <1>7, <1>8, <1>9, <1>10, <1>11, <1>12, <1>13, <1>14 DEF CoordNext, Finalize

-----------------------------------------------------------------------------
(* Relative transforms.                                                    *)

LEMMA InverseUnique ==
  ASSUME NEW p \in Isometry, NEW q \in Isometry, Compose(p, q) = Identity
  PROVE  Invert(p) = q
<1>1. Invert(p) = Compose(Invert(p), Identity)
  BY GroupAssumption
<1>2. Compose(Invert(p), Compose(p, q)) = Compose(Compose(Invert(p), p), q)
  BY GroupAssumption
<1>3. Compose(Compose(Invert(p), p), q) = q
  BY GroupAssumption
<1>4. QED BY <1>1, <1>2, <1>3

LEMMA RelativeType ==
  ASSUME NEW pose \in [Coords -> Isometry], NEW a \in Coords, NEW b \in Coords
  PROVE  Relative(pose, a, b) \in Isometry
<1>1. pose[a] \in Isometry /\ pose[b] \in Isometry
  OBVIOUS
<1>2. QED BY <1>1, GroupAssumption DEF Relative

\* From a to b and on to c is from a to c.
LEMMA RelativeJoin ==
  ASSUME NEW pose \in [Coords -> Isometry],
         NEW a \in Coords, NEW b \in Coords, NEW c \in Coords
  PROVE  Compose(Relative(pose, b, c), Relative(pose, a, b)) = Relative(pose, a, c)
<1> DEFINE x == Invert(pose[a])
           y == pose[b]
           z == pose[c]
           u == Invert(y)
<1>1. y \in Isometry /\ z \in Isometry /\ x \in Isometry /\ u \in Isometry
  BY GroupAssumption
<1>2. Compose(u, y) = Identity
  BY <1>1, GroupAssumption
<1>3. Relative(pose, b, c) = Compose(z, u) /\ Relative(pose, a, b) = Compose(y, x)
      /\ Relative(pose, a, c) = Compose(z, x)
  BY DEF Relative
<1> HIDE DEF x, y, z, u
<1>4. Compose(z, u) \in Isometry
  BY <1>1, GroupAssumption
<1>5. Compose(Compose(z, u), Compose(y, x)) = Compose(Compose(Compose(z, u), y), x)
  BY <1>1, <1>4, GroupAssumption
<1>6. Compose(Compose(z, u), y) = Compose(z, Compose(u, y))
  BY <1>1, GroupAssumption
<1>7. Compose(z, Compose(u, y)) = z
  BY <1>1, <1>2, GroupAssumption
<1>8. QED BY <1>3, <1>5, <1>6, <1>7

LEMMA RelativeSelf ==
  ASSUME NEW pose \in [Coords -> Isometry], NEW a \in Coords
  PROVE  Relative(pose, a, a) = Identity
<1>1. pose[a] \in Isometry
  OBVIOUS
<1>2. QED BY <1>1, GroupAssumption DEF Relative

LEMMA RelativeInvert ==
  ASSUME NEW pose \in [Coords -> Isometry], NEW a \in Coords, NEW b \in Coords
  PROVE  Invert(Relative(pose, a, b)) = Relative(pose, b, a)
<1>1. Compose(Relative(pose, a, b), Relative(pose, b, a)) = Identity
  BY RelativeJoin, RelativeSelf
<1>2. QED BY <1>1, InverseUnique, RelativeType

-----------------------------------------------------------------------------
(* The transforms.                                                         *)

LEMMA FitStep ==
  ASSUME TypeInv, StackInv, FitInv, [CoordNext]_cvars
  PROVE  FitInv'
<1>1. SUFFICES ASSUME NEW pose \in [Coords -> Isometry], Fits(pose),
                      NEW a \in Coords, NEW b \in Coords
               PROVE  m_transforms'[<<a, b>>] =
                         IF <<a, b>> \in m_transformSet' THEN Relative(pose, a, b)
                         ELSE Identity
  BY TableGrows DEF FitInv, Fits, Relative
<1>2. \A c, d \in Coords :
         m_transforms[<<c, d>>] =
             IF <<c, d>> \in m_transformSet THEN Relative(pose, c, d) ELSE Identity
  BY <1>1 DEF FitInv
<1>3. m_transforms \in [Coords \X Coords -> Isometry] /\ <<a, b>> \in Coords \X Coords
  BY DEF TypeInv
<1>4. CASE SetTransform
  <2> DEFINE c == setup[calls + 1][1]
             d == setup[calls + 1][2]
             t == given[calls + 1]
  <2>1. /\ c \in Coords /\ d \in Coords /\ calls + 1 \in 1..Len(setup)
        /\ m_transforms' = [m_transforms EXCEPT ![<<c, d>>] = t, ![<<d, c>>] = Invert(t)]
        /\ m_transformSet' = m_transformSet \cup {<<c, d>>, <<d, c>>}
    BY <1>4, SetTransformPair
  <2>2. t = Relative(pose, c, d)
    BY <1>1, <2>1 DEF Fits
  <2>3. Invert(t) = Relative(pose, d, c)
    BY <2>1, <2>2, RelativeInvert
  <2> HIDE DEF c, d, t
  <2>4. m_transforms'[<<a, b>>] = IF <<a, b>> = <<d, c>> THEN Invert(t)
                                  ELSE IF <<a, b>> = <<c, d>> THEN t
                                  ELSE m_transforms[<<a, b>>]
    BY <1>3, <2>1
  <2>5. CASE <<a, b>> = <<d, c>>
    BY <2>1, <2>3, <2>4, <2>5
  <2>6. CASE <<a, b>> # <<d, c>> /\ <<a, b>> = <<c, d>>
    BY <2>1, <2>2, <2>4, <2>6
  <2>7. CASE <<a, b>> # <<d, c>> /\ <<a, b>> # <<c, d>>
    BY <1>2, <2>1, <2>4, <2>7
  <2>8. QED BY <2>5, <2>6, <2>7
<1>5. CASE Search
  <2>1. CASE UNCHANGED table
    BY <1>2, <2>1 DEF table
  <2>2. ASSUME NEW v \in Coords, NEW w \in Coords, Joins(v, w)
        PROVE  m_transforms'[<<a, b>>] =
                  IF <<a, b>> \in m_transformSet' THEN Relative(pose, a, b) ELSE Identity
    <3>1. to \in Coords
      BY DEF TypeInv, to
    <3>2. /\ m_transforms[<<w, to>>] = Relative(pose, w, to)
          /\ m_transforms[<<v, w>>] = Relative(pose, v, w)
      BY <1>2, <2>2, <3>1 DEF Joins, Known
    <3>3. Compose(m_transforms[<<w, to>>], m_transforms[<<v, w>>]) = Relative(pose, v, to)
      BY <3>1, <3>2, RelativeJoin
    <3>4. /\ m_transforms' = [m_transforms EXCEPT ![<<v, to>>] = Relative(pose, v, to)]
          /\ m_transformSet' = m_transformSet \cup {<<v, to>>}
      BY <2>2, <3>3 DEF Joins, Join
    <3>5. CASE <<a, b>> = <<v, to>>
      <4>1. m_transforms'[<<a, b>>] = Relative(pose, v, to)
        BY <1>3, <3>4, <3>5
      <4>2. QED BY <3>4, <3>5, <4>1
    <3>6. CASE <<a, b>> # <<v, to>>
      BY <1>2, <1>3, <3>4, <3>6
    <3>7. QED BY <3>5, <3>6
  <2>3. QED BY <1>5, <2>1, <2>2, SearchTable
<1>6. QED BY <1>2, <1>4, <1>5, TableElsewhere

-----------------------------------------------------------------------------
(* The search.                                                             *)

\* One turn of a loop ends at the activation d, whose neighbour there has been
\* looked at: it is visited, or the system of d reaches the target.
LEMMA NextTurnSearch ==
  ASSUME TypeInv, StackInv, SearchInv,
         NEW d \in 1..Len(stack), stack[d].i < N, NextTurn(d),
         UNCHANGED <<pair, visited>>, m_transformSet \subseteq m_transformSet',
         \A p \in m_transformSet' : p \in m_transformSet \/ p = <<stack[d].from, to>>,
         d = Len(stack) \/ (d = Len(stack) - 1 /\ stack[Len(stack)].i = N),
         d # Len(stack) /\ Reaches(stack[Len(stack)].from) =>
             <<stack[d].from, to>> \in m_transformSet',
         \/ <<stack[d].from, stack[d].i>> \notin m_transformSet
         \/ stack[d].i \in visited
         \/ <<stack[d].from, to>> \in m_transformSet'
  PROVE  SearchInv'
<1> DEFINE L == Len(stack)
           Reached(v) == <<v, to>> \in m_transformSet'
<1>1. L \in Nat \ {0} /\ d \in 1..L /\ L \in 1..L
  BY DEF TypeInv
<1>2. /\ Len(stack') = d /\ stack'[d].i = stack[d].i + 1
      /\ \A k \in 1..d : stack'[k].from = stack[k].from
      /\ \A k \in 1..(d - 1) : stack'[k] = stack[k]
  BY NextTurnStack DEF TypeInv
<1>3. to' = to /\ \A v : Reaches(v)' <=> Reached(v)
  BY DEF to, Reaches
<1>4. stack[d].from \in visited
  BY DEF StackInv
<1>5. /\ (\E v \in visited : Reaches(v)) => \E k \in 1..L : Reaches(stack[k].from)
      /\ to \in visited => \E v \in visited : Reaches(v)
      /\ \A v \in visited, w \in Coords :
            <<v, w>> \in m_transformSet => w \in visited \/ Reaches(v) \/ Active(v, w)
  BY <1>1 DEF SearchInv
<1>6. \A v : Reaches(v) => Reached(v)
  BY DEF Reaches
<1>7. ASSUME NEW v \in visited, Reached(v)
      PROVE  \E k \in 1..d : Reached(stack[k].from)
  <2>1. CASE Reaches(v)
    <3>1. PICK k \in 1..L : Reaches(stack[k].from)
      BY <1>5, <2>1
    <3>2. CASE k \in 1..d
      BY <1>6, <3>1, <3>2
    <3>3. CASE k \notin 1..d
      <4>1. k = L /\ d # L
        BY <1>1, <3>3
      <4>2. Reached(stack[d].from)
        BY <3>1, <4>1
      <4>3. QED BY <1>1, <4>2
    <3>4. QED BY <3>2, <3>3
  <2>2. CASE ~Reaches(v)
    <3>1. v = stack[d].from
      BY <1>7, <2>2 DEF Reaches
    <3>2. QED BY <1>1, <1>7, <3>1
  <2>3. QED BY <2>1, <2>2
<1>8. ASSUME NEW v \in visited, NEW w \in Coords, <<v, w>> \in m_transformSet'
      PROVE  w \in visited \/ Reached(v) \/ Active(v, w)'
  <2>1. CASE <<v, w>> \notin m_transformSet
    BY <1>8, <2>1
  <2>2. CASE w \in visited \/ Reaches(v)
    BY <1>6, <2>2
  <2>3. CASE <<v, w>> \in m_transformSet /\ Active(v, w)
    <3>1. PICK k \in 1..L : stack[k].from = v /\ w >= stack[k].i
      BY <2>3 DEF Active
    <3>2. w \in 0..(N - 1) /\ N \in Nat
      BY CoordAssumption DEF Coords
    <3>3. CASE k \in 1..(d - 1)
      <4>1. k \in 1..d /\ stack'[k].from = v /\ w >= stack'[k].i
        BY <1>1, <1>2, <3>1, <3>3
      <4>2. QED BY <1>2, <4>1 DEF Active
    <3>4. CASE k = d
      <4>1. stack[d].i \in 0..N
        BY ActivationAt
      <4>2. CASE w = stack[d].i
        BY <2>3, <3>1, <3>4, <4>2
      <4>3. CASE w # stack[d].i
        <5>1. w >= stack[d].i + 1
          BY <3>1, <3>2, <3>4, <4>1, <4>3
        <5>2. d \in 1..d /\ stack'[d].from = v /\ w >= stack'[d].i
          BY <1>1, <1>2, <3>1, <3>4, <5>1
        <5>3. QED BY <1>2, <5>2 DEF Active
      <4>4. QED BY <4>2, <4>3
    <3>5. CASE k \notin 1..d
      <4>1. k = L /\ d # L
        BY <1>1, <3>5
      <4>2. w >= N
        BY <3>1, <4>1
      <4>3. QED BY <3>2, <4>2
    <3>6. QED BY <1>1, <3>3, <3>4, <3>5
  <2>4. QED BY <1>5, <2>1, <2>2, <2>3
<1>9. to \in visited => \E v \in visited : Reached(v)
  BY <1>5, <1>6
<1>10. (\E v \in visited : Reached(v)) => \E k \in 1..d : Reached(stack'[k].from)
  BY <1>2, <1>7
<1> HIDE DEF Reached, L
<1>11. QED BY <1>2, <1>3, <1>8, <1>9, <1>10 DEF SearchInv

LEMMA SearchStep ==
  ASSUME TypeInv, StackInv, SearchInv, [CoordNext]_cvars
  PROVE  SearchInv'
<1> USE CoordAssumption
<1>e. ASSUME stack' = <<>> PROVE SearchInv'
  BY <1>e DEF SearchInv
<1>1. CASE Search
  <2> DEFINE L == Len(stack)
  <2>1. Searching /\ L \in Nat \ {0} /\ L \in 1..L /\ depth = L /\ stack # <<>>
        /\ from = stack[L].from /\ intermediate = stack[L].i
    <3>1. Searching
      BY <1>1 DEF Search, JoinDirect, Descend, Pass, Return
    <3>2. QED BY <3>1, Running DEF depth, from, intermediate, Searching
  <2>2. UNCHANGED pair /\ m_transformSet \subseteq m_transformSet'
    BY <1>1, SearchTable DEF Joins, Join, table
  <2>3. CASE JoinDirect
    <3>1. /\ stack[L].i < N /\ NextTurn(L) /\ visited' = visited
          /\ m_transformSet' = m_transformSet \cup {<<stack[L].from, to>>}
      BY <2>1, <2>3 DEF JoinDirect, Join
    <3>2. QED BY <2>1, <2>2, <3>1, NextTurnSearch
  <2>4. CASE Pass
    <3>1. /\ stack[L].i < N /\ NextTurn(L) /\ visited' = visited
          /\ m_transformSet' = m_transformSet
      BY <2>1, <2>4 DEF Pass, table
    <3>2. <<stack[L].from, stack[L].i>> \notin m_transformSet \/ stack[L].i \in visited
      BY <2>1, <2>4 DEF Pass, Known, Seen
    <3>3. QED BY <2>1, <2>2, <3>1, <3>2, NextTurnSearch
  <2>5. CASE Return
    <3> DEFINE d == L - 1
    <3>1. d \in 1..L /\ d \in 1..(L - 1) /\ d + 1 = L /\ d # L
      BY <2>1, <2>5 DEF Return
    <3>2. stack[L].i = N /\ NextTurn(d) /\ visited' = visited
      BY <2>1, <2>5 DEF Return
    <3>3. stack[d].i < N /\ stack[d].i = stack[L].from /\ stack[L].from \in visited
      BY <2>1, <3>1 DEF StackInv
    <3>4. IF Reaches(stack[L].from)
          THEN m_transformSet' = m_transformSet \cup {<<stack[d].from, to>>}
          ELSE m_transformSet' = m_transformSet
      BY <2>1, <2>5 DEF Return, Known, Reaches, Join, table
    <3> HIDE DEF d
    <3>5. /\ \A p \in m_transformSet' : p \in m_transformSet \/ p = <<stack[d].from, to>>
          /\ Reaches(stack[L].from) => <<stack[d].from, to>> \in m_transformSet'
      BY <3>4
    <3>6. d = L - 1
      BY DEF d
    <3>7. QED BY <2>2, <3>1, <3>2, <3>3, <3>5, <3>6, NextTurnSearch
  <2>6. CASE Descend
    <3> DEFINE x == intermediate
               new == [from |-> x, i |-> 0]
    <3>1. /\ x \in Coords /\ x \notin visited /\ x \in 0..N
          /\ Known(from, x) /\ ~Known(x, to)
          /\ visited' = visited \cup {x} /\ m_transformSet' = m_transformSet
      BY <2>1, <2>6, Running DEF Descend, Seen, Coords, table
    <3>2. new \in Activation /\ new.from = x /\ new.i = 0
      BY <3>1 DEF Activation
    <3>3. stack' = Append(stack, new)
      BY <2>6 DEF Descend
    <3> HIDE DEF new, x
    <3>4. /\ Len(stack') = L + 1 /\ stack'[L + 1] = new
          /\ \A k \in 1..L : stack'[k] = stack[k]
      BY <3>2, <3>3, PushStack DEF TypeInv
    <3>5. \A k \in 1..L : k \in 1..(L + 1)
      BY <2>1
    <3>6. to' = to /\ \A v : Reaches(v)' <=> Reaches(v)
      BY <2>2, <3>1 DEF to, Reaches
    <3>7. /\ (\E v \in visited : Reaches(v)) => \E k \in 1..L : Reaches(stack[k].from)
          /\ to \in visited => \E v \in visited : Reaches(v)
          /\ \A v \in visited, w \in Coords :
                <<v, w>> \in m_transformSet => w \in visited \/ Reaches(v) \/ Active(v, w)
      BY <2>1 DEF SearchInv
    <3>8. ~Reaches(x)
      BY <3>1 DEF Reaches, Known
    <3>9. (\E v \in visited' : Reaches(v)) => \E k \in 1..(L + 1) : Reaches(stack'[k].from)
      BY <3>1, <3>4, <3>5, <3>7, <3>8
    <3>10. to \in visited' => \E v \in visited' : Reaches(v)
      <4>1. CASE to = x
        <5>1. Reaches(from)
          BY <3>1, <4>1 DEF Reaches, Known
        <5>2. from \in visited
          BY <2>1 DEF StackInv
        <5>3. QED BY <3>1, <5>1, <5>2
      <4>2. CASE to # x
        BY <3>1, <3>7, <4>2
      <4>3. QED BY <4>1, <4>2
    <3>11. ASSUME NEW v \in visited', NEW w \in Coords, <<v, w>> \in m_transformSet'
           PROVE  w \in visited' \/ Reaches(v) \/ Active(v, w)'
      <4>1. CASE v = x
        <5>1. L + 1 \in 1..(L + 1) /\ stack'[L + 1].from = v /\ w >= stack'[L + 1].i
          BY <2>1, <3>2, <3>4, <4>1 DEF Coords
        <5>2. QED BY <3>4, <5>1 DEF Active
      <4>2. CASE v \in visited /\ Active(v, w)
        <5>1. PICK k \in 1..L : stack[k].from = v /\ w >= stack[k].i
          BY <4>2 DEF Active
        <5>2. k \in 1..(L + 1) /\ stack'[k].from = v /\ w >= stack'[k].i
          BY <3>4, <3>5, <5>1
        <5>3. QED BY <3>4, <5>2 DEF Active
      <4>3. CASE v \in visited /\ ~Active(v, w)
        BY <3>1, <3>7, <3>11, <4>3
      <4>4. QED BY <3>1, <4>1, <4>2, <4>3
    <3> HIDE DEF L
    <3>12. QED BY <3>4, <3>6, <3>9, <3>10, <3>11 DEF SearchInv
  <2>7. QED BY <1>1, <2>3, <2>4, <2>5, <2>6 DEF Search
<1>2. CASE StartSearch
  <2>1. /\ stack' = << [from |-> pair[1], i |-> 0] >> /\ visited' = {pair[1]}
        /\ to' = to /\ pair[1] # to
    BY <1>2 DEF StartSearch, InLoop, NeedsSearch, to
  <2>2. Len(stack') = 1 /\ stack'[1].from = pair[1] /\ stack'[1].i = 0 /\ 1 \in 1..1
    BY <2>1
  <2>3. ASSUME NEW v \in visited', NEW w \in Coords PROVE Active(v, w)'
    <3>1. 1 \in 1..Len(stack') /\ stack'[1].from = v /\ w >= stack'[1].i
      BY <2>1, <2>2 DEF Coords
    <3>2. QED BY <3>1 DEF Active
  <2>4. (\E v \in visited' : Reaches(v)') => \E k \in 1..Len(stack') : <<stack'[k].from, to'>> \in m_transformSet'
    <3>1. ASSUME NEW v \in visited', Reaches(v)'
          PROVE  1 \in 1..Len(stack') /\ <<stack'[1].from, to'>> \in m_transformSet'
      BY <2>1, <2>2, <3>1 DEF Reaches
    <3>2. QED BY <3>1 DEF Reaches
  <2>5. to' \notin visited'
    BY <2>1
  <2>6. /\ (\E v \in visited' : Reaches(v)') => \E k \in 1..Len(stack') : Reaches(stack[k].from)'
        /\ to' \in visited' => \E v \in visited' : Reaches(v)'
        /\ \A v \in visited', w \in Coords :
              <<v, w>> \in m_transformSet' => w \in visited' \/ Reaches(v)' \/ Active(v, w)'
    BY <2>3, <2>4, <2>5 DEF Reaches
  <2>7. QED BY <2>6 DEF SearchInv
<1>3. CASE SetTransform \/ StartFinalize \/ SkipPair \/ EndFinalize \/ InitAgain
  <2>1. stack = <<>> /\ stack' = stack
    BY <1>3 DEF SetTransform, StartFinalize, SkipPair, InLoop, EndFinalize, InitAgain, StackInv
  <2>2. QED BY <1>e, <2>1
<1>4. CASE EndSearch
  BY <1>4, <1>e DEF EndSearch
<1>5. CASE UNCHANGED cvars
  BY <1>5 DEF cvars, table, SearchInv, Reaches, Active, to
<1>6. QED BY <1>1, <1>2, <1>3, <1>4, <1>5 DEF CoordNext, Finalize

\* A search that ends without the pair has visited a part of the systems that
\* the given pairs do not connect with the target.
LEMMA FailedSearch ==
  ASSUME TypeInv, StackInv, DoneInv, SearchInv, EndSearch, pair \notin m_transformSet
  PROVE  ~Connected
<1> USE CoordAssumption
<1>1. /\ stack # <<>> /\ Len(stack) = 1 /\ stack[1].i = N /\ service = "finalizing"
  BY DEF EndSearch, Searching, depth, intermediate
<1>2. stack[1].from = pair[1] /\ pair[1] \in visited /\ 1 \in 1..1
  BY <1>1 DEF StackInv
<1>3. pair = <<pair[1], to>> /\ to \in Coords
  BY DEF TypeInv, to
<1>4. ~Reaches(pair[1])
  BY <1>3 DEF Reaches
<1>5. \A v \in visited : ~Reaches(v)
  BY <1>1, <1>2, <1>4 DEF SearchInv
<1>6. to \notin visited
  BY <1>1, <1>5 DEF SearchInv
<1>7. ASSUME NEW v \in visited, NEW w \in Coords, <<v, w>> \in m_transformSet
      PROVE  w \in visited
  <2>1. ~Active(v, w)
    BY <1>1 DEF Active, Coords
  <2>2. QED BY <1>1, <1>5, <1>7, <2>1 DEF SearchInv
<1>8. visited \in (SUBSET Coords) \ {{}, Coords}
  BY <1>2, <1>3, <1>6 DEF TypeInv
<1>9. ASSUME Connected PROVE FALSE
  <2>1. PICK e \in Edges : e \cap visited # {} /\ e \ visited # {}
    BY <1>8, <1>9 DEF Connected
  <2>2. PICK k \in 1..Len(setup) : e = {setup[k][1], setup[k][2]}
    BY <2>1 DEF Edges
  <2> DEFINE a == setup[k][1]
             b == setup[k][2]
  <2>3. a \in Coords /\ b \in Coords /\ setup[k] = <<a, b>>
    BY SetupAt
  <2>4. <<a, b>> \in m_transformSet /\ <<b, a>> \in m_transformSet
    BY <1>1, <2>3 DEF DoneInv
  <2> HIDE DEF a, b
  <2>5. a \in visited <=> b \in visited
    BY <1>7, <2>3, <2>4
  <2>6. e = {a, b}
    BY <2>2 DEF a, b
  <2>7. QED BY <2>1, <2>5, <2>6
<1>10. QED BY <1>9

LEMMA ThrownStep ==
  ASSUME TypeInv, TableInv, [CoordNext]_cvars
  PROVE  ThrownInv'
<1> USE DEF TableInv
<1>1. Connected' = Connected
  <2>1. Edges' = Edges
    BY TableGrows DEF Edges
  <2>2. QED BY <2>1 DEF Connected
<1>2. CASE EndSearch
  BY <1>1, <1>2, FailedSearch DEF EndSearch, ThrownInv, Searching
<1>3. CASE Search
  BY <1>1, <1>3, SearchTable DEF ThrownInv
<1>4. CASE SetTransform \/ StartFinalize \/ SkipPair \/ StartSearch \/ EndFinalize \/ InitAgain
  <2>1. service' # "thrown" \/ service' = service
    BY <1>4 DEF SetTransform, StartFinalize, SkipPair, StartSearch, EndFinalize, InitAgain
  <2>2. QED BY <1>1, <2>1 DEF ThrownInv
<1>5. CASE UNCHANGED cvars
  BY <1>1, <1>5 DEF cvars, ThrownInv
<1>6. QED BY <1>2, <1>3, <1>4, <1>5 DEF CoordNext, Finalize

-----------------------------------------------------------------------------
(* The invariant holds.                                                    *)

CoordInv == TypeInv /\ TableInv /\ FitInv

LEMMA CoordAlways == CoordSpec => []CoordInv
<1>1. CoordInit => CoordInv
  BY TypeInit DEF CoordInv
<1>2. CoordInv /\ [CoordNext]_cvars => CoordInv'
  BY TypeStep, StackStep, CutStep, DoneStep, SearchStep, ThrownStep, FitStep
     DEF CoordInv, TableInv
<1>3. QED BY <1>1, <1>2, PTL DEF CoordSpec

\* No two activations are for the same system, so there are at most N.
LEMMA DepthBounded ==
  ASSUME TypeInv, StackInv
  PROVE  Len(stack) <= N
<1> DEFINE L == Len(stack)
           T == {stack[k].from : k \in 1..L}
           f == [k \in 1..L |-> stack[k].from]
<1>1. L \in Nat
  BY DEF TypeInv
<1>2. T \subseteq Coords
  BY ActivationAt
<1>3. f \in Surjection(1..L, T) /\ f \in Injection(1..L, T)
  BY DEF StackInv, Surjection, Injection, IsInjective
<1> HIDE DEF L, T, f
<1>4. IsFiniteSet(1..L) /\ Cardinality(1..L) = L
  <2>1. 1 \in Int /\ L \in Int /\ (1 > L => L = 0)
    BY <1>1
  <2>2. IsFiniteSet(1..L) /\ Cardinality(1..L) = IF 1 > L THEN 0 ELSE L - 1 + 1
    BY <2>1, FS_Interval
  <2>3. QED BY <1>1, <2>1, <2>2
<1>5. Cardinality(T) = L
  BY <1>3, <1>4, FS_Surjection
<1>6. IsFiniteSet(Coords) /\ Cardinality(Coords) = N
  <2>1. 0 \in Int /\ N - 1 \in Int /\ ~(0 > N - 1)
    BY CoordAssumption
  <2>2. IsFiniteSet(Coords) /\ Cardinality(Coords) = IF 0 > N - 1 THEN 0 ELSE (N - 1) - 0 + 1
    BY <2>1, FS_Interval DEF Coords
  <2>3. QED BY <2>1, <2>2, CoordAssumption
<1>7. Cardinality(T) <= Cardinality(Coords)
  BY <1>2, <1>6, FS_Subset
<1>8. QED BY <1>5, <1>6, <1>7 DEF L

\* The members keep their types, and calculateTransform, which recurses along
\* a table it is changing, nests at most N deep.
THEOREM CoordTypes == CoordSpec => []CoordTypeOK
<1>1. CoordInv => CoordTypeOK
  BY DepthBounded DEF CoordInv, TableInv, TypeInv, CoordTypeOK
<1>2. QED BY <1>1, CoordAlways, PTL

\* finalize throws only on a table that cannot be completed, and completes
\* only one that can: the visited set never hides a chain, and no chain joins
\* systems that are not connected.
THEOREM FinalizeComplete == CoordSpec => []FinalIffConnected
<1>1. ASSUME CoordInv PROVE FinalIffConnected
  <2> USE <1>1 DEF CoordInv, TableInv
  <2>1. ASSUME service = "final" PROVE Connected
    <3> SUFFICES ASSUME NEW S \in (SUBSET Coords) \ {{}, Coords}
                 PROVE  \E e \in Edges : e \cap S # {} /\ e \ S # {}
      BY DEF Connected
    <3>1. PICK a \in Coords, b \in Coords : a \in S /\ b \notin S
      OBVIOUS
    <3>2. <<a, b>> \in m_transformSet
      BY <2>1, <3>1 DEF DoneInv
    <3>3. ~Uncut(S)
      BY <3>1, <3>2 DEF CutInv
    <3>4. QED BY <3>3 DEF Uncut
  <2>2. QED BY <2>1 DEF FinalIffConnected, ThrownInv
<1>2. QED BY <1>1, CoordAlways, PTL

\* Whichever chains the search has joined, in whatever order: unless the given
\* transforms contradict each other, the completed table is that of one
\* placement of the systems.
THEOREM TransformsCoherent == CoordSpec => []Coherent
<1>1. ASSUME CoordInv PROVE Coherent
  <2> USE <1>1 DEF CoordInv, TableInv
  <2> SUFFICES ASSUME service = "final", Consistent
               PROVE  /\ \A k \in 1..Len(setup) : m_transforms[setup[k]] = given[k]
                      /\ \A a, b, c \in Coords :
                            m_transforms[<<a, c>>] =
                                Compose(m_transforms[<<b, c>>], m_transforms[<<a, b>>])
    BY DEF Coherent
  <2>1. PICK pose \in [Coords -> Isometry] : Fits(pose)
    BY DEF Consistent, Fits
  <2>2. ASSUME NEW a \in Coords, NEW b \in Coords
        PROVE  m_transforms[<<a, b>>] = Relative(pose, a, b)
    <3>1. m_transforms[<<a, b>>] =
             IF <<a, b>> \in m_transformSet THEN Relative(pose, a, b) ELSE Identity
      BY <2>1 DEF FitInv
    <3>2. <<a, b>> \in m_transformSet \/ a = b
      BY DEF DoneInv
    <3>3. QED BY <3>1, <3>2, RelativeSelf
  <2>3. ASSUME NEW k \in 1..Len(setup) PROVE m_transforms[setup[k]] = given[k]
    <3>1. /\ setup[k] = <<setup[k][1], setup[k][2]>>
          /\ setup[k][1] \in Coords /\ setup[k][2] \in Coords
      BY SetupAt
    <3>2. given[k] = Relative(pose, setup[k][1], setup[k][2])
      BY <2>1 DEF Fits
    <3>3. QED BY <2>2, <3>1, <3>2
  <2>4. QED BY <2>2, <2>3, RelativeJoin
<1>2. QED BY <1>1, CoordAlways, PTL
=============================================================================
