-------------------------- MODULE BaseXGraphProofs --------------------------
(***************************************************************************)
(* Proofs about BaseXGraph, for every graph layout, policy, depth, set of  *)
(* readers and set of timestamps.                                          *)
(*                                                                         *)
(* The inductive invariant says where a frame can be and what the graph    *)
(* can still do with it.  Its heart is OvertakenIsDead: when a newer frame *)
(* has already reached the output side of a group, an older frame that is  *)
(* still incomplete for that group lacks an output that the graph can no   *)
(* longer deliver.                                                         *)
(***************************************************************************)
EXTENDS BaseXGraph, TLAPS, FiniteSetTheorems

\* Start and Stop order the flag, the graph and the camera thread.
Phases ==
    /\ control \in {"starting", "up", "closing"} => graph = "running"
    /\ control = "waiting" => graph = "closed"
    /\ control = "stopped" => graph = "idle"
    /\ started => control = "up"
    /\ pushpc # "idle" => control = "up" /\ pushraw \in Raws
    /\ graph = "idle" => \A o \in Orders : cb[o].pc = "idle"

\* Raw timestamps already used, by the registered frames and the results.
NotNewer(raw) == raw <= pushraw /\ (pushpc = "register" => raw < pushraw)

\* Every registered frame is under its own stamp, no newer than the camera's
\* clock, and its packets are counted.
Registered ==
    /\ IsFiniteSet(DOMAIN inference)
    /\ \A s \in DOMAIN inference :
        /\ Micro(inference[s].raw) = s
        /\ NotNewer(inference[s].raw)
        /\ inference[s].sum = Cardinality(inference[s].packs)

\* An output that has arrived for a frame is not delivered again.
NoRepeat ==
    \A s \in DOMAIN inference :
        /\ \A o \in inference[s].packs : s \in accepted => s <= emitted[o]
        /\ pushpc = "image" /\ s = Micro(pushraw) /\ (\A t \in accepted : s > t)
              => inference[s].packs = {}

\* A frame on its way into its group: complete, and no output of the group is
\* behind it.
PendingItemOK(o) ==
    /\ cb[o].item \in Item
    /\ NotNewer(cb[o].item.raw)
    /\ cb[o].stamp = emitted[o]
    /\ GroupOrders(GroupOf[o]) \subseteq cb[o].item.packs
    /\ \A q \in GroupOrders(GroupOf[o]) : cb[o].stamp <= emitted[q]

\* ... for every executor thread.
PendingOK == \A o \in Orders : Pending(o) => PendingItemOK(o)

\* At most one frame is on its way into a group.
OnePending ==
    \A o, q \in Orders : Pending(o) /\ Pending(q) /\ GroupOf[o] = GroupOf[q] => o = q

\* Results are no newer than the camera's clock.
ResultsOld ==
    \A g \in Groups : \A i \in DOMAIN outputs[g] : NotNewer(outputs[g][i].raw)

\* A frame on its way is newer than what its group holds.
PendingNewest ==
    \A o \in Orders : Pending(o) =>
        \A i \in DOMAIN outputs[GroupOf[o]] : outputs[GroupOf[o]][i].raw < cb[o].item.raw

\* A frame with timestamp raw is on the output side of group g.
Held(g, raw) ==
    \/ \E i \in DOMAIN outputs[g] : outputs[g][i].raw = raw
    \/ \E o \in Orders : Pending(o) /\ GroupOf[o] = g /\ cb[o].item.raw = raw

\* A result newer than the registered frame s means that s, as long as it is
\* incomplete for the group, can never be completed.
DeadIfOvertaken(g, s, raw) ==
    ~(GroupOrders(g) \subseteq inference[s].packs) /\ Held(g, raw) =>
        /\ raw # inference[s].raw
        /\ raw > inference[s].raw =>
              \E q \in GroupOrders(g) \ inference[s].packs : ~CanEmit(q, s)

\* ... for every group, registered frame and result.  This is what makes the
\* order of the output caches inductive.
OvertakenIsDead ==
    \A g \in Groups, s \in DOMAIN inference : \A raw \in Raws : DeadIfOvertaken(g, s, raw)

\* Who sleeps under m_output_lock holds it.
LockOK == \A o \in Orders : outlock = o <=> cb[o].pc = "block"

\* The inductive invariant: the auxiliary parts and the properties themselves.
IInv ==
    /\ TypeOK
    /\ Phases
    /\ Registered
    /\ NoRepeat
    /\ PendingOK
    /\ OnePending
    /\ ResultsOld
    /\ PendingNewest
    /\ OvertakenIsDead
    /\ LockOK
    /\ InferenceBounded
    /\ DepthBounded
    /\ OutputsComplete
    /\ NewestFirst
    /\ FrontExists

-----------------------------------------------------------------------------
(* Facts about the operators.                                              *)

\* Division by a positive number keeps the order.
LEMMA DivMonotone ==
    ASSUME NEW n \in Nat \ {0}, NEW a \in Nat, NEW b \in Nat, a <= b
    PROVE  a \div n <= b \div n
  <1>1. /\ a \div n \in Nat /\ b \div n \in Nat
        /\ n * (a \div n) <= a
        /\ b < n * (b \div n) + n
    BY Z3
  <1>2. SUFFICES ASSUME a \div n >= (b \div n) + 1 PROVE FALSE
    BY <1>1
  <1>3. n * (a \div n) >= n * ((b \div n) + 1)
    BY <1>1, <1>2, Z3
  <1> QED
    BY <1>1, <1>3, Z3

\* Microseconds keep the order of the nanosecond timestamps (PushData).
LEMMA MicroMonotone ==
    ASSUME NEW a \in Nat, NEW b \in Nat
    PROVE  /\ Micro(a) \in Nat
           /\ a <= b => Micro(a) <= Micro(b)
           /\ Micro(a) < Micro(b) => a < b
  <1>1. Micro(a) \in Nat /\ Micro(b) \in Nat
    BY SizeAssumption, Z3 DEF Micro
  <1>2. ASSUME a <= b PROVE Micro(a) <= Micro(b)
    BY <1>2, DivMonotone, SizeAssumption DEF Micro
  <1>3. ASSUME b <= a PROVE Micro(b) <= Micro(a)
    BY <1>3, DivMonotone, SizeAssumption DEF Micro
  <1> QED
    BY <1>1, <1>2, <1>3

\* The graph stamps are numbers, and so are the camera's timestamps.
LEMMA StampFacts ==
    /\ Stamps \subseteq Nat
    /\ \A r \in Raws : r \in Nat /\ r > 0 /\ Micro(r) \in Stamps
  BY MicroMonotone, SizeAssumption DEF Stamps

\* What CleanGraphNoResultInferenceCache leaves is a part of the cache and
\* smaller than BASEXGRAPH_MAX_GLOBALCACHEDEPTH.
LEMMA EvictBound ==
    ASSUME NEW f, IsFiniteSet(DOMAIN f), DOMAIN f \subseteq Nat
    PROVE  LET h == CleanGraphNoResultInferenceCache(f) IN
           /\ DOMAIN h \subseteq DOMAIN f
           /\ \A s \in DOMAIN h : h[s] = f[s]
           /\ IsFiniteSet(DOMAIN h)
           /\ Cardinality(DOMAIN h) < MaxCache
  <1> DEFINE Above(s) == {t \in DOMAIN f : t >= s}
             K == {s \in DOMAIN f : Cardinality(Above(s)) < MaxCache}
             h == CleanGraphNoResultInferenceCache(f)
  <1>1. DOMAIN h = K /\ \A s \in K : h[s] = f[s]
    BY DEF CleanGraphNoResultInferenceCache, Restrict
  <1>2. K \subseteq DOMAIN f /\ IsFiniteSet(K)
    BY FS_Subset
  <1>3. \A s \in K : /\ IsFiniteSet(Above(s))
                     /\ s \in Above(s)
                     /\ Cardinality(Above(s)) \in 1..(MaxCache - 1)
    <2> TAKE s \in K
    <2>1. IsFiniteSet(Above(s)) /\ s \in Above(s)
      BY FS_Subset
    <2>2. Cardinality(Above(s)) \in Nat /\ Cardinality(Above(s)) # 0
      BY <2>1, FS_CardinalityType, FS_EmptySet
    <2> QED
      BY <2>1, <2>2, SizeAssumption
  <1>4. ASSUME NEW s \in K, NEW t \in K, Cardinality(Above(s)) = Cardinality(Above(t)), s < t
        PROVE  FALSE
    <2>1. Above(t) \subseteq Above(s) /\ s \notin Above(t)
      BY <1>4, <1>2
    <2>2. Above(t) = Above(s)
      BY <2>1, <1>3, <1>4, FS_Subset
    <2> QED
      BY <2>1, <2>2, <1>3
  <1> DEFINE rank == [s \in K |-> Cardinality(Above(s))]
  <1>5. rank \in Injection(K, 1..(MaxCache - 1))
    <2>1. rank \in [K -> 1..(MaxCache - 1)]
      BY <1>3
    <2>2. ASSUME NEW s \in K, NEW t \in K, rank[s] = rank[t], s # t PROVE FALSE
      <3>1. s \in Nat /\ t \in Nat
        BY <1>2
      <3> QED
        BY <2>2, <1>4, <3>1
    <2> QED
      BY <2>1, <2>2 DEF Injection, IsInjective
  <1>6. Cardinality(K) <= MaxCache - 1
    <2>1. IsFiniteSet(1..(MaxCache - 1)) /\ Cardinality(1..(MaxCache - 1)) = MaxCache - 1
      BY FS_Interval, SizeAssumption
    <2> HIDE DEF rank
    <2> QED
      BY <1>5, <2>1, FS_Injection
  <1>7. Cardinality(K) \in Nat
    BY <1>2, FS_CardinalityType
  <1> QED
    BY <1>1, <1>2, <1>6, <1>7, SizeAssumption

-----------------------------------------------------------------------------
(* Type correctness.                                                       *)

\* push_front: the list grows by one, and starts with the new element.
LEMMA ListFacts ==
    ASSUME NEW S, NEW q \in Seq(S), NEW x \in S
    PROVE  /\ <<x>> \o q \in Seq(S)
           /\ Len(<<x>> \o q) = Len(q) + 1
           /\ DOMAIN (<<x>> \o q) = 1..(Len(q) + 1)
           /\ (<<x>> \o q)[1] = x
           /\ \A i \in 1..Len(q) : (<<x>> \o q)[i + 1] = q[i]
  OBVIOUS

\* front() and pop_front() of a list that is not empty.
LEMMA HeadFacts ==
    ASSUME NEW S, NEW q \in Seq(S), q # <<>>
    PROVE  /\ Len(q) \in Nat /\ Len(q) >= 1
           /\ Head(q) = q[1] /\ q[1] \in S
           /\ Tail(q) \in Seq(S)
           /\ Len(Tail(q)) = Len(q) - 1
           /\ \A i \in 1..(Len(q) - 1) : Tail(q)[i] = q[i + 1]
  OBVIOUS

\* push_front moves every element one place back.
LEMMA PushFrontTail ==
    ASSUME NEW S, NEW q \in Seq(S), NEW x \in S
    PROVE  \A i \in 2..Len(<<x>> \o q) : (<<x>> \o q)[i] = q[i - 1]
  OBVIOUS

\* pop_back of a list that is not empty.
LEMMA DropLast ==
    ASSUME NEW S, NEW q \in Seq(S), q # <<>>
    PROVE  LET p == SubSeq(q, 1, Len(q) - 1) IN
           /\ p \in Seq(S)
           /\ Len(p) = Len(q) - 1
           /\ \A i \in 1..(Len(q) - 1) : p[i] = q[i]
  OBVIOUS

\* push_front, possibly after pop_back: the list starts with the item, then
\* comes a prefix of what was there.
LEMMA LoopCoverFacts ==
    ASSUME NEW S, NEW q \in Seq(S), NEW x \in S, NEW d \in Nat \ {0}
    PROVE  LET p == LoopCover(q, x, d) IN
           /\ p \in Seq(S)
           /\ Len(p) >= 1
           /\ Len(p) <= Len(q) + 1
           /\ Len(q) <= d => Len(p) <= d
           /\ p[1] = x
           /\ \A i \in 2..Len(p) : p[i] = q[i - 1]
  <1> DEFINE r == IF Len(q) >= d THEN SubSeq(q, 1, Len(q) - 1) ELSE q
  <1>1. r \in Seq(S) /\ Len(r) \in Nat /\ Len(r) <= Len(q) /\ (Len(q) <= d => Len(r) <= d - 1)
        /\ \A i \in 1..Len(r) : r[i] = q[i]
    <2>1. CASE Len(q) >= d
      BY <2>1, DropLast
    <2>2. CASE ~(Len(q) >= d)
      BY <2>2
    <2> QED
      BY <2>1, <2>2
  <1>2. LoopCover(q, x, d) = <<x>> \o r
    BY DEF LoopCover
  <1> HIDE DEF r
  <1>3. /\ <<x>> \o r \in Seq(S)
        /\ Len(<<x>> \o r) = Len(r) + 1
        /\ (<<x>> \o r)[1] = x
        /\ \A i \in 1..Len(r) : (<<x>> \o r)[i + 1] = r[i]
    BY <1>1, ListFacts
  <1>4. ASSUME NEW i \in 2..Len(<<x>> \o r) PROVE (<<x>> \o r)[i] = q[i - 1]
    <2>1. i - 1 \in 1..Len(r) /\ (i - 1) + 1 = i
      BY <1>1, <1>3
    <2> QED
      BY <2>1, <1>3, <1>1
  <1> QED
    BY <1>1, <1>2, <1>3, <1>4

\* What an element of cb is.
CallbackType == [pc : CallbackStates, stamp : Nat, item : Item \cup {NoItem}]

\* The places a callback can be at are of the type of cb.
LEMMA CallbackAtType ==
    /\ Idle \in CallbackType
    /\ AfterMove \in CallbackStates
    /\ \A pc \in CallbackStates, s \in Nat, item \in Item \cup {NoItem} :
           CallbackAt(pc, s, item) \in CallbackType
  BY DEF Idle, AfterMove, CallbackAt, CallbackType, CallbackStates

\* What CallBackInferenceResult stores for a frame when output o arrives.
LEMMA CollectedFacts ==
    ASSUME NEW s, NEW o \in Orders, inference[s] \in StreamCache
    PROVE  /\ Collected(s, o) \in StreamCache
           /\ Collected(s, o).raw = inference[s].raw
           /\ Collected(s, o).sum = inference[s].sum + 1
           /\ Collected(s, o).packs = inference[s].packs \cup {o}
  BY DEF Collected, StreamCache

\* Erasing keys of a map leaves the other entries alone.
LEMMA RestrictFacts ==
    ASSUME NEW f, NEW T, T \subseteq DOMAIN f
    PROVE  /\ DOMAIN Restrict(f, T) = T
           /\ \A x \in T : Restrict(f, T)[x] = f[x]
           /\ \A R : f \in [DOMAIN f -> R] => Restrict(f, T) \in [T -> R]
  BY DEF Restrict

\* Every step keeps the types.  FrontExists makes Head an item of the list.
LEMMA TypeStep ==
    ASSUME TypeOK, Phases, Registered, PendingOK, FrontExists, [Next]_vars
    PROVE  TypeOK'
  <1> USE DEF TypeOK
  <1>1. CASE StartRun
    BY <1>1 DEF StartRun, pushVars, readVars, GraphStates, ControlStates
  <1>2. CASE StartFinish
    BY <1>2 DEF StartFinish, graphVars, pushVars, readVars, ControlStates
  <1>3. CASE StopFlag
    BY <1>3 DEF StopFlag, graphVars, pushVars, readVars, ControlStates
  <1>4. CASE StopClose
    BY <1>4 DEF StopClose, pushVars, readVars, GraphStates, ControlStates
  <1>5. CASE StopDone
    BY <1>5 DEF StopDone, pushVars, readVars, GraphStates, ControlStates
  <1>6. ASSUME NEW raw \in Raws, PushBegin(raw) PROVE TypeOK'
    BY <1>6 DEF PushBegin, graphVars, readVars, PushStates
  <1>7. CASE SetInputStreamCache
    <2> DEFINE s == Micro(pushraw)
               f == Register(inference, s, pushraw)
    <2>1. pushraw \in Raws /\ s \in Stamps
      BY <1>7, StampFacts DEF SetInputStreamCache, Phases
    <2>2. DOMAIN f = DOMAIN inference \cup {s} /\ \A t \in DOMAIN f : f[t] \in StreamCache
      BY <2>1 DEF Register, StreamCache
    <2>3. IsFiniteSet(DOMAIN f) /\ DOMAIN f \subseteq Nat
      <3>1. IsFiniteSet(DOMAIN inference \cup {s})
        BY FS_AddElement DEF Registered
      <3> QED
        BY <2>1, <2>2, <3>1, StampFacts
    <2> DEFINE h == CleanGraphNoResultInferenceCache(f)
    <2>4. DOMAIN h \subseteq Stamps /\ h \in [DOMAIN h -> StreamCache]
      <3>1. DOMAIN h \subseteq DOMAIN f /\ \A t \in DOMAIN h : h[t] = f[t]
        BY <2>3, EvictBound
      <3>2. h = [t \in DOMAIN h |-> h[t]]
        BY DEF CleanGraphNoResultInferenceCache, Restrict
      <3> QED
        BY <3>1, <3>2, <2>1, <2>2
    <2> QED
      BY <1>7, <2>4 DEF SetInputStreamCache, graphVars, readVars, PushStates
  <1>8. CASE AddImage
    <2>1. Micro(pushraw) \in Stamps
      BY <1>8, StampFacts DEF AddImage, Phases
    <2> QED
      BY <1>8, <2>1 DEF AddImage, readVars, PushStates
  <1>9. CASE AddHeadPose
    BY <1>9 DEF AddHeadPose, graphVars, readVars, PushStates
  <1>10. CASE ClearInputStreamCache
    <2>1. DOMAIN inference' \subseteq Stamps /\ inference' \in [DOMAIN inference' -> StreamCache]
      <3> DEFINE T == DOMAIN inference \ {Micro(pushraw)}
      <3>1. T \subseteq DOMAIN inference /\ inference' = Restrict(inference, T)
        BY <1>10 DEF ClearInputStreamCache
      <3>2. DOMAIN inference' = T /\ inference' \in [T -> StreamCache]
        BY <3>1, RestrictFacts
      <3> QED
        BY <3>1, <3>2
    <2> QED
      BY <1>10, <2>1 DEF ClearInputStreamCache, graphVars, readVars, PushStates
  <1>11. ASSUME NEW o \in Orders, NEW s \in accepted, CallBackInferenceResult(o, s)
         PROVE  TypeOK'
    <2>1. s \in Nat /\ emitted' \in [Orders -> Nat]
      BY <1>11, StampFacts DEF CallBackInferenceResult, Emit
    <2>2. CASE s \notin DOMAIN inference
      <3>0. CallbackAt(AfterMove, s, NoItem) \in CallbackType
        BY <2>1, CallbackAtType
      <3>1. cb' \in [Orders -> CallbackType]
        BY <1>11, <2>2, <3>0 DEF CallBackInferenceResult, CallbackType
      <3> QED
        BY <1>11, <2>1, <2>2, <3>1 DEF CallBackInferenceResult, Emit, pushVars, readVars, CallbackType
    <2>3. CASE s \in DOMAIN inference
      <3> DEFINE c == Collected(s, o)
      <3>1. c \in StreamCache /\ [raw |-> c.raw, packs |-> c.packs] \in Item
        <4>1. inference[s] \in StreamCache
          BY <2>3
        <4> QED
          BY <4>1, CollectedFacts DEF StreamCache, Item
      <3>2. DOMAIN inference' \subseteq Stamps /\ inference' \in [DOMAIN inference' -> StreamCache]
        <4> HIDE DEF c
        <4>1. CASE c.sum = Cardinality(Orders)
          BY <1>11, <2>3, <3>1, <4>1 DEF CallBackInferenceResult, Restrict, c
        <4>2. CASE c.sum # Cardinality(Orders)
          BY <1>11, <2>3, <3>1, <4>2 DEF CallBackInferenceResult, c
        <4> QED
          BY <4>1, <4>2
      <3>3. cb' \in [Orders -> CallbackType]
        <4>1. \E v \in CallbackType : cb' = [cb EXCEPT ![o] = v]
          <5>1. "move" \in CallbackStates
            BY DEF CallbackStates
          <5> HIDE DEF c
          <5> QED
            BY <1>11, <2>1, <2>3, <3>1, <5>1, CallbackAtType DEF CallBackInferenceResult, c
        <4> QED
          BY <4>1 DEF CallbackType
      <3> QED
        BY <1>11, <2>1, <3>2, <3>3 DEF CallBackInferenceResult, Emit, pushVars, readVars, CallbackType
    <2> QED
      BY <2>2, <2>3
  <1>12. ASSUME NEW o \in Orders, CallbackStep(o) PROVE TypeOK'
    <2> DEFINE g == GroupOf[o]
    <2>1. /\ g \in Groups /\ Depth[g] \in Nat \ {0} /\ outputs[g] \in Seq(Item)
          /\ cb[o].stamp \in Nat
          /\ Pending(o) => cb[o].item \in Item
      BY LayoutAssumption DEF PendingOK, PendingItemOK
    <2>2. CallbackAt(AfterMove, cb[o].stamp, NoItem) \in CallbackType
      BY <2>1, CallbackAtType
    <2>3. CASE MoveCheck(o)
      <3>1. [cb[o] EXCEPT !.pc = "lock"] \in CallbackType
        BY <2>1 DEF CallbackType, CallbackStates
      <3>2. cb' \in [Orders -> CallbackType]
        BY <2>2, <2>3, <3>1 DEF MoveCheck, CallbackType
      <3> QED
        BY <2>3, <3>2 DEF MoveCheck, graphVars, pushVars, readVars, CallbackType
    <2>4. CASE MoveUnderLock(o)
      <3>1. cb' \in [Orders -> CallbackType]
        BY <2>2, <2>4 DEF MoveUnderLock, CallbackType
      <3>2. cb[o].item \in Item
        BY <2>1, <2>4 DEF MoveUnderLock, Pending
      <3>3. /\ LoopCover(outputs[g], cb[o].item, Depth[g]) \in Seq(Item)
            /\ <<cb[o].item>> \o outputs[g] \in Seq(Item)
        BY <2>1, <3>2, LoopCoverFacts, ListFacts
      <3>4. outputs' \in [Groups -> Seq(Item)]
        BY <2>1, <2>4, <3>3 DEF MoveUnderLock
      <3> QED
        BY <2>4, <3>1, <3>4 DEF MoveUnderLock, graphVars, pushVars, readVars, CallbackType
    <2>5. CASE BlockBegin(o)
      BY <2>5 DEF BlockBegin, graphVars, pushVars, readVars, CallbackStates
    <2>6. CASE BlockEnd(o)
      <3>1. cb' \in [Orders -> CallbackType]
        BY <2>2, <2>6 DEF BlockEnd, CallbackType
      <3>2. cb[o].item \in Item
        BY <2>1, <2>6 DEF BlockEnd, Pending
      <3>3. <<cb[o].item>> \o outputs[g] \in Seq(Item)
        BY <2>1, <3>2, ListFacts
      <3>4. outputs' \in [Groups -> Seq(Item)]
        BY <2>1, <2>6, <3>3 DEF BlockEnd
      <3> QED
        BY <2>6, <3>1, <3>4 DEF BlockEnd, graphVars, pushVars, readVars, CallbackType
    <2>7. CASE SizeCheck(o)
      <3>1. [cb[o] EXCEPT !.pc = "clean"] \in CallbackType /\ Idle \in CallbackType
        BY <2>1, CallbackAtType DEF CallbackType, CallbackStates
      <3>2. cb' \in [Orders -> CallbackType]
        BY <2>7, <3>1 DEF SizeCheck, CallbackType
      <3> QED
        BY <2>7, <3>2 DEF SizeCheck, graphVars, pushVars, readVars, CallbackType
    <2>8. CASE CleanMediapipeDropedInferenceCache(o)
      <3>1. cb' \in [Orders -> CallbackType]
        BY <2>8, CallbackAtType DEF CleanMediapipeDropedInferenceCache, CallbackType
      <3> QED
        BY <2>8, <3>1 DEF CleanMediapipeDropedInferenceCache, graphVars, pushVars, readVars,
           CallbackType, Restrict
    <2> QED
      BY <1>12, <2>3, <2>4, <2>5, <2>6, <2>7, <2>8 DEF CallbackStep
  <1>13. ASSUME NEW r \in Readers, GetCheck(r) PROVE TypeOK'
    BY <1>13 DEF GetCheck, graphVars, pushVars
  <1>14. ASSUME NEW r \in Readers, GetFront(r) PROVE TypeOK'
    <2>1. /\ ReaderGroup[r] \in Groups
          /\ outputs[ReaderGroup[r]] \in Seq(Item)
          /\ outputs[ReaderGroup[r]] # <<>>
      BY <1>14, ReaderAssumption DEF GetFront, FrontExists
    <2>2. /\ Head(outputs[ReaderGroup[r]]) \in Item
          /\ Tail(outputs[ReaderGroup[r]]) \in Seq(Item)
      BY <2>1, HeadFacts
    <2>3. Head(outputs[ReaderGroup[r]]).raw \in Raws
      BY <2>2 DEF Item
    <2> QED
      BY <1>14, <2>1, <2>3 DEF GetFront, graphVars, pushVars
  <1>15. ASSUME NEW r \in Readers, GetFrontAndPop(r) PROVE TypeOK'
    <2>1. /\ ReaderGroup[r] \in Groups
          /\ outputs[ReaderGroup[r]] \in Seq(Item)
          /\ outputs[ReaderGroup[r]] # <<>>
      BY <1>15, ReaderAssumption DEF GetFrontAndPop, FrontExists
    <2>2. /\ Head(outputs[ReaderGroup[r]]) \in Item
          /\ Tail(outputs[ReaderGroup[r]]) \in Seq(Item)
      BY <2>1, HeadFacts
    <2>3. Head(outputs[ReaderGroup[r]]).raw \in Raws
      BY <2>2 DEF Item
    <2> QED
      BY <1>15, <2>1, <2>2, <2>3 DEF GetFrontAndPop, graphVars, pushVars
  <1>16. CASE UNCHANGED vars
    BY <1>16 DEF vars
  <1> QED
    BY <1>1, <1>2, <1>3, <1>4, <1>5, <1>6, <1>7, <1>8, <1>9, <1>10, <1>11,
       <1>12, <1>13, <1>14, <1>15, <1>16 DEF Next

-----------------------------------------------------------------------------
(* The conjuncts of the invariant, one lemma each: a step preserves them.  *)

\* What every step of the executor thread o leaves alone, and how it may
\* continue.
LEMMA CallbackStepFrame ==
    ASSUME TypeOK, NEW o \in Orders, CallbackStep(o)
    PROVE  /\ UNCHANGED <<started, graphVars, control, pushVars, readVars>>
           /\ cb' = [cb EXCEPT ![o] = cb'[o]]
           /\ cb[o].pc # "idle"
           /\ Pending(o)' => Pending(o) /\ cb'[o].item = cb[o].item /\ cb'[o].stamp = cb[o].stamp
           /\ cb'[o].pc = "block" <=> BlockBegin(o)
  <1> USE DEF TypeOK, Pending
  <1>0. CallbackAt(AfterMove, cb[o].stamp, NoItem).pc \in {"idle", "size"}
    BY DEF CallbackAt, AfterMove, Idle
  <1>1. CASE MoveCheck(o)
    BY <1>0, <1>1 DEF MoveCheck, BlockBegin
  <1>2. CASE MoveUnderLock(o)
    BY <1>0, <1>2 DEF MoveUnderLock, BlockBegin
  <1>3. CASE BlockBegin(o)
    BY <1>3 DEF BlockBegin
  <1>4. CASE BlockEnd(o)
    BY <1>0, <1>4 DEF BlockEnd, BlockBegin
  <1>5. CASE SizeCheck(o)
    BY <1>5 DEF SizeCheck, BlockBegin, Idle
  <1>6. CASE CleanMediapipeDropedInferenceCache(o)
    BY <1>6 DEF CleanMediapipeDropedInferenceCache, BlockBegin, Idle
  <1> QED
    BY <1>1, <1>2, <1>3, <1>4, <1>5, <1>6 DEF CallbackStep

\* The first critical section of a callback: a frame becomes pending exactly
\* when the packet o completes its group.
LEMMA CallbackFrame ==
    ASSUME TypeOK, NEW o \in Orders, NEW s \in accepted, CallBackInferenceResult(o, s)
    PROVE  /\ UNCHANGED <<started, graph, accepted, control, outputs, outlock, pushVars, readVars>>
           /\ graph # "idle" /\ cb[o].pc = "idle" /\ s > emitted[o]
           /\ emitted' = [emitted EXCEPT ![o] = s]
           /\ cb' = [cb EXCEPT ![o] = cb'[o]]
           /\ cb'[o].pc \in {"idle", "size", "move"}
           /\ DOMAIN inference' \subseteq DOMAIN inference
           /\ \A t \in DOMAIN inference' :
                 inference'[t] = IF t = s THEN Collected(s, o) ELSE inference[t]
           /\ Pending(o)' =>
                 /\ s \in DOMAIN inference
                 /\ cb'[o].stamp = s
                 /\ cb'[o].item = [raw |-> inference[s].raw,
                                   packs |-> inference[s].packs \cup {o}]
  <1> USE DEF TypeOK, Pending
  <1>0. /\ CallbackAt(AfterMove, s, NoItem).pc \in {"idle", "size"}
        /\ \A item : CallbackAt("move", s, item) = [pc |-> "move", stamp |-> s, item |-> item]
    BY DEF CallbackAt, AfterMove, Idle
  <1>1. CASE s \notin DOMAIN inference
    BY <1>0, <1>1 DEF CallBackInferenceResult, Emit
  <1>2. CASE s \in DOMAIN inference
    <2> DEFINE c == Collected(s, o)
    <2>0. inference[s] \in StreamCache
      BY <1>2
    <2>1. c.raw = inference[s].raw /\ c.packs = inference[s].packs \cup {o}
      BY <2>0, CollectedFacts
    <2> HIDE DEF c
    <2>2. /\ DOMAIN inference' \subseteq DOMAIN inference
          /\ \A t \in DOMAIN inference' : inference'[t] = IF t = s THEN c ELSE inference[t]
      <3>1. CASE c.sum = Cardinality(Orders)
        <4> DEFINE T == DOMAIN inference \ {s}
        <4>1. T \subseteq DOMAIN inference /\ inference' = Restrict(inference, T)
          BY <1>2, <3>1 DEF CallBackInferenceResult, c
        <4> HIDE DEF T
        <4>2. DOMAIN inference' = T /\ \A t \in T : inference'[t] = inference[t]
          BY <4>1, RestrictFacts
        <4> QED
          BY <4>2 DEF T
      <3>2. CASE c.sum # Cardinality(Orders)
        BY <1>2, <3>2 DEF CallBackInferenceResult, c
      <3> QED
        BY <3>1, <3>2
    <2>3. \/ cb' = [cb EXCEPT ![o] = CallbackAt("move", s, [raw |-> c.raw, packs |-> c.packs])]
          \/ cb' = [cb EXCEPT ![o] = CallbackAt(AfterMove, s, NoItem)]
      BY <1>2 DEF CallBackInferenceResult, c
    <2> QED
      BY <1>0, <1>2, <2>1, <2>2, <2>3 DEF CallBackInferenceResult, Emit, c
  <1> QED
    BY <1>1, <1>2

\* What a step of the executor thread does to the two caches: it may erase
\* registrations, and it may put its pending frame in front of its group.
LEMMA CallbackStepCaches ==
    ASSUME TypeOK, PendingOK, DepthBounded, NEW o \in Orders, CallbackStep(o)
    PROVE  /\ DOMAIN inference' \subseteq DOMAIN inference
           /\ \A t \in DOMAIN inference' : inference'[t] = inference[t]
           /\ \/ outputs' = outputs
              \/ LET g == GroupOf[o] IN
                 /\ Pending(o) /\ ~Pending(o)'
                 /\ outputs' = [outputs EXCEPT ![g] = outputs'[g]]
                 /\ Len(outputs'[g]) \in 1..Depth[g]
                 /\ Len(outputs'[g]) <= Len(outputs[g]) + 1
                 /\ outputs'[g][1] = cb[o].item
                 /\ \A i \in 2..Len(outputs'[g]) : outputs'[g][i] = outputs[g][i - 1]
  <1> DEFINE g == GroupOf[o]
  <1>0. /\ g \in Groups /\ Depth[g] \in Nat \ {0} /\ outputs[g] \in Seq(Item)
        /\ Len(outputs[g]) \in Nat /\ Len(outputs[g]) <= Depth[g]
        /\ Pending(o) => cb[o].item \in Item
    BY LayoutAssumption DEF PendingOK, PendingItemOK, TypeOK, DepthBounded
  <1>00. CallbackAt(AfterMove, cb[o].stamp, NoItem).pc \in {"idle", "size"}
    BY DEF CallbackAt, AfterMove, Idle
  <1>1. CASE MoveCheck(o)
    BY <1>1 DEF MoveCheck
  <1>2. CASE MoveUnderLock(o)
    <2>1. Pending(o) /\ ~Pending(o)' /\ inference' = inference
      BY <1>00, <1>2 DEF MoveUnderLock, Pending, TypeOK
    <2> DEFINE p == LoopCover(outputs[g], cb[o].item, Depth[g])
               d == <<cb[o].item>> \o outputs[g]
    <2>2. /\ p \in Seq(Item) /\ Len(p) \in 1..Depth[g] /\ Len(p) <= Len(outputs[g]) + 1
          /\ p[1] = cb[o].item
          /\ \A i \in 2..Len(p) : p[i] = outputs[g][i - 1]
      <3>1. cb[o].item \in Item
        BY <1>0, <2>1
      <3>2. /\ p \in Seq(Item) /\ Len(p) >= 1 /\ Len(p) <= Len(outputs[g]) + 1
            /\ Len(p) <= Depth[g]
            /\ p[1] = cb[o].item
            /\ \A i \in 2..Len(p) : p[i] = outputs[g][i - 1]
        <4> HIDE DEF g
        <4>1. ASSUME NEW q \in Seq(Item), NEW x \in Item, NEW k \in Nat \ {0}, Len(q) <= k
              PROVE  /\ LoopCover(q, x, k) \in Seq(Item)
                     /\ Len(LoopCover(q, x, k)) >= 1
                     /\ Len(LoopCover(q, x, k)) <= Len(q) + 1
                     /\ Len(LoopCover(q, x, k)) <= k
                     /\ LoopCover(q, x, k)[1] = x
                     /\ \A i \in 2..Len(LoopCover(q, x, k)) : LoopCover(q, x, k)[i] = q[i - 1]
          BY <4>1, LoopCoverFacts
        <4> QED
          BY <1>0, <3>1, <4>1
      <3>3. Len(p) \in Nat
        BY <3>2
      <3> HIDE DEF p
      <3> QED
        BY <1>0, <3>2, <3>3
    <2>3. /\ d \in Seq(Item) /\ Len(d) = Len(outputs[g]) + 1
          /\ d[1] = cb[o].item
          /\ \A i \in 2..Len(d) : d[i] = outputs[g][i - 1]
      BY <1>0, <2>1, ListFacts, PushFrontTail
    <2>4. CASE Policy[g] = "LOOP_COVER"
      <3>1. outputs' = [outputs EXCEPT ![g] = p] /\ outputs'[g] = p
        BY <1>0, <1>2, <2>4 DEF MoveUnderLock, TypeOK
      <3> HIDE DEF p
      <3> QED
        BY <2>1, <2>2, <3>1
    <2>5. CASE Policy[g] = "DROP"
      <3>1. CASE Len(outputs[g]) < Depth[g]
        <4>1. outputs' = [outputs EXCEPT ![g] = d] /\ outputs'[g] = d
          BY <1>0, <1>2, <2>5, <3>1 DEF MoveUnderLock, TypeOK
        <4> HIDE DEF d
        <4>2. Len(d) \in 1..Depth[g] /\ Len(d) <= Len(outputs[g]) + 1
          BY <1>0, <2>3, <3>1
        <4> QED
          BY <2>1, <2>3, <4>1, <4>2
      <3>2. CASE ~(Len(outputs[g]) < Depth[g])
        <4>1. outputs' = outputs
          BY <1>0, <1>2, <2>5, <3>2 DEF MoveUnderLock, TypeOK
        <4> QED
          BY <2>1, <4>1
      <3> QED
        BY <3>1, <3>2
    <2> QED
      BY <1>2, <2>4, <2>5 DEF MoveUnderLock
  <1>3. CASE BlockBegin(o)
    BY <1>3 DEF BlockBegin
  <1>4. CASE BlockEnd(o)
    <2>1. Pending(o) /\ ~Pending(o)' /\ inference' = inference
      BY <1>00, <1>4 DEF BlockEnd, Pending, TypeOK
    <2> DEFINE d == <<cb[o].item>> \o outputs[g]
    <2>2. /\ d \in Seq(Item) /\ Len(d) = Len(outputs[g]) + 1
          /\ d[1] = cb[o].item
          /\ \A i \in 2..Len(d) : d[i] = outputs[g][i - 1]
      BY <1>0, <2>1, ListFacts, PushFrontTail
    <2>3. CASE started
      <3>1. /\ outputs' = [outputs EXCEPT ![g] = d] /\ outputs'[g] = d
            /\ Len(outputs[g]) < Depth[g]
        BY <1>0, <1>4, <2>3 DEF BlockEnd, TypeOK
      <3> HIDE DEF d
      <3>2. Len(d) \in 1..Depth[g] /\ Len(d) <= Len(outputs[g]) + 1
        BY <1>0, <2>2, <3>1
      <3> QED
        BY <2>1, <2>2, <3>1, <3>2
    <2>4. CASE ~started
      <3>1. outputs' = outputs
        BY <1>0, <1>4, <2>4 DEF BlockEnd, TypeOK
      <3> QED
        BY <2>1, <3>1
    <2> QED
      BY <2>3, <2>4
  <1>5. CASE SizeCheck(o)
    BY <1>5 DEF SizeCheck
  <1>6. CASE CleanMediapipeDropedInferenceCache(o)
    <2> DEFINE T == {s \in DOMAIN inference : s >= cb[o].stamp}
    <2>1. T \subseteq DOMAIN inference /\ inference' = Restrict(inference, T) /\ outputs' = outputs
      BY <1>6 DEF CleanMediapipeDropedInferenceCache
    <2>2. DOMAIN inference' = T /\ \A t \in T : inference'[t] = inference[t]
      BY <2>1, RestrictFacts
    <2> QED
      BY <2>1, <2>2
  <1> QED
    BY <1>1, <1>2, <1>3, <1>4, <1>5, <1>6 DEF CallbackStep

\* The steps of Start and Stop that only move the flag and the phase.
PhaseStep == StartRun \/ StartFinish \/ StopFlag \/ StopClose

\* Start and Stop leave the caches and the other threads alone.
LEMMA PhaseFrame ==
    ASSUME PhaseStep
    PROVE  UNCHANGED <<accepted, emitted, inference, outputs, outlock, pushpc, pushraw,
                       cb, readpc, got>>
  BY DEF PhaseStep, StartRun, StartFinish, StopFlag, StopClose, graphVars, pushVars, readVars

\* SetInputStreamCache adds at most the frame being pushed.
LEMMA RegisterFrame ==
    ASSUME TypeOK, Phases, Registered, SetInputStreamCache
    PROVE  LET s == Micro(pushraw) IN
           /\ pushraw \in Raws /\ s \in Stamps /\ pushpc = "register"
           /\ IsFiniteSet(DOMAIN inference')
           /\ inference' = inference \/ Cardinality(DOMAIN inference') < MaxCache
           /\ UNCHANGED <<started, graph, accepted, emitted, control, outputs, outlock, pushraw, cb,
                          readpc, got>>
           /\ \/ pushpc' = "idle" /\ UNCHANGED inference
              \/ /\ pushpc' = "image" /\ s \notin DOMAIN inference
                 /\ DOMAIN inference' \subseteq DOMAIN inference \cup {s}
                 /\ \A t \in DOMAIN inference' :
                       inference'[t] = IF t = s
                                       THEN [raw |-> pushraw, sum |-> 0, packs |-> {}]
                                       ELSE inference[t]
  <1> DEFINE s == Micro(pushraw)
             f == Register(inference, s, pushraw)
             h == CleanGraphNoResultInferenceCache(f)
  <1>1. pushraw \in Raws /\ s \in Stamps /\ pushpc = "register"
    BY StampFacts DEF SetInputStreamCache, Phases
  <1>2. /\ DOMAIN f = DOMAIN inference \cup {s}
        /\ \A t \in DOMAIN f : f[t] = IF t = s
                                      THEN [raw |-> pushraw, sum |-> 0, packs |-> {}]
                                      ELSE inference[t]
    BY DEF Register
  <1>3. IsFiniteSet(DOMAIN f) /\ DOMAIN f \subseteq Nat
    <2>1. IsFiniteSet(DOMAIN inference \cup {s})
      BY FS_AddElement DEF Registered
    <2> QED
      BY <1>1, <1>2, <2>1, StampFacts DEF TypeOK
  <1>4. /\ DOMAIN h \subseteq DOMAIN f
        /\ \A t \in DOMAIN h : h[t] = f[t]
        /\ IsFiniteSet(DOMAIN h)
        /\ Cardinality(DOMAIN h) < MaxCache
    BY <1>3, EvictBound
  <1>5. CASE s \in DOMAIN inference
    BY <1>1, <1>5 DEF SetInputStreamCache, graphVars, readVars, Registered
  <1>6. CASE s \notin DOMAIN inference
    <2>1. inference' = h /\ pushpc' = "image"
      BY <1>6 DEF SetInputStreamCache
    <2> HIDE DEF f, h
    <2> QED
      BY <1>1, <1>2, <1>4, <1>6, <2>1 DEF SetInputStreamCache, graphVars, readVars
  <1> QED
    BY <1>5, <1>6

\* ClearInputStreamCache erases the frame that was being pushed, if it is
\* still there.
LEMMA ClearFrame ==
    ASSUME ClearInputStreamCache
    PROVE  /\ UNCHANGED <<started, graph, accepted, emitted, control, outputs, outlock, pushraw, cb,
                          readpc, got>>
           /\ pushpc = "clear" /\ pushpc' = "idle"
           /\ DOMAIN inference' \subseteq DOMAIN inference
           /\ \A t \in DOMAIN inference' : inference'[t] = inference[t]
  <1> DEFINE T == DOMAIN inference \ {Micro(pushraw)}
  <1>1. T \subseteq DOMAIN inference /\ inference' = Restrict(inference, T)
    BY DEF ClearInputStreamCache
  <1>2. DOMAIN inference' = T /\ \A t \in T : inference'[t] = inference[t]
    BY <1>1, RestrictFacts
  <1> QED
    BY <1>2 DEF ClearInputStreamCache, graphVars, readVars

\* Every step keeps the order of Start, Stop and PushData.
LEMMA PhasesStep ==
    ASSUME TypeOK, Phases, [Next]_vars
    PROVE  Phases'
  <1> USE DEF Phases, TypeOK
  <1>1. CASE StartRun
    BY <1>1 DEF StartRun, pushVars, readVars
  <1>2. CASE StartFinish
    BY <1>2 DEF StartFinish, graphVars, pushVars, readVars
  <1>3. CASE StopFlag
    BY <1>3 DEF StopFlag, graphVars, pushVars, readVars
  <1>4. CASE StopClose
    BY <1>4 DEF StopClose, pushVars, readVars
  <1>5. CASE StopDone
    BY <1>5 DEF StopDone, pushVars, readVars
  <1>6. ASSUME NEW raw \in Raws, PushBegin(raw) PROVE Phases'
    BY <1>6 DEF PushBegin, graphVars, readVars
  <1>7. CASE SetInputStreamCache
    BY <1>7 DEF SetInputStreamCache, graphVars, readVars
  <1>8. CASE AddImage
    BY <1>8 DEF AddImage, readVars
  <1>9. CASE AddHeadPose
    BY <1>9 DEF AddHeadPose, graphVars, readVars
  <1>10. CASE ClearInputStreamCache
    BY <1>10 DEF ClearInputStreamCache, graphVars, readVars
  <1>11. ASSUME NEW o \in Orders, NEW s \in accepted, CallBackInferenceResult(o, s)
         PROVE  Phases'
    BY <1>11, CallbackFrame DEF pushVars
  <1>12. ASSUME NEW o \in Orders, CallbackStep(o) PROVE Phases'
    BY <1>12, CallbackStepFrame DEF graphVars, pushVars
  <1>13. ASSUME NEW r \in Readers, GetCheck(r) PROVE Phases'
    BY <1>13 DEF GetCheck, graphVars, pushVars
  <1>14. ASSUME NEW r \in Readers, GetFront(r) PROVE Phases'
    BY <1>14 DEF GetFront, graphVars, pushVars
  <1>15. ASSUME NEW r \in Readers, GetFrontAndPop(r) PROVE Phases'
    BY <1>15 DEF GetFrontAndPop, graphVars, pushVars
  <1>16. CASE UNCHANGED vars
    BY <1>16 DEF vars
  <1> QED
    BY <1>1, <1>2, <1>3, <1>4, <1>5, <1>6, <1>7, <1>8, <1>9, <1>10, <1>11,
       <1>12, <1>13, <1>14, <1>15, <1>16 DEF Next

\* A step that leaves the caches, the callbacks and the graph's history alone.
Quiet ==
    /\ UNCHANGED <<accepted, emitted, inference, outputs, outlock, pushraw, cb>>
    /\ pushpc' = pushpc \/ pushpc' \in {"idle", "pose", "clear"}

\* AddImage when the graph takes the packet.
Accept ==
    LET s == Micro(pushraw) IN
    /\ pushpc = "image" /\ pushpc' = "pose"
    /\ \A t \in accepted : s > t
    /\ accepted' = accepted \cup {s}
    /\ UNCHANGED <<emitted, inference, outputs, outlock, pushraw, cb, readpc>>

\* The shapes of a step, as far as the caches are concerned.
Shape ==
    \/ Quiet
    \/ StopDone
    \/ \E raw \in Raws : PushBegin(raw)
    \/ SetInputStreamCache
    \/ Accept
    \/ ClearInputStreamCache
    \/ \E o \in Orders, s \in accepted : CallBackInferenceResult(o, s)
    \/ \E o \in Orders : CallbackStep(o)
    \/ \E r \in Readers : GetFrontAndPop(r)

\* Every step has one of the shapes.
LEMMA StepShape ==
    ASSUME [Next]_vars
    PROVE  Shape
  <1>1. CASE PhaseStep
    BY <1>1, PhaseFrame DEF Quiet, Shape
  <1>2. CASE AddImage
    BY <1>2 DEF AddImage, Accept, Quiet, Shape, readVars
  <1>3. CASE AddHeadPose
    BY <1>3 DEF AddHeadPose, Quiet, Shape, graphVars, readVars
  <1>4. ASSUME NEW r \in Readers, GetCheck(r) \/ GetFront(r) PROVE Shape
    BY <1>4 DEF GetCheck, GetFront, Quiet, Shape, graphVars, pushVars
  <1>5. CASE UNCHANGED vars
    BY <1>5 DEF vars, Quiet, Shape
  <1> QED
    BY <1>1, <1>2, <1>3, <1>4, <1>5 DEF Next, PhaseStep, Shape

\* When WaitUntilDone returns no callback runs and nothing is being pushed.
LEMMA StopDoneFrame ==
    ASSUME Phases, StopDone
    PROVE  /\ pushpc = "idle"
           /\ accepted' = {} /\ emitted' = [o \in Orders |-> 0]
           /\ \A o \in Orders : cb[o].pc = "idle" /\ cb'[o].pc = "idle"
           /\ UNCHANGED <<inference, outputs, outlock, pushpc, pushraw, cb, readpc>>
  BY DEF Phases, StopDone, pushVars, readVars

\* The start of PushData: only the camera thread moves.
LEMMA PushFrame ==
    ASSUME NEW raw \in Raws, PushBegin(raw)
    PROVE  /\ pushpc = "idle" /\ pushpc' \in {"idle", "register"}
           /\ raw > pushraw /\ pushraw' = raw
           /\ UNCHANGED <<accepted, emitted, inference, outputs, outlock, cb, readpc>>
  BY DEF PushBegin, graphVars, readVars

\* pop_front by a drainer: its group loses its first frame, others nothing.
LEMMA PopFrame ==
    ASSUME TypeOK, FrontExists, NEW r \in Readers, GetFrontAndPop(r)
    PROVE  LET g == ReaderGroup[r] IN
           /\ UNCHANGED <<accepted, emitted, inference, outlock, pushpc, pushraw, cb>>
           /\ r \in Drainers /\ readpc' = [readpc EXCEPT ![r] = "idle"]
           /\ g \in Groups
           /\ outputs' = [outputs EXCEPT ![g] = outputs'[g]]
           /\ Len(outputs'[g]) \in Nat /\ Len(outputs'[g]) = Len(outputs[g]) - 1
           /\ \A i \in 1..Len(outputs'[g]) : outputs'[g][i] = outputs[g][i + 1]
  <1> DEFINE g == ReaderGroup[r]
             rest == Tail(outputs[g])
  <1>1. g \in Groups /\ outputs[g] \in Seq(Item) /\ outputs[g] # <<>>
    BY ReaderAssumption DEF GetFrontAndPop, FrontExists, TypeOK
  <1>2. outputs' = [outputs EXCEPT ![g] = rest] /\ outputs'[g] = rest
    BY <1>1 DEF GetFrontAndPop, TypeOK
  <1>3. /\ Len(outputs[g]) \in Nat /\ Len(outputs[g]) >= 1
        /\ Len(rest) = Len(outputs[g]) - 1
        /\ \A i \in 1..(Len(outputs[g]) - 1) : rest[i] = outputs[g][i + 1]
    BY <1>1, HeadFacts
  <1> HIDE DEF g, rest
  <1>4. outputs' = [outputs EXCEPT ![g] = outputs'[g]]
    BY <1>2
  <1>5. /\ Len(outputs'[g]) \in Nat /\ Len(outputs'[g]) = Len(outputs[g]) - 1
        /\ \A i \in 1..Len(outputs'[g]) : outputs'[g][i] = outputs[g][i + 1]
    BY <1>2, <1>3
  <1> QED
    BY <1>1, <1>4, <1>5 DEF GetFrontAndPop, graphVars, pushVars, g

\* The camera's clock runs forward: what is not newer than the frame being
\* pushed stays so.
LEMMA NotNewerStep ==
    ASSUME TypeOK, Phases, [Next]_vars
    PROVE  \A raw \in Nat : NotNewer(raw) => NotNewer(raw)'
  <1> USE DEF NotNewer
  <1>0. pushraw \in Nat /\ \A raw \in Raws : raw \in Nat
    <2>1. pushraw \in Raws \cup {0}
      BY DEF TypeOK
    <2> QED
      BY <2>1, StampFacts
  <1>1. CASE Quiet
    BY <1>1 DEF Quiet
  <1>2. CASE StopDone
    BY <1>2, StopDoneFrame
  <1>3. ASSUME NEW raw \in Raws, PushBegin(raw)
        PROVE  \A x \in Nat : NotNewer(x) => NotNewer(x)'
    BY <1>0, <1>3, PushFrame
  <1>4. CASE SetInputStreamCache
    BY <1>4 DEF SetInputStreamCache
  <1>5. CASE Accept
    BY <1>5 DEF Accept
  <1>6. CASE ClearInputStreamCache
    BY <1>6, ClearFrame
  <1>7. ASSUME NEW o \in Orders, NEW s \in accepted, CallBackInferenceResult(o, s)
        PROVE  UNCHANGED <<pushpc, pushraw>>
    BY <1>7 DEF CallBackInferenceResult, pushVars
  <1>8. ASSUME NEW o \in Orders, CallbackStep(o) PROVE UNCHANGED <<pushpc, pushraw>>
    BY <1>8, CallbackStepFrame DEF pushVars
  <1>9. ASSUME NEW r \in Readers, GetFrontAndPop(r) PROVE UNCHANGED <<pushpc, pushraw>>
    BY <1>9 DEF GetFrontAndPop, pushVars
  <1> QED
    BY <1>1, <1>2, <1>3, <1>4, <1>5, <1>6, <1>7, <1>8, <1>9, StepShape DEF Shape

\* The packet o is the one its group was waiting for: SyncOrderBitmap, and
\* the count of packets when there is a single group.
LEMMA Completes ==
    ASSUME TypeOK, Registered, NoRepeat,
           NEW o \in Orders, NEW s \in accepted, CallBackInferenceResult(o, s),
           s \in DOMAIN inference
    PROVE  /\ o \notin inference[s].packs
           /\ Pending(o)' => GroupOrders(GroupOf[o]) \subseteq inference[s].packs \cup {o}
  <1> DEFINE P == inference[s].packs
             c == Collected(s, o)
  <1>1. inference[s] \in StreamCache /\ P \subseteq Orders
    BY DEF TypeOK, StreamCache
  <1>2. o \notin P
    <2>1. s > emitted[o] /\ s \in Nat /\ emitted[o] \in Nat
      BY CallbackFrame, StampFacts DEF TypeOK
    <2> QED
      BY <2>1 DEF NoRepeat
  <1>3. c.sum = Cardinality(P) + 1 /\ c.packs = P \cup {o}
    BY <1>1, CollectedFacts DEF Registered
  <1>4. ASSUME Pending(o)' PROVE GroupOrders(GroupOf[o]) \subseteq P \cup {o}
    <2>1. IF SingleGroup THEN c.sum = Cardinality(Orders) ELSE SyncOrderBitmap(o, c.packs)
      <3>0. CallbackAt(AfterMove, s, NoItem).pc \in {"idle", "size"}
        BY DEF CallbackAt, AfterMove, Idle
      <3> HIDE DEF c
      <3>1. SUFFICES ASSUME ~(IF SingleGroup THEN c.sum = Cardinality(Orders)
                                              ELSE SyncOrderBitmap(o, c.packs))
                     PROVE  FALSE
        OBVIOUS
      <3>2. cb' = [cb EXCEPT ![o] = CallbackAt(AfterMove, s, NoItem)]
        BY <3>1 DEF CallBackInferenceResult, c
      <3> QED
        BY <1>4, <3>0, <3>2 DEF TypeOK, Pending
    <2>2. CASE SingleGroup
      <3>1. IsFiniteSet(Orders)
        BY LayoutAssumption
      <3>2. IsFiniteSet(P) /\ Cardinality(P \cup {o}) = Cardinality(P) + 1
        BY <1>1, <1>2, <3>1, FS_Subset, FS_AddElement
      <3>3. P \cup {o} = Orders
        BY <1>1, <1>3, <2>1, <2>2, <3>1, <3>2, FS_Subset
      <3> QED
        BY <3>3 DEF GroupOrders
    <2>3. CASE ~SingleGroup
      BY <1>3, <2>1, <2>3 DEF SyncOrderBitmap
    <2> QED
      BY <2>2, <2>3
  <1> QED
    BY <1>2, <1>4

\* Every step keeps what is registered in step with the camera's clock and
\* the packets counted.
LEMMA RegisteredStep ==
    ASSUME TypeOK, Phases, Registered, NoRepeat, PendingOK, DepthBounded, FrontExists, [Next]_vars
    PROVE  Registered'
  <1>0. /\ \A s \in DOMAIN inference : inference[s] \in StreamCache /\ inference[s].raw \in Nat
        /\ \A raw \in Nat : NotNewer(raw) => NotNewer(raw)'
    BY StampFacts, NotNewerStep DEF TypeOK, StreamCache
  <1>1. ASSUME DOMAIN inference' \subseteq DOMAIN inference,
               \A t \in DOMAIN inference' : inference'[t] = inference[t]
        PROVE  Registered'
    <2>1. IsFiniteSet(DOMAIN inference')
      BY <1>1, FS_Subset DEF Registered
    <2> QED
      BY <1>0, <1>1, <2>1 DEF Registered, Micro
  <1>2. CASE SetInputStreamCache
    <2>1. /\ pushraw \in Raws /\ pushraw \in Nat /\ IsFiniteSet(DOMAIN inference')
          /\ pushraw' = pushraw
      BY <1>2, RegisterFrame, StampFacts
    <2>2. CASE inference' = inference
      BY <1>1, <2>2
    <2>3. CASE inference' # inference
      <3>1. /\ pushpc' = "image"
            /\ DOMAIN inference' \subseteq DOMAIN inference \cup {Micro(pushraw)}
            /\ \A t \in DOMAIN inference' :
                  inference'[t] = IF t = Micro(pushraw)
                                  THEN [raw |-> pushraw, sum |-> 0, packs |-> {}]
                                  ELSE inference[t]
        BY <1>2, <2>3, RegisterFrame
      <3>2. Cardinality({}) = 0
        BY FS_EmptySet
      <3>3. ASSUME NEW t \in DOMAIN inference'
            PROVE  /\ Micro(inference'[t].raw) = t
                   /\ inference'[t].raw <= pushraw'
                   /\ inference'[t].sum = Cardinality(inference'[t].packs)
        <4>1. CASE t = Micro(pushraw)
          BY <2>1, <3>1, <3>2, <4>1
        <4>2. CASE t # Micro(pushraw)
          <5>1. t \in DOMAIN inference /\ inference'[t] = inference[t]
            BY <3>1, <4>2
          <5> QED
            BY <2>1, <5>1 DEF Registered, NotNewer
        <4> QED
          BY <4>1, <4>2
      <3> QED
        BY <2>1, <3>1, <3>3 DEF Registered, Micro, NotNewer
    <2> QED
      BY <2>2, <2>3
  <1>3. ASSUME NEW o \in Orders, NEW s \in accepted, CallBackInferenceResult(o, s)
        PROVE  Registered'
    <2>1. /\ DOMAIN inference' \subseteq DOMAIN inference
          /\ \A t \in DOMAIN inference' :
                inference'[t] = IF t = s THEN Collected(s, o) ELSE inference[t]
      BY <1>3, CallbackFrame, ZenonT(60)
    <2>2. ASSUME s \in DOMAIN inference
          PROVE  /\ Collected(s, o).raw = inference[s].raw
                 /\ Collected(s, o).sum = Cardinality(Collected(s, o).packs)
      <3>1. inference[s] \in StreamCache /\ inference[s].packs \subseteq Orders
        BY <1>0, <2>2 DEF StreamCache
      <3>2. o \notin inference[s].packs
        BY <1>3, <2>2, Completes
      <3>3. Cardinality(inference[s].packs \cup {o}) = Cardinality(inference[s].packs) + 1
        BY <3>1, <3>2, FS_Subset, FS_AddElement, LayoutAssumption
      <3>4. /\ Collected(s, o).raw = inference[s].raw
            /\ Collected(s, o).sum = inference[s].sum + 1
            /\ Collected(s, o).packs = inference[s].packs \cup {o}
        BY <3>1, CollectedFacts
      <3>5. inference[s].sum = Cardinality(inference[s].packs)
        BY <2>2 DEF Registered
      <3> QED
        BY <3>3, <3>4, <3>5
    <2>3. IsFiniteSet(DOMAIN inference')
      BY <2>1, FS_Subset DEF Registered
    <2> QED
      BY <1>0, <2>1, <2>2, <2>3 DEF Registered, Micro
  <1>4. ASSUME NEW o \in Orders, CallbackStep(o) PROVE Registered'
    BY <1>1, <1>4, CallbackStepCaches
  <1>5. CASE ClearInputStreamCache
    BY <1>1, <1>5, ClearFrame
  <1>6. CASE inference' = inference
    BY <1>1, <1>6
  <1>7. ASSUME NEW raw \in Raws, PushBegin(raw) PROVE inference' = inference
    BY <1>7, PushFrame
  <1>8. ASSUME NEW r \in Readers, GetFrontAndPop(r) PROVE inference' = inference
    BY <1>8, PopFrame
  <1> QED
    BY <1>2, <1>3, <1>4, <1>5, <1>6, <1>7, <1>8, StepShape, StopDoneFrame
    DEF Shape, Quiet, Accept

\* Every step keeps the history of the output streams: what has arrived for
\* a registered frame cannot arrive again.
LEMMA NoRepeatStep ==
    ASSUME TypeOK, Phases, Registered, NoRepeat, PendingOK, DepthBounded, FrontExists, [Next]_vars
    PROVE  NoRepeat'
  <1>0. /\ \A s \in DOMAIN inference : inference[s].packs \subseteq Orders /\ s \in Nat
        /\ accepted \subseteq Nat
        /\ emitted \in [Orders -> Nat]
    BY StampFacts DEF TypeOK, StreamCache
  <1>1. ASSUME DOMAIN inference' \subseteq DOMAIN inference,
               \A t \in DOMAIN inference' : inference'[t] = inference[t],
               UNCHANGED <<accepted, emitted>>,
               pushpc' = "image" => pushpc = "image" /\ pushraw' = pushraw
        PROVE  NoRepeat'
    BY <1>1 DEF NoRepeat, Micro
  <1>2. CASE StopDone
    BY <1>2, StopDoneFrame DEF NoRepeat
  <1>3. ASSUME NEW raw \in Raws, PushBegin(raw) PROVE NoRepeat'
    BY <1>1, <1>3, PushFrame
  <1>4. CASE SetInputStreamCache
    <2>1. CASE inference' = inference /\ pushpc' = "idle"
      BY <1>1, <1>4, <2>1, RegisterFrame
    <2>2. CASE ~(inference' = inference /\ pushpc' = "idle")
      <3>1. /\ DOMAIN inference' \subseteq DOMAIN inference \cup {Micro(pushraw)}
            /\ \A t \in DOMAIN inference' :
                  inference'[t] = IF t = Micro(pushraw)
                                  THEN [raw |-> pushraw, sum |-> 0, packs |-> {}]
                                  ELSE inference[t]
            /\ UNCHANGED <<accepted, emitted, pushraw>>
        BY <1>4, <2>2, RegisterFrame
      <3> QED
        BY <3>1 DEF NoRepeat, Micro
    <2> QED
      BY <2>1, <2>2
  <1>5. CASE Accept
    BY <1>0, <1>5 DEF Accept, NoRepeat
  <1>6. CASE ClearInputStreamCache
    BY <1>1, <1>6, ClearFrame
  <1>7. ASSUME NEW o \in Orders, NEW s \in accepted, CallBackInferenceResult(o, s)
        PROVE  NoRepeat'
    <2>1. /\ UNCHANGED <<accepted, pushpc, pushraw>>
          /\ s > emitted[o] /\ s \in Nat
          /\ emitted' = [emitted EXCEPT ![o] = s]
          /\ DOMAIN inference' \subseteq DOMAIN inference
          /\ \A t \in DOMAIN inference' :
                inference'[t] = IF t = s THEN Collected(s, o) ELSE inference[t]
      <3>1. s \in Nat
        BY <1>0
      <3>2. UNCHANGED <<accepted, pushVars>> /\ s > emitted[o] /\ emitted' = [emitted EXCEPT ![o] = s]
        BY <1>7, CallbackFrame
      <3>3. /\ DOMAIN inference' \subseteq DOMAIN inference
            /\ \A t \in DOMAIN inference' :
                  inference'[t] = IF t = s THEN Collected(s, o) ELSE inference[t]
        BY <1>7, CallbackFrame, ZenonT(60)
      <3> QED
        BY <3>1, <3>2, <3>3 DEF pushVars
    <2>2. \A q \in Orders : emitted[q] <= emitted'[q]
      BY <1>0, <2>1
    <2>3. s \in DOMAIN inference => Collected(s, o).packs = inference[s].packs \cup {o}
      BY CollectedFacts DEF TypeOK
    <2>4. ASSUME NEW t \in DOMAIN inference', NEW q \in inference'[t].packs, t \in accepted
          PROVE  t <= emitted'[q]
      <3>1. CASE t = s /\ q = o
        BY <1>0, <2>1, <3>1
      <3>2. CASE ~(t = s /\ q = o)
        <4>1. t \in DOMAIN inference /\ q \in inference[t].packs /\ q \in Orders /\ t \in Nat
          BY <1>0, <2>1, <2>3, <2>4, <3>2
        <4>2. t <= emitted[q]
          BY <2>4, <4>1 DEF NoRepeat
        <4>3. emitted[q] \in Nat /\ emitted'[q] \in Nat
          BY <1>0, <2>1, <4>1
        <4> QED
          BY <2>2, <4>1, <4>2, <4>3
      <3> QED
        BY <3>1, <3>2
    <2>5. ASSUME NEW t \in DOMAIN inference', pushpc = "image", t = Micro(pushraw),
                 \A u \in accepted : t > u
          PROVE  inference'[t].packs = {}
      <3>1. t # s
        BY <1>0, <2>5
      <3> QED
        BY <2>1, <2>5, <3>1 DEF NoRepeat
    <2> QED
      BY <2>1, <2>4, <2>5 DEF NoRepeat, Micro
  <1>8. ASSUME NEW o \in Orders, CallbackStep(o) PROVE NoRepeat'
    BY <1>1, <1>8, CallbackStepCaches, CallbackStepFrame DEF graphVars, pushVars
  <1>9. ASSUME NEW r \in Readers, GetFrontAndPop(r) PROVE NoRepeat'
    BY <1>1, <1>9, PopFrame
  <1>10. CASE Quiet
    BY <1>1, <1>10 DEF Quiet
  <1> QED
    BY <1>2, <1>3, <1>4, <1>5, <1>6, <1>7, <1>8, <1>9, <1>10, StepShape DEF Shape

\* The frame a callback has just completed, in terms of the state before.
LEMMA NewPending ==
    ASSUME TypeOK, Registered, NoRepeat,
           NEW o \in Orders, NEW s \in accepted, CallBackInferenceResult(o, s), Pending(o)'
    PROVE  /\ s \in DOMAIN inference /\ s \in Nat
           /\ inference[s].raw \in Raws /\ inference[s].packs \subseteq Orders
           /\ o \notin inference[s].packs
           /\ GroupOrders(GroupOf[o]) \subseteq inference[s].packs \cup {o}
           /\ cb'[o].stamp = s
           /\ cb'[o].item = [raw |-> inference[s].raw, packs |-> inference[s].packs \cup {o}]
           /\ \A q \in GroupOrders(GroupOf[o]) : s <= emitted'[q]
  <1>1. /\ s \in DOMAIN inference
        /\ cb'[o].stamp = s
        /\ cb'[o].item = [raw |-> inference[s].raw, packs |-> inference[s].packs \cup {o}]
        /\ emitted' = [emitted EXCEPT ![o] = s]
    BY CallbackFrame
  <1>2. /\ o \notin inference[s].packs
        /\ GroupOrders(GroupOf[o]) \subseteq inference[s].packs \cup {o}
    BY <1>1, Completes
  <1>3. s \in Nat /\ emitted \in [Orders -> Nat]
    BY StampFacts DEF TypeOK
  <1>4. inference[s].raw \in Raws /\ inference[s].packs \subseteq Orders
    BY <1>1 DEF TypeOK, StreamCache
  <1>5. ASSUME NEW q \in GroupOrders(GroupOf[o]) PROVE s <= emitted'[q]
    <2>1. CASE q = o
      BY <1>1, <1>3, <2>1
    <2>2. CASE q # o
      <3>1. q \in inference[s].packs /\ q \in Orders
        BY <1>2, <2>2 DEF GroupOrders
      <3>2. s <= emitted[q]
        BY <1>1, <3>1 DEF NoRepeat
      <3> QED
        BY <1>1, <1>3, <2>2, <3>1, <3>2
    <2> QED
      BY <2>1, <2>2
  <1> QED
    BY <1>1, <1>2, <1>3, <1>4, <1>5

\* Every step keeps the frames between the two locks complete.
LEMMA PendingStep ==
    ASSUME TypeOK, Phases, Registered, NoRepeat, PendingOK, DepthBounded, FrontExists, [Next]_vars
    PROVE  PendingOK'
  <1>0. /\ \A raw \in Nat : NotNewer(raw) => NotNewer(raw)'
        /\ \A x \in Item : x.raw \in Nat
        /\ emitted \in [Orders -> Nat]
    BY StampFacts, NotNewerStep DEF TypeOK, Item
  <1>1. SUFFICES ASSUME NEW o \in Orders, Pending(o)' PROVE PendingItemOK(o)'
    BY DEF PendingOK, PendingItemOK
  <1>2. ASSUME Pending(o), cb'[o].item = cb[o].item, cb'[o].stamp = cb[o].stamp,
               emitted'[o] = emitted[o],
               \A q \in Orders : emitted[q] <= emitted'[q] /\ emitted'[q] \in Nat
        PROVE  PendingItemOK(o)'
    <2>1. PendingItemOK(o)
      BY <1>2 DEF PendingOK, PendingItemOK
    <2>2. NotNewer(cb[o].item.raw)'
      BY <1>0, <1>2, <2>1 DEF PendingItemOK, NotNewer
    <2>3. \A q \in GroupOrders(GroupOf[o]) : cb[o].stamp <= emitted'[q]
      <3> TAKE q \in GroupOrders(GroupOf[o])
      <3>1. q \in Orders /\ cb[o].stamp <= emitted[q] /\ cb[o].stamp \in Nat /\ emitted[q] \in Nat
        BY <1>0, <2>1 DEF PendingItemOK, GroupOrders
      <3> QED
        BY <1>2, <3>1
    <2> QED
      BY <1>2, <2>1, <2>2, <2>3 DEF PendingItemOK, GroupOrders
  <1>3. ASSUME UNCHANGED <<cb, emitted>> PROVE PendingItemOK(o)'
    BY <1>0, <1>1, <1>2, <1>3 DEF Pending
  <1>4. CASE StopDone
    BY <1>1, <1>4, StopDoneFrame DEF Pending
  <1>5. ASSUME NEW p \in Orders, NEW s \in accepted, CallBackInferenceResult(p, s)
        PROVE  PendingItemOK(o)'
    <2>1. /\ s > emitted[p] /\ s \in Nat
          /\ emitted' = [emitted EXCEPT ![p] = s]
          /\ cb' = [cb EXCEPT ![p] = cb'[p]]
      <3>1. s \in Nat
        BY StampFacts DEF TypeOK
      <3> QED
        BY <1>5, <3>1, CallbackFrame
    <2>2. CASE p # o
      <3>1. cb'[o] = cb[o] /\ emitted'[o] = emitted[o]
        BY <2>1, <2>2 DEF TypeOK
      <3>2. \A q \in Orders : emitted[q] <= emitted'[q] /\ emitted'[q] \in Nat
        BY <1>0, <2>1
      <3> QED
        BY <1>1, <1>2, <3>1, <3>2 DEF Pending
    <2>3. CASE p = o
      <3>1. /\ s \in DOMAIN inference
            /\ inference[s].raw \in Raws /\ inference[s].packs \subseteq Orders
            /\ GroupOrders(GroupOf[o]) \subseteq inference[s].packs \cup {o}
            /\ cb'[o].stamp = s
            /\ cb'[o].item = [raw |-> inference[s].raw, packs |-> inference[s].packs \cup {o}]
            /\ \A q \in GroupOrders(GroupOf[o]) : s <= emitted'[q]
        BY <1>1, <1>5, <2>3, NewPending
      <3>2. inference[s].raw <= pushraw' /\ (pushpc' = "register" => inference[s].raw < pushraw')
        <4>1. inference[s].raw \in Nat /\ NotNewer(inference[s].raw)
          BY <3>1, StampFacts DEF Registered
        <4> QED
          BY <1>0, <4>1 DEF NotNewer
      <3>3. cb'[o].item \in Item
        BY <3>1 DEF Item
      <3>4. emitted'[o] = s
        BY <1>0, <2>1, <2>3
      <3>5. cb'[o].item.raw = inference[s].raw
        BY <3>1
      <3>6. NotNewer(cb[o].item.raw)'
        BY <3>2, <3>5 DEF NotNewer
      <3> QED
        BY <3>1, <3>3, <3>4, <3>6 DEF PendingItemOK, GroupOrders
    <2> QED
      BY <2>2, <2>3
  <1>6. ASSUME NEW p \in Orders, CallbackStep(p) PROVE PendingItemOK(o)'
    <2>1. /\ emitted' = emitted
          /\ cb' = [cb EXCEPT ![p] = cb'[p]]
          /\ Pending(p)' => Pending(p) /\ cb'[p].item = cb[p].item /\ cb'[p].stamp = cb[p].stamp
      BY <1>6, CallbackStepFrame DEF graphVars
    <2>2. Pending(o) /\ cb'[o].item = cb[o].item /\ cb'[o].stamp = cb[o].stamp
      <3>1. CASE p = o
        BY <1>1, <2>1, <3>1
      <3>2. CASE p # o
        <4>1. cb'[o] = cb[o]
          BY <2>1, <3>2 DEF TypeOK
        <4> QED
          BY <1>1, <4>1 DEF Pending
      <3> QED
        BY <3>1, <3>2
    <2> QED
      BY <1>0, <1>2, <2>1, <2>2
  <1>7. ASSUME NEW raw \in Raws, PushBegin(raw) PROVE UNCHANGED <<cb, emitted>>
    BY <1>7, PushFrame
  <1>8. CASE SetInputStreamCache
    BY <1>3, <1>8, RegisterFrame
  <1>9. CASE ClearInputStreamCache
    BY <1>3, <1>9, ClearFrame
  <1>10. ASSUME NEW r \in Readers, GetFrontAndPop(r) PROVE UNCHANGED <<cb, emitted>>
    BY <1>10, PopFrame
  <1>11. CASE Quiet \/ Accept
    BY <1>3, <1>11 DEF Quiet, Accept
  <1> QED
    BY <1>3, <1>4, <1>5, <1>6, <1>7, <1>8, <1>9, <1>10, <1>11, StepShape DEF Shape

\* The steps other than the two of an executor thread start no pending frame.
LEMMA PendingFrame ==
    ASSUME TypeOK, Phases, Registered, FrontExists, Shape,
           ~\E o \in Orders : \E s \in accepted : CallBackInferenceResult(o, s)
    PROVE  \A o \in Orders :
              Pending(o)' => Pending(o) /\ cb'[o].item = cb[o].item
  <1>1. ASSUME NEW p \in Orders, CallbackStep(p), NEW o \in Orders, Pending(o)'
        PROVE  Pending(o) /\ cb'[o].item = cb[o].item
    <2>1. /\ cb' = [cb EXCEPT ![p] = cb'[p]]
          /\ Pending(p)' => Pending(p) /\ cb'[p].item = cb[p].item
      BY <1>1, CallbackStepFrame
    <2>2. CASE p = o
      BY <1>1, <2>1, <2>2
    <2>3. CASE p # o
      <3>1. cb'[o] = cb[o]
        BY <2>1, <2>3 DEF TypeOK
      <3> QED
        BY <1>1, <3>1 DEF Pending
    <2> QED
      BY <2>2, <2>3
  <1>2. CASE cb' = cb
    BY <1>2 DEF Pending
  <1>3. ASSUME NEW raw \in Raws, PushBegin(raw) PROVE cb' = cb
    BY <1>3, PushFrame
  <1>4. ASSUME NEW r \in Readers, GetFrontAndPop(r) PROVE cb' = cb
    BY <1>4, PopFrame
  <1>5. StopDone \/ SetInputStreamCache \/ ClearInputStreamCache => cb' = cb
    BY StopDoneFrame, RegisterFrame, ClearFrame
  <1>6. Quiet \/ Accept => cb' = cb
    BY DEF Quiet, Accept
  <1> QED
    BY <1>1, <1>2, <1>3, <1>4, <1>5, <1>6 DEF Shape

\* Two callbacks of one group never carry a frame at the same time: the
\* second would need a packet the first already counted.
LEMMA OnePendingStep ==
    ASSUME TypeOK, Phases, Registered, NoRepeat, PendingOK, OnePending, FrontExists, [Next]_vars
    PROVE  OnePending'
  <1>1. ASSUME NEW o \in Orders, NEW s \in accepted, CallBackInferenceResult(o, s)
        PROVE  OnePending'
    <2>1. cb' = [cb EXCEPT ![o] = cb'[o]] /\ s > emitted[o]
      BY <1>1, CallbackFrame
    <2>2. \A q \in Orders \ {o} : Pending(q)' <=> Pending(q)
      BY <2>1 DEF Pending, TypeOK
    <2>3. ASSUME NEW q \in Orders \ {o}, Pending(q), Pending(o)', GroupOf[q] = GroupOf[o]
          PROVE  FALSE
      <3>1. q \in GroupOrders(GroupOf[o]) /\ o \in GroupOrders(GroupOf[q])
        BY <2>3 DEF GroupOrders
      <3>2. s \in DOMAIN inference /\ s \in Nat /\ q \in inference[s].packs
        BY <1>1, <2>3, <3>1, NewPending
      <3>3. s <= emitted[q]
        BY <3>2 DEF NoRepeat
      <3>4. cb[q].stamp = emitted[q] /\ cb[q].stamp <= emitted[o]
        BY <2>3, <3>1 DEF PendingOK, PendingItemOK
      <3>5. emitted[o] \in Nat /\ emitted[q] \in Nat
        BY DEF TypeOK
      <3> QED
        BY <2>1, <3>2, <3>3, <3>4, <3>5
    <2> QED
      BY <2>2, <2>3 DEF OnePending
  <1>2. CASE ~\E o \in Orders : \E s \in accepted : CallBackInferenceResult(o, s)
    BY <1>2, PendingFrame, StepShape DEF OnePending
  <1> QED
    BY <1>1, <1>2

\* Where the frames of an output cache come from: they were there, or an
\* executor thread was about to put them there.
LEMMA OutputsOrigin ==
    ASSUME TypeOK, TypeOK', Phases, Registered, PendingOK, DepthBounded, FrontExists, Shape
    PROVE  \A g \in Groups : \A i \in DOMAIN outputs'[g] :
              \/ \E j \in DOMAIN outputs[g] : outputs'[g][i] = outputs[g][j]
              \/ \E p \in Orders : /\ Pending(p) /\ ~Pending(p)' /\ GroupOf[p] = g
                                   /\ outputs'[g][i] = cb[p].item
  <1> DEFINE From(g, i) ==
                \/ \E j \in DOMAIN outputs[g] : outputs'[g][i] = outputs[g][j]
                \/ \E p \in Orders : /\ Pending(p) /\ ~Pending(p)' /\ GroupOf[p] = g
                                     /\ outputs'[g][i] = cb[p].item
  <1>0. /\ \A g \in Groups : /\ DOMAIN outputs[g] = 1..Len(outputs[g]) /\ Len(outputs[g]) \in Nat
                             /\ DOMAIN outputs'[g] = 1..Len(outputs'[g]) /\ Len(outputs'[g]) \in Nat
        /\ outputs \in [Groups -> Seq(Item)]
    BY DEF TypeOK
  <1>1. SUFFICES ASSUME NEW g \in Groups, NEW i \in DOMAIN outputs'[g] PROVE From(g, i)
    OBVIOUS
  <1>2. CASE outputs' = outputs
    BY <1>1, <1>2
  <1>3. ASSUME NEW p \in Orders, CallbackStep(p), outputs' # outputs PROVE From(g, i)
    <2> DEFINE h == GroupOf[p]
    <2>1. /\ Pending(p) /\ ~Pending(p)'
          /\ outputs' = [outputs EXCEPT ![h] = outputs'[h]]
          /\ Len(outputs'[h]) <= Len(outputs[h]) + 1
          /\ outputs'[h][1] = cb[p].item
          /\ \A k \in 2..Len(outputs'[h]) : outputs'[h][k] = outputs[h][k - 1]
      BY <1>3, CallbackStepCaches
    <2>2. CASE g # h
      <3>1. outputs'[g] = outputs[g]
        BY <1>0, <2>1, <2>2
      <3> QED
        BY <1>1, <3>1
    <2>3. CASE g = h /\ i = 1
      BY <2>1, <2>3
    <2>4. CASE g = h /\ i # 1
      <3>1. i \in 2..Len(outputs'[g]) /\ i - 1 \in DOMAIN outputs[g]
        BY <1>0, <1>1, <2>1, <2>4
      <3> QED
        BY <2>1, <2>4, <3>1
    <2> QED
      BY <2>2, <2>3, <2>4
  <1>4. ASSUME NEW r \in Readers, GetFrontAndPop(r) PROVE From(g, i)
    <2> DEFINE h == ReaderGroup[r]
    <2>1. /\ h \in Groups
          /\ outputs' = [outputs EXCEPT ![h] = outputs'[h]]
          /\ Len(outputs'[h]) = Len(outputs[h]) - 1
          /\ \A k \in 1..Len(outputs'[h]) : outputs'[h][k] = outputs[h][k + 1]
      BY <1>4, PopFrame
    <2>2. CASE g # h
      <3>1. outputs'[g] = outputs[g]
        BY <1>0, <2>1, <2>2
      <3> QED
        BY <1>1, <3>1
    <2>3. CASE g = h
      <3>1. i \in 1..Len(outputs'[g]) /\ i + 1 \in DOMAIN outputs[g]
        BY <1>0, <1>1, <2>1, <2>3
      <3> QED
        BY <2>1, <2>3, <3>1
    <2> QED
      BY <2>2, <2>3
  <1>5. ASSUME NEW raw \in Raws, PushBegin(raw) PROVE outputs' = outputs
    BY <1>5, PushFrame
  <1>6. ASSUME NEW o \in Orders, NEW s \in accepted, CallBackInferenceResult(o, s)
        PROVE  outputs' = outputs
    BY <1>6, CallbackFrame
  <1>7. StopDone \/ SetInputStreamCache \/ ClearInputStreamCache => outputs' = outputs
    BY StopDoneFrame, RegisterFrame, ClearFrame
  <1>8. Quiet \/ Accept => outputs' = outputs
    BY DEF Quiet, Accept
  <1> HIDE DEF From
  <1> QED
    BY <1>2, <1>3, <1>4, <1>5, <1>6, <1>7, <1>8 DEF Shape

\* Every step keeps the results no newer than the camera's clock.
LEMMA ResultsStep ==
    ASSUME TypeOK, TypeOK', Phases, Registered, PendingOK, ResultsOld, DepthBounded, FrontExists,
           [Next]_vars
    PROVE  ResultsOld'
  <1>0. /\ \A raw \in Nat : NotNewer(raw) => NotNewer(raw)'
        /\ \A x \in Item : x.raw \in Nat
        /\ \A g \in Groups : \A j \in DOMAIN outputs[g] : outputs[g][j] \in Item
    <2>1. \A x \in Item : x.raw \in Nat
      BY StampFacts DEF Item
    <2>2. \A g \in Groups : \A j \in DOMAIN outputs[g] : outputs[g][j] \in Item
      BY DEF TypeOK
    <2> QED
      BY <2>1, <2>2, NotNewerStep
  <1>1. ASSUME NEW g \in Groups, NEW i \in DOMAIN outputs'[g]
        PROVE  outputs'[g][i].raw \in Nat /\ NotNewer(outputs'[g][i].raw)
    <2>1. CASE \E j \in DOMAIN outputs[g] : outputs'[g][i] = outputs[g][j]
      BY <1>0, <2>1 DEF ResultsOld
    <2>2. ASSUME NEW p \in Orders, Pending(p), outputs'[g][i] = cb[p].item
          PROVE  outputs'[g][i].raw \in Nat /\ NotNewer(outputs'[g][i].raw)
      BY <1>0, <2>2 DEF PendingOK, PendingItemOK
    <2> QED
      BY <2>1, <2>2, OutputsOrigin, StepShape
  <1>2. ASSUME NEW g \in Groups, NEW i \in DOMAIN outputs'[g]
        PROVE  /\ outputs'[g][i].raw <= pushraw'
               /\ pushpc' = "register" => outputs'[g][i].raw < pushraw'
    <2> DEFINE x == outputs'[g][i].raw
    <2>1. x \in Nat /\ NotNewer(x)
      BY <1>1
    <2> HIDE DEF x
    <2>2. x <= pushraw' /\ (pushpc' = "register" => x < pushraw')
      BY <1>0, <2>1 DEF NotNewer
    <2> QED
      BY <2>2 DEF x
  <1> QED
    BY <1>2 DEF ResultsOld, NotNewer

\* A frame enters an output cache only when all packets of its group are in.
LEMMA CompleteStep ==
    ASSUME TypeOK, TypeOK', Phases, Registered, PendingOK, DepthBounded, OutputsComplete,
           FrontExists, [Next]_vars
    PROVE  OutputsComplete'
  <1>1. ASSUME NEW g \in Groups, NEW i \in DOMAIN outputs'[g]
        PROVE  GroupOrders(g) \subseteq outputs'[g][i].packs
    <2>1. CASE \E j \in DOMAIN outputs[g] : outputs'[g][i] = outputs[g][j]
      BY <2>1 DEF OutputsComplete
    <2>2. ASSUME NEW p \in Orders, Pending(p), GroupOf[p] = g, outputs'[g][i] = cb[p].item
          PROVE  GroupOrders(g) \subseteq outputs'[g][i].packs
      BY <2>2 DEF PendingOK, PendingItemOK
    <2> QED
      BY <2>1, <2>2, OutputsOrigin, StepShape
  <1> QED
    BY <1>1 DEF OutputsComplete, GroupOrders

\* A frame that completes its group is newer than everything the group holds.
LEMMA CompletesNewest ==
    ASSUME TypeOK, Registered, NoRepeat, OvertakenIsDead,
           NEW o \in Orders, NEW s \in accepted, CallBackInferenceResult(o, s), Pending(o)',
           NEW raw \in Raws, Held(GroupOf[o], raw)
    PROVE  raw < inference[s].raw
  <1> DEFINE g == GroupOf[o]
  <1>1. /\ s \in DOMAIN inference /\ inference[s].raw \in Raws
        /\ o \notin inference[s].packs
        /\ GroupOrders(g) \subseteq inference[s].packs \cup {o}
    BY NewPending
  <1>2. g \in Groups /\ o \in GroupOrders(g)
    BY LayoutAssumption DEF GroupOrders
  <1>3. CanEmit(o, s)
    BY CallbackFrame DEF CanEmit
  <1>4. /\ raw # inference[s].raw
        /\ raw > inference[s].raw => \E q \in GroupOrders(g) \ inference[s].packs : ~CanEmit(q, s)
    BY <1>1, <1>2 DEF OvertakenIsDead, DeadIfOvertaken
  <1>5. ~(raw > inference[s].raw)
    BY <1>1, <1>3, <1>4
  <1>6. raw \in Nat /\ inference[s].raw \in Nat
    BY <1>1, StampFacts
  <1> QED
    BY <1>4, <1>5, <1>6

\* Every step keeps a pending frame newer than the results of its group.
LEMMA PendingNewestStep ==
    ASSUME TypeOK, TypeOK', Phases, Registered, NoRepeat, PendingOK, OnePending, PendingNewest,
           OvertakenIsDead, DepthBounded, FrontExists, [Next]_vars
    PROVE  PendingNewest'
  <1>1. SUFFICES ASSUME NEW o \in Orders, Pending(o)', NEW i \in DOMAIN outputs'[GroupOf[o]]
                 PROVE  outputs'[GroupOf[o]][i].raw < cb'[o].item.raw
    BY DEF PendingNewest
  <1> DEFINE g == GroupOf[o]
  <1>2. g \in Groups /\ \A j \in DOMAIN outputs[g] : outputs[g][j] \in Item
    BY LayoutAssumption DEF TypeOK
  <1>3. ASSUME NEW p \in Orders, NEW s \in accepted, CallBackInferenceResult(p, s)
        PROVE  outputs'[g][i].raw < cb'[o].item.raw
    <2>1. outputs' = outputs /\ cb' = [cb EXCEPT ![p] = cb'[p]]
      BY <1>3, CallbackFrame
    <2>2. CASE p # o
      <3>1. cb'[o] = cb[o]
        BY <2>1, <2>2 DEF TypeOK
      <3> QED
        BY <1>1, <2>1, <3>1 DEF PendingNewest, Pending
    <2>3. CASE p = o
      <3>1. cb'[o].item.raw = inference[s].raw
        <4>1. CallBackInferenceResult(o, s)
          BY <1>3, <2>3
        <4>2. cb'[o].item = [raw |-> inference[s].raw, packs |-> inference[s].packs \cup {o}]
          BY <1>1, <4>1, NewPending
        <4> QED
          BY <4>2
      <3>2. outputs[g][i].raw \in Raws /\ Held(g, outputs[g][i].raw)
        <4>1. i \in DOMAIN outputs[g] /\ outputs[g][i] \in Item
          BY <1>1, <1>2, <2>1
        <4> QED
          BY <4>1 DEF Held, Item
      <3>3. CallBackInferenceResult(o, s)
        BY <1>3, <2>3
      <3>4. ASSUME NEW raw \in Raws, Held(g, raw) PROVE raw < inference[s].raw
        BY <1>1, <3>3, <3>4, CompletesNewest
      <3> QED
        BY <2>1, <3>1, <3>2, <3>4
    <2> QED
      BY <2>2, <2>3
  <1>4. CASE ~\E p \in Orders : \E s \in accepted : CallBackInferenceResult(p, s)
    <2>1. Pending(o) /\ cb'[o].item = cb[o].item
      BY <1>1, <1>4, PendingFrame, StepShape
    <2>2. CASE \E j \in DOMAIN outputs[g] : outputs'[g][i] = outputs[g][j]
      BY <2>1, <2>2 DEF PendingNewest
    <2>3. ASSUME NEW p \in Orders, Pending(p), ~Pending(p)', GroupOf[p] = g PROVE FALSE
      BY <1>1, <2>1, <2>3 DEF OnePending
    <2> QED
      BY <1>1, <1>2, <2>2, <2>3, OutputsOrigin, StepShape
  <1> QED
    BY <1>3, <1>4

\* What the graph can no longer deliver for a registered frame stays lost.
LEMMA CanEmitStep ==
    ASSUME TypeOK, Phases, Registered, FrontExists, Shape,
           NEW s \in DOMAIN inference, NEW q \in Orders, CanEmit(q, s)'
    PROVE  CanEmit(q, s)
  <1>0. s \in Nat /\ accepted \subseteq Nat /\ emitted \in [Orders -> Nat]
    BY StampFacts DEF TypeOK
  <1>1. ASSUME UNCHANGED <<accepted, emitted>>,
               pushpc' = "image" => pushpc = "image" /\ pushraw' = pushraw
        PROVE  CanEmit(q, s)
    BY <1>1 DEF CanEmit, Micro
  <1>2. CASE StopDone
    BY <1>2, StopDoneFrame DEF CanEmit
  <1>3. ASSUME NEW raw \in Raws, PushBegin(raw) PROVE CanEmit(q, s)
    BY <1>1, <1>3, PushFrame
  <1>4. CASE SetInputStreamCache
    <2>1. CASE pushpc' = "idle"
      BY <1>1, <1>4, <2>1, RegisterFrame
    <2>2. CASE pushpc' # "idle"
      <3>1. Micro(pushraw) \notin DOMAIN inference /\ UNCHANGED <<accepted, emitted, pushraw>>
        BY <1>4, <2>2, RegisterFrame
      <3> QED
        BY <3>1 DEF CanEmit, Micro
    <2> QED
      BY <2>1, <2>2
  <1>5. CASE Accept
    BY <1>5 DEF Accept, CanEmit
  <1>6. CASE ClearInputStreamCache
    BY <1>1, <1>6, ClearFrame
  <1>7. ASSUME NEW o \in Orders, NEW t \in accepted, CallBackInferenceResult(o, t)
        PROVE  CanEmit(q, s)
    <2>1. UNCHANGED <<accepted, pushVars>> /\ t > emitted[o] /\ emitted' = [emitted EXCEPT ![o] = t]
      BY <1>7, CallbackFrame
    <2>2. emitted[q] \in Nat /\ emitted'[q] \in Nat /\ emitted[q] <= emitted'[q]
      BY <1>0, <2>1
    <2> QED
      BY <1>0, <2>1, <2>2 DEF CanEmit, Micro, pushVars
  <1>8. ASSUME NEW o \in Orders, CallbackStep(o) PROVE CanEmit(q, s)
    BY <1>1, <1>8, CallbackStepFrame DEF graphVars, pushVars
  <1>9. ASSUME NEW r \in Readers, GetFrontAndPop(r) PROVE CanEmit(q, s)
    BY <1>1, <1>9, PopFrame
  <1>10. CASE Quiet
    BY <1>1, <1>10 DEF Quiet
  <1> QED
    BY <1>2, <1>3, <1>4, <1>5, <1>6, <1>7, <1>8, <1>9, <1>10 DEF Shape

\* Only the first critical section of a callback brings a new frame to the
\* output side.
LEMMA HeldFrame ==
    ASSUME TypeOK, TypeOK', Phases, Registered, PendingOK, DepthBounded, FrontExists, Shape,
           ~\E o \in Orders : \E s \in accepted : CallBackInferenceResult(o, s),
           NEW g \in Groups, NEW raw \in Raws, Held(g, raw)'
    PROVE  Held(g, raw)
  <1>1. ASSUME NEW i \in DOMAIN outputs'[g], outputs'[g][i].raw = raw PROVE Held(g, raw)
    <2>1. CASE \E j \in DOMAIN outputs[g] : outputs'[g][i] = outputs[g][j]
      BY <1>1, <2>1 DEF Held
    <2>2. ASSUME NEW p \in Orders, Pending(p), GroupOf[p] = g, outputs'[g][i] = cb[p].item
          PROVE  Held(g, raw)
      BY <1>1, <2>2 DEF Held
    <2> QED
      BY <2>1, <2>2, OutputsOrigin
  <1>2. ASSUME NEW o \in Orders, Pending(o)', GroupOf[o] = g, cb'[o].item.raw = raw
        PROVE  Held(g, raw)
    <2>1. Pending(o) /\ cb'[o].item = cb[o].item
      BY <1>2, PendingFrame
    <2> QED
      BY <1>2, <2>1 DEF Held
  <1> QED
    BY <1>1, <1>2 DEF Held

\* The callback that completes a frame overtakes every older frame that lacks
\* an output of the group: the outputs of that group have moved past it.
LEMMA OvertakenCallback ==
    ASSUME TypeOK, TypeOK', Phases, Registered, NoRepeat, PendingOK, OvertakenIsDead, FrontExists,
           NEW o \in Orders, NEW s \in accepted, CallBackInferenceResult(o, s),
           NEW g \in Groups, NEW t \in DOMAIN inference', NEW raw \in Raws
    PROVE  DeadIfOvertaken(g, t, raw)'
  <1>1. /\ UNCHANGED <<accepted, outputs, pushpc, pushraw>>
        /\ s > emitted[o]
        /\ emitted' = [emitted EXCEPT ![o] = s]
        /\ cb' = [cb EXCEPT ![o] = cb'[o]]
        /\ DOMAIN inference' \subseteq DOMAIN inference
        /\ inference'[t] = IF t = s THEN Collected(s, o) ELSE inference[t]
    <2>1. /\ UNCHANGED <<accepted, outputs, pushVars>>
          /\ s > emitted[o]
          /\ emitted' = [emitted EXCEPT ![o] = s]
          /\ cb' = [cb EXCEPT ![o] = cb'[o]]
      BY CallbackFrame
    <2>2. /\ DOMAIN inference' \subseteq DOMAIN inference
          /\ inference'[t] = IF t = s THEN Collected(s, o) ELSE inference[t]
      <3>1. /\ DOMAIN inference' \subseteq DOMAIN inference
            /\ \A u \in DOMAIN inference' :
                  inference'[u] = IF u = s THEN Collected(s, o) ELSE inference[u]
        BY CallbackFrame, ZenonT(60)
      <3> QED
        BY <3>1
    <2> QED
      BY <2>1, <2>2 DEF pushVars
  <1>2. /\ t \in DOMAIN inference /\ t \in Nat /\ s \in Nat
        /\ inference[t] \in StreamCache /\ inference[t].raw \in Raws
        /\ inference[t].packs \subseteq Orders
    BY <1>1, StampFacts DEF TypeOK, StreamCache
  <1>3. /\ inference'[t].raw = inference[t].raw
        /\ inference'[t].packs = IF t = s THEN inference[t].packs \cup {o} ELSE inference[t].packs
    <2>1. CASE t = s
      <3>1. inference'[t] = Collected(t, o)
        BY <1>1, <2>1
      <3>2. /\ Collected(t, o).raw = inference[t].raw
            /\ Collected(t, o).packs = inference[t].packs \cup {o}
        BY <1>2, CollectedFacts
      <3> QED
        BY <2>1, <3>1, <3>2
    <2>2. CASE t # s
      BY <1>1, <2>2
    <2> QED
      BY <2>1, <2>2
  <1>4. SUFFICES ASSUME ~(GroupOrders(g) \subseteq inference'[t].packs), Held(g, raw)'
                 PROVE  /\ raw # inference'[t].raw
                        /\ raw > inference'[t].raw =>
                              \E q \in GroupOrders(g) \ inference'[t].packs : ~CanEmit(q, t)'
    BY DEF DeadIfOvertaken, GroupOrders
  <1>5. ~(GroupOrders(g) \subseteq inference[t].packs)
    BY <1>3, <1>4
  <1>6. CASE Held(g, raw)
    <2>1. /\ raw # inference[t].raw
          /\ raw > inference[t].raw =>
                \E q \in GroupOrders(g) \ inference[t].packs : ~CanEmit(q, t)
      BY <1>2, <1>5, <1>6 DEF OvertakenIsDead, DeadIfOvertaken
    <2>2. ASSUME NEW q \in GroupOrders(g) \ inference[t].packs, ~CanEmit(q, t)
          PROVE  q \notin inference'[t].packs /\ ~CanEmit(q, t)'
      <3>1. q \in Orders
        BY DEF GroupOrders
      <3>2. ~CanEmit(q, t)'
        <4>1. Shape
          BY DEF Shape
        <4> QED
          BY <1>2, <2>2, <3>1, <4>1, CanEmitStep
      <3>3. t = s => CanEmit(o, t)
        BY <1>1 DEF CanEmit
      <3> QED
        BY <1>3, <2>2, <3>2, <3>3
    <2> QED
      BY <1>3, <2>1, <2>2
  <1>7. CASE ~Held(g, raw)
    <2>1. Pending(o)' /\ GroupOf[o] = g /\ cb'[o].item.raw = raw
      <3>1. PICK p \in Orders : Pending(p)' /\ GroupOf[p] = g /\ cb'[p].item.raw = raw
        BY <1>1, <1>4, <1>7 DEF Held
      <3>2. p # o => cb'[p] = cb[p]
        BY <1>1 DEF TypeOK
      <3> QED
        BY <1>7, <3>1, <3>2 DEF Held, Pending
    <2>2. /\ s \in DOMAIN inference /\ inference[s].raw \in Raws
          /\ GroupOrders(g) \subseteq inference[s].packs \cup {o}
          /\ cb'[o].item = [raw |-> inference[s].raw, packs |-> inference[s].packs \cup {o}]
          /\ \A q \in GroupOrders(g) : s <= emitted'[q]
      BY <2>1, NewPending
    <2>3. raw = inference[s].raw
      BY <2>1, <2>2
    <2>4. t # s
      BY <1>3, <1>4, <2>2
    <2>5. Micro(inference[s].raw) = s /\ Micro(inference[t].raw) = t
      BY <1>2, <2>2 DEF Registered
    <2>6. ASSUME raw > inference[t].raw
          PROVE  \E q \in GroupOrders(g) \ inference'[t].packs : ~CanEmit(q, t)'
      <3>1. t < s
        <4>1. inference[t].raw <= raw /\ inference[t].raw \in Nat /\ raw \in Nat
          BY <1>2, <2>6, StampFacts
        <4>2. Micro(inference[t].raw) <= Micro(raw)
          BY <4>1, MicroMonotone
        <4> QED
          BY <1>2, <2>3, <2>4, <2>5, <4>2
      <3>2. PICK q \in GroupOrders(g) : q \notin inference'[t].packs
        BY <1>4
      <3>3. emitted'[q] \in Nat /\ s <= emitted'[q]
        BY <2>2, <3>2 DEF TypeOK, GroupOrders
      <3>4. ~CanEmit(q, t)'
        <4>1. ~(t > emitted'[q])
          BY <1>2, <3>1, <3>3
        <4>2. ~(t > s) /\ s \in accepted'
          BY <1>1, <1>2, <3>1
        <4> QED
          BY <4>1, <4>2 DEF CanEmit
      <3> QED
        BY <3>2, <3>4
    <2> QED
      BY <1>3, <2>3, <2>4, <2>5, <2>6
  <1> QED
    BY <1>6, <1>7

\* Every step keeps overtaken frames dead.
LEMMA OvertakenStep ==
    ASSUME TypeOK, TypeOK', Phases, Registered, NoRepeat, PendingOK, ResultsOld, OvertakenIsDead,
           DepthBounded, FrontExists, [Next]_vars
    PROVE  OvertakenIsDead'
  <1>1. SUFFICES ASSUME NEW g \in Groups, NEW s \in DOMAIN inference', NEW raw \in Raws
                 PROVE  DeadIfOvertaken(g, s, raw)'
    BY DEF OvertakenIsDead, DeadIfOvertaken
  <1>2. Shape
    BY StepShape
  <1>3. CASE \E o \in Orders : \E t \in accepted : CallBackInferenceResult(o, t)
    BY <1>3, OvertakenCallback
  <1> DEFINE NoCallback == ~\E o \in Orders : \E t \in accepted : CallBackInferenceResult(o, t)
  <1>4. ASSUME NoCallback, Held(g, raw)' PROVE Held(g, raw)
    BY <1>2, <1>4, HeldFrame
  <1>5. ASSUME NoCallback, s \in DOMAIN inference, inference'[s] = inference[s]
        PROVE  DeadIfOvertaken(g, s, raw)'
    <2>1. SUFFICES ASSUME ~(GroupOrders(g) \subseteq inference[s].packs), Held(g, raw)
                   PROVE  /\ raw # inference[s].raw
                          /\ raw > inference[s].raw =>
                                \E q \in GroupOrders(g) \ inference[s].packs : ~CanEmit(q, s)'
      BY <1>4, <1>5 DEF DeadIfOvertaken, GroupOrders
    <2>2. /\ raw # inference[s].raw
          /\ raw > inference[s].raw =>
                \E q \in GroupOrders(g) \ inference[s].packs : ~CanEmit(q, s)
      BY <1>5, <2>1 DEF OvertakenIsDead, DeadIfOvertaken
    <2>3. \A q \in Orders : CanEmit(q, s)' => CanEmit(q, s)
      BY <1>2, <1>5, CanEmitStep
    <2> QED
      BY <2>2, <2>3 DEF GroupOrders
  <1>6. CASE SetInputStreamCache /\ NoCallback
    <2>1. CASE s \in DOMAIN inference /\ inference'[s] = inference[s]
      BY <1>5, <1>6, <2>1
    <2>2. CASE ~(s \in DOMAIN inference /\ inference'[s] = inference[s])
      <3>1. /\ pushpc = "register" /\ pushraw \in Raws
            /\ inference'[s] = [raw |-> pushraw, sum |-> 0, packs |-> {}]
        BY <1>1, <1>6, <2>2, RegisterFrame
      <3>2. ASSUME Held(g, raw) PROVE raw < pushraw
        BY <3>1, <3>2 DEF Held, ResultsOld, PendingOK, PendingItemOK, NotNewer
      <3>3. ASSUME Held(g, raw)' PROVE raw # inference'[s].raw /\ ~(raw > inference'[s].raw)
        BY <1>4, <1>6, <3>1, <3>2, <3>3, StampFacts
      <3> QED
        BY <3>3 DEF DeadIfOvertaken
    <2> QED
      BY <2>1, <2>2
  <1>7. ASSUME NoCallback, ~SetInputStreamCache PROVE s \in DOMAIN inference /\ inference'[s] = inference[s]
    <2>1. ASSUME NEW o \in Orders, CallbackStep(o)
          PROVE  s \in DOMAIN inference /\ inference'[s] = inference[s]
      BY <1>1, <2>1, CallbackStepCaches
    <2>2. CASE ClearInputStreamCache
      BY <1>1, <2>2, ClearFrame
    <2>3. ASSUME NEW x \in Raws, PushBegin(x) PROVE inference' = inference
      BY <2>3, PushFrame
    <2>4. ASSUME NEW r \in Readers, GetFrontAndPop(r) PROVE inference' = inference
      BY <2>4, PopFrame
    <2>5. StopDone \/ Quiet \/ Accept => inference' = inference
      BY StopDoneFrame DEF Quiet, Accept
    <2> QED
      BY <1>1, <1>2, <1>7, <2>1, <2>2, <2>3, <2>4, <2>5 DEF Shape
  <1> QED
    BY <1>3, <1>5, <1>6, <1>7

\* m_output_lock is held across steps by exactly the thread asleep under it.
LEMMA LockStep ==
    ASSUME TypeOK, Phases, Registered, LockOK, FrontExists, [Next]_vars
    PROVE  LockOK'
  <1> USE DEF LockOK
  <1>0. NoLock \notin Orders
    BY LockAssumption
  <1>1. CASE UNCHANGED <<outlock, cb>>
    BY <1>1
  <1>2. ASSUME NEW o \in Orders, NEW s \in accepted, CallBackInferenceResult(o, s)
        PROVE  LockOK'
    <2>1. outlock' = outlock /\ cb' = [cb EXCEPT ![o] = cb'[o]]
      BY <1>2, CallbackFrame
    <2>2. cb[o].pc = "idle" /\ cb'[o].pc \in {"idle", "size", "move"}
      BY <1>2, CallbackFrame
    <2> QED
      BY <2>1, <2>2 DEF TypeOK
  <1>3. ASSUME NEW o \in Orders, CallbackStep(o) PROVE LockOK'
    <2>0. CallbackAt(AfterMove, cb[o].stamp, NoItem).pc \in {"idle", "size"}
      BY DEF CallbackAt, AfterMove, Idle
    <2>1. CASE MoveCheck(o)
      BY <2>0, <2>1 DEF MoveCheck, TypeOK
    <2>2. CASE MoveUnderLock(o)
      BY <2>0, <2>2 DEF MoveUnderLock, TypeOK
    <2>3. CASE BlockBegin(o)
      BY <1>0, <2>3 DEF BlockBegin, TypeOK
    <2>4. CASE BlockEnd(o)
      BY <1>0, <2>0, <2>4 DEF BlockEnd, TypeOK
    <2>5. CASE SizeCheck(o)
      BY <2>5 DEF SizeCheck, TypeOK, Idle
    <2>6. CASE CleanMediapipeDropedInferenceCache(o)
      BY <2>6 DEF CleanMediapipeDropedInferenceCache, TypeOK, Idle
    <2> QED
      BY <1>3, <2>1, <2>2, <2>3, <2>4, <2>5, <2>6 DEF CallbackStep
  <1>4. ASSUME NEW raw \in Raws, PushBegin(raw) PROVE UNCHANGED <<outlock, cb>>
    BY <1>4, PushFrame
  <1>5. ASSUME NEW r \in Readers, GetFrontAndPop(r) PROVE UNCHANGED <<outlock, cb>>
    BY <1>5, PopFrame
  <1>6. StopDone \/ SetInputStreamCache \/ ClearInputStreamCache => UNCHANGED <<outlock, cb>>
    BY StopDoneFrame, RegisterFrame, ClearFrame
  <1>7. Quiet \/ Accept => UNCHANGED <<outlock, cb>>
    BY DEF Quiet, Accept
  <1> QED
    BY <1>1, <1>2, <1>3, <1>4, <1>5, <1>6, <1>7, StepShape DEF Shape

\* Only SetInputStreamCache lets the inference cache grow, and it evicts.
LEMMA BoundedStep ==
    ASSUME TypeOK, Phases, Registered, NoRepeat, PendingOK, InferenceBounded, DepthBounded,
           FrontExists, [Next]_vars
    PROVE  InferenceBounded'
  <1>1. ASSUME DOMAIN inference' \subseteq DOMAIN inference PROVE InferenceBounded'
    <2>1. /\ Cardinality(DOMAIN inference') <= Cardinality(DOMAIN inference)
          /\ Cardinality(DOMAIN inference') \in Nat /\ Cardinality(DOMAIN inference) \in Nat
      BY <1>1, FS_Subset, FS_CardinalityType DEF Registered
    <2> QED
      BY <2>1, SizeAssumption DEF InferenceBounded
  <1>2. CASE SetInputStreamCache
    <2>1. inference' = inference \/ Cardinality(DOMAIN inference') < MaxCache
      BY <1>2, RegisterFrame
    <2> QED
      BY <1>1, <2>1 DEF InferenceBounded
  <1>3. ASSUME NEW o \in Orders, NEW s \in accepted, CallBackInferenceResult(o, s)
        PROVE  InferenceBounded'
    BY <1>1, <1>3, CallbackFrame
  <1>4. ASSUME NEW o \in Orders, CallbackStep(o) PROVE InferenceBounded'
    BY <1>1, <1>4, CallbackStepCaches
  <1>5. CASE ClearInputStreamCache
    BY <1>1, <1>5, ClearFrame
  <1>6. CASE inference' = inference
    BY <1>1, <1>6
  <1>7. ASSUME NEW raw \in Raws, PushBegin(raw) PROVE inference' = inference
    BY <1>7, PushFrame
  <1>8. ASSUME NEW r \in Readers, GetFrontAndPop(r) PROVE inference' = inference
    BY <1>8, PopFrame
  <1>9. StopDone \/ Quiet \/ Accept => inference' = inference
    BY StopDoneFrame DEF Quiet, Accept
  <1> QED
    BY <1>2, <1>3, <1>4, <1>5, <1>6, <1>7, <1>8, <1>9, StepShape DEF Shape

\* The output caches change in two ways only: the pending frame of an executor
\* thread in front, or the front taken by a reader.
LEMMA OutputsShape ==
    ASSUME TypeOK, Phases, Registered, FrontExists, Shape
    PROVE  \/ outputs' = outputs
           \/ \E o \in Orders : CallbackStep(o)
           \/ \E r \in Readers : GetFrontAndPop(r)
  <1>1. ASSUME NEW raw \in Raws, PushBegin(raw) PROVE outputs' = outputs
    BY <1>1, PushFrame
  <1>2. ASSUME NEW o \in Orders, NEW s \in accepted, CallBackInferenceResult(o, s)
        PROVE  outputs' = outputs
    BY <1>2, CallbackFrame
  <1>3. StopDone \/ SetInputStreamCache \/ ClearInputStreamCache => outputs' = outputs
    BY StopDoneFrame, RegisterFrame, ClearFrame
  <1>4. Quiet \/ Accept => outputs' = outputs
    BY DEF Quiet, Accept
  <1> QED
    BY <1>1, <1>2, <1>3, <1>4 DEF Shape

\* Every policy of MoveOutputCache respects the depth of its group.
LEMMA DepthStep ==
    ASSUME TypeOK, TypeOK', Phases, Registered, PendingOK, DepthBounded, FrontExists, [Next]_vars
    PROVE  DepthBounded'
  <1>0. /\ outputs \in [Groups -> Seq(Item)]
        /\ \A g \in Groups : Len(outputs[g]) \in Nat /\ Depth[g] \in Nat
    <2>1. \A g \in Groups : Depth[g] \in Nat
      BY LayoutAssumption
    <2>2. outputs \in [Groups -> Seq(Item)] /\ \A g \in Groups : Len(outputs[g]) \in Nat
      BY DEF TypeOK
    <2> QED
      BY <2>1, <2>2
  <1>1. CASE outputs' = outputs
    BY <1>1 DEF DepthBounded
  <1>2. ASSUME NEW o \in Orders, CallbackStep(o), outputs' # outputs PROVE DepthBounded'
    <2> DEFINE h == GroupOf[o]
    <2>1. /\ outputs' = [outputs EXCEPT ![h] = outputs'[h]]
          /\ Len(outputs'[h]) \in 1..Depth[h]
      BY <1>2, CallbackStepCaches
    <2>2. ASSUME NEW g \in Groups PROVE Len(outputs'[g]) <= Depth[g]
      <3>1. CASE g = h
        BY <1>0, <2>1, <3>1
      <3>2. CASE g # h
        <4>1. outputs'[g] = outputs[g]
          BY <1>0, <2>1, <3>2
        <4> QED
          BY <4>1 DEF DepthBounded
      <3> QED
        BY <3>1, <3>2
    <2> QED
      BY <2>2 DEF DepthBounded
  <1>3. ASSUME NEW r \in Readers, GetFrontAndPop(r) PROVE DepthBounded'
    <2> DEFINE h == ReaderGroup[r]
    <2>1. /\ outputs' = [outputs EXCEPT ![h] = outputs'[h]]
          /\ Len(outputs'[h]) = Len(outputs[h]) - 1
      BY <1>3, PopFrame
    <2>2. ASSUME NEW g \in Groups PROVE Len(outputs'[g]) <= Depth[g]
      <3>1. Len(outputs[g]) <= Depth[g]
        BY DEF DepthBounded
      <3>2. CASE g = h
        BY <1>0, <2>1, <3>1, <3>2
      <3>3. CASE g # h
        <4>1. outputs'[g] = outputs[g]
          BY <1>0, <2>1, <3>3
        <4> QED
          BY <3>1, <4>1
      <3> QED
        BY <3>2, <3>3
    <2> QED
      BY <2>2 DEF DepthBounded
  <1> QED
    BY <1>1, <1>2, <1>3, OutputsShape, StepShape

\* A pending frame is the newest of its group, so push_front keeps the order.
LEMMA NewestFirstStep ==
    ASSUME TypeOK, TypeOK', Phases, Registered, PendingOK, PendingNewest, DepthBounded, NewestFirst,
           FrontExists, [Next]_vars
    PROVE  NewestFirst'
  <1>0. /\ \A g \in Groups : /\ DOMAIN outputs[g] = 1..Len(outputs[g]) /\ Len(outputs[g]) \in Nat
                             /\ DOMAIN outputs'[g] = 1..Len(outputs'[g]) /\ Len(outputs'[g]) \in Nat
        /\ outputs \in [Groups -> Seq(Item)]
    BY DEF TypeOK
  <1>1. CASE outputs' = outputs
    BY <1>1 DEF NewestFirst
  <1>2. ASSUME NEW o \in Orders, CallbackStep(o), outputs' # outputs PROVE NewestFirst'
    <2> DEFINE h == GroupOf[o]
    <2>1. /\ h \in Groups
          /\ Pending(o)
          /\ outputs' = [outputs EXCEPT ![h] = outputs'[h]]
          /\ Len(outputs'[h]) <= Len(outputs[h]) + 1
          /\ outputs'[h][1] = cb[o].item
          /\ \A k \in 2..Len(outputs'[h]) : outputs'[h][k] = outputs[h][k - 1]
      BY <1>2, CallbackStepCaches, LayoutAssumption
    <2>2. ASSUME NEW g \in Groups, NEW i \in DOMAIN outputs'[g], NEW j \in DOMAIN outputs'[g], i < j
          PROVE  outputs'[g][i].raw > outputs'[g][j].raw
      <3>1. CASE g # h
        <4>1. outputs'[g] = outputs[g]
          BY <1>0, <2>1, <3>1
        <4> QED
          BY <2>2, <4>1 DEF NewestFirst
      <3>2. CASE g = h
        <4>1. i \in Nat /\ j \in 2..Len(outputs'[h]) /\ j - 1 \in DOMAIN outputs[h]
          BY <1>0, <2>1, <2>2, <3>2
        <4>2. outputs'[h][j] = outputs[h][j - 1]
          BY <2>1, <4>1
        <4>3. CASE i = 1
          <5>1. outputs[h][j - 1].raw < cb[o].item.raw
            BY <2>1, <4>1 DEF PendingNewest
          <5>2. outputs[h][j - 1].raw \in Nat /\ cb[o].item.raw \in Nat
            <6>1. outputs[h][j - 1] \in Item /\ cb[o].item \in Item
              BY <1>0, <2>1, <4>1 DEF PendingOK, PendingItemOK
            <6> QED
              BY <6>1, StampFacts DEF Item
          <5> QED
            BY <2>1, <3>2, <4>2, <4>3, <5>1, <5>2
        <4>4. CASE i # 1
          <5>1. i \in 2..Len(outputs'[h]) /\ i - 1 \in DOMAIN outputs[h] /\ i - 1 < j - 1
            BY <1>0, <2>1, <2>2, <3>2, <4>4
          <5>2. outputs'[h][i] = outputs[h][i - 1]
            BY <2>1, <5>1
          <5> QED
            BY <2>1, <3>2, <4>1, <4>2, <5>1, <5>2 DEF NewestFirst
        <4> QED
          BY <4>3, <4>4
      <3> QED
        BY <3>1, <3>2
    <2> QED
      BY <2>2 DEF NewestFirst
  <1>3. ASSUME NEW r \in Readers, GetFrontAndPop(r) PROVE NewestFirst'
    <2> DEFINE h == ReaderGroup[r]
    <2>1. /\ h \in Groups
          /\ outputs' = [outputs EXCEPT ![h] = outputs'[h]]
          /\ Len(outputs'[h]) = Len(outputs[h]) - 1
          /\ \A k \in 1..Len(outputs'[h]) : outputs'[h][k] = outputs[h][k + 1]
      BY <1>3, PopFrame
    <2>2. ASSUME NEW g \in Groups, NEW i \in DOMAIN outputs'[g], NEW j \in DOMAIN outputs'[g], i < j
          PROVE  outputs'[g][i].raw > outputs'[g][j].raw
      <3>1. CASE g # h
        <4>1. outputs'[g] = outputs[g]
          BY <1>0, <2>1, <3>1
        <4> QED
          BY <2>2, <4>1 DEF NewestFirst
      <3>2. CASE g = h
        <4>1. /\ i \in 1..Len(outputs'[h]) /\ j \in 1..Len(outputs'[h])
              /\ i + 1 \in DOMAIN outputs[h] /\ j + 1 \in DOMAIN outputs[h] /\ i + 1 < j + 1
          BY <1>0, <2>1, <2>2, <3>2
        <4>2. outputs'[h][i] = outputs[h][i + 1] /\ outputs'[h][j] = outputs[h][j + 1]
          BY <2>1, <4>1
        <4> QED
          BY <2>1, <3>2, <4>1, <4>2 DEF NewestFirst
      <3> QED
        BY <3>1, <3>2
    <2> QED
      BY <2>2 DEF NewestFirst
  <1> QED
    BY <1>1, <1>2, <1>3, OutputsShape, StepShape

\* Only a drainer shrinks a list, and no other reader shares its group.
LEMMA FrontStep ==
    ASSUME TypeOK, TypeOK', Phases, Registered, PendingOK, DepthBounded, FrontExists, [Next]_vars
    PROVE  FrontExists'
  <1>0. ReaderGroup \in [Readers -> Groups] /\ outputs \in [Groups -> Seq(Item)]
    BY ReaderAssumption DEF TypeOK
  <1>1. CASE UNCHANGED <<readpc, outputs>>
    BY <1>1 DEF FrontExists
  <1>2. ASSUME NEW r \in Readers, GetCheck(r) PROVE FrontExists'
    BY <1>2 DEF GetCheck, FrontExists, TypeOK
  <1>3. ASSUME NEW r \in Readers, GetFront(r) PROVE FrontExists'
    BY <1>3 DEF GetFront, FrontExists, TypeOK
  <1>4. ASSUME NEW r \in Readers, GetFrontAndPop(r) PROVE FrontExists'
    <2>1. /\ r \in Drainers /\ readpc' = [readpc EXCEPT ![r] = "idle"]
          /\ outputs' = [outputs EXCEPT ![ReaderGroup[r]] = outputs'[ReaderGroup[r]]]
      BY <1>4, PopFrame
    <2>2. ASSUME NEW x \in Readers, readpc'[x] = "front" PROVE outputs'[ReaderGroup[x]] # <<>>
      <3>1. x # r /\ readpc[x] = "front"
        BY <2>1, <2>2 DEF TypeOK
      <3>2. ReaderGroup[x] # ReaderGroup[r]
        BY <2>1, <3>1, ReaderAssumption
      <3>3. outputs'[ReaderGroup[x]] = outputs[ReaderGroup[x]]
        BY <1>0, <2>1, <3>2
      <3> QED
        BY <3>1, <3>3 DEF FrontExists
    <2> QED
      BY <2>2 DEF FrontExists
  <1>5. ASSUME NEW o \in Orders, CallbackStep(o) PROVE FrontExists'
    <2>1. readpc' = readpc
      BY <1>5, CallbackStepFrame DEF readVars
    <2>2. CASE outputs' = outputs
      BY <1>1, <2>1, <2>2
    <2>3. CASE outputs' # outputs
      <3>1. /\ outputs' = [outputs EXCEPT ![GroupOf[o]] = outputs'[GroupOf[o]]]
            /\ Len(outputs'[GroupOf[o]]) \in 1..Depth[GroupOf[o]]
        BY <1>5, <2>3, CallbackStepCaches
      <3>2. outputs'[GroupOf[o]] # <<>>
        <4>1. Depth[GroupOf[o]] \in Nat
          BY LayoutAssumption
        <4>2. Len(outputs'[GroupOf[o]]) # 0
          BY <3>1, <4>1
        <4> QED
          BY <4>2
      <3>3. ASSUME NEW x \in Readers, readpc'[x] = "front" PROVE outputs'[ReaderGroup[x]] # <<>>
        <4>1. CASE ReaderGroup[x] = GroupOf[o]
          BY <3>2, <4>1
        <4>2. CASE ReaderGroup[x] # GroupOf[o]
          <5>1. outputs'[ReaderGroup[x]] = outputs[ReaderGroup[x]]
            BY <1>0, <3>1, <4>2
          <5> QED
            BY <2>1, <3>3, <5>1 DEF FrontExists
        <4> QED
          BY <4>1, <4>2
      <3> QED
        BY <3>3 DEF FrontExists
    <2> QED
      BY <2>2, <2>3
  <1>6. ASSUME NEW o \in Orders, NEW s \in accepted, CallBackInferenceResult(o, s)
        PROVE  UNCHANGED <<readpc, outputs>>
    BY <1>6 DEF CallBackInferenceResult, readVars
  <1>7. ASSUME NEW raw \in Raws, PushBegin(raw) PROVE UNCHANGED <<readpc, outputs>>
    BY <1>7, PushFrame
  <1>8. SetInputStreamCache \/ ClearInputStreamCache \/ StopDone => UNCHANGED <<readpc, outputs>>
    BY RegisterFrame, ClearFrame, StopDoneFrame
  <1>9. PhaseStep => UNCHANGED <<readpc, outputs>>
    BY PhaseFrame
  <1>10. AddImage \/ AddHeadPose \/ UNCHANGED vars => UNCHANGED <<readpc, outputs>>
    BY DEF AddImage, AddHeadPose, readVars, vars
  <1> QED
    BY <1>1, <1>2, <1>3, <1>4, <1>5, <1>6, <1>7, <1>8, <1>9, <1>10 DEF Next, PhaseStep

-----------------------------------------------------------------------------
(* The theorems.                                                           *)

\* The inductive invariant holds before the first Start.
LEMMA InitIInv == Init => IInv
  <1> SUFFICES ASSUME Init PROVE IInv
    OBVIOUS
  <1> USE DEF Init
  <1>1. TypeOK
    <2>1. /\ Idle \in CallbackType
          /\ "stopped" \in ControlStates /\ "idle" \in GraphStates /\ "idle" \in PushStates
      BY CallbackAtType DEF ControlStates, GraphStates, PushStates
    <2>2. \A g \in Groups : <<>> \in Seq(Item)
      OBVIOUS
    <2> QED
      BY <2>1, <2>2 DEF TypeOK, CallbackType
  <1>2. IsFiniteSet(DOMAIN inference) /\ Cardinality(DOMAIN inference) = 0 /\ DOMAIN inference = {}
    BY FS_EmptySet
  <1>3. /\ \A o \in Orders : cb[o].pc = "idle" /\ ~Pending(o)
        /\ \A g \in Groups : DOMAIN outputs[g] = {} /\ Len(outputs[g]) = 0
    BY DEF Idle, Pending
  <1>4. Phases /\ Registered /\ NoRepeat /\ OvertakenIsDead
    BY <1>2, <1>3 DEF Phases, Registered, NoRepeat, OvertakenIsDead, DeadIfOvertaken
  <1>5. PendingOK /\ OnePending /\ ResultsOld /\ PendingNewest
    BY <1>3 DEF PendingOK, PendingItemOK, OnePending, ResultsOld, PendingNewest
  <1>6. LockOK /\ FrontExists
    BY <1>3, LockAssumption DEF LockOK, FrontExists
  <1>7. InferenceBounded
    BY <1>2, SizeAssumption DEF InferenceBounded
  <1>8. DepthBounded /\ OutputsComplete /\ NewestFirst
    BY <1>3, LayoutAssumption DEF DepthBounded, OutputsComplete, NewestFirst
  <1> QED
    BY <1>1, <1>4, <1>5, <1>6, <1>7, <1>8 DEF IInv

\* Every step keeps the inductive invariant.
LEMMA NextIInv == IInv /\ [Next]_vars => IInv'
  <1> SUFFICES ASSUME IInv, [Next]_vars PROVE IInv'
    OBVIOUS
  <1>0. /\ TypeOK /\ Phases /\ Registered /\ NoRepeat /\ PendingOK /\ OnePending /\ ResultsOld
        /\ PendingNewest /\ OvertakenIsDead /\ LockOK /\ InferenceBounded /\ DepthBounded
        /\ OutputsComplete /\ NewestFirst /\ FrontExists
    BY DEF IInv
  <1>1. TypeOK'
    BY <1>0, TypeStep
  <1>2. Phases' /\ Registered' /\ NoRepeat'
    BY <1>0, PhasesStep, RegisteredStep, NoRepeatStep
  <1>3. PendingOK' /\ OnePending'
    BY <1>0, PendingStep, OnePendingStep
  <1>4. ResultsOld' /\ PendingNewest' /\ OvertakenIsDead'
    BY <1>0, <1>1, ResultsStep, PendingNewestStep, OvertakenStep
  <1>5. LockOK' /\ InferenceBounded'
    BY <1>0, LockStep, BoundedStep
  <1>6. DepthBounded' /\ OutputsComplete' /\ NewestFirst' /\ FrontExists'
    BY <1>0, <1>1, DepthStep, CompleteStep, NewestFirstStep, FrontStep
  <1> QED
    BY <1>1, <1>2, <1>3, <1>4, <1>5, <1>6 DEF IInv

\* The inductive invariant holds in every reachable state.
THEOREM Inductive == Spec => []IInv
  BY InitIInv, NextIInv, PTL DEF Spec

\* Every member keeps its type, however the threads interleave.
THEOREM TypeCorrect == Spec => []TypeOK
  <1>1. IInv => TypeOK
    BY DEF IInv
  <1> QED
    BY <1>1, Inductive, PTL

\* SetInputStreamCache keeps m_inference_stream_cache below its global limit.
THEOREM InferenceStaysBounded == Spec => []InferenceBounded
  <1>1. IInv => InferenceBounded
    BY DEF IInv
  <1> QED
    BY <1>1, Inductive, PTL

\* MoveOutputCache keeps every group within its max_depth.
THEOREM DepthStaysBounded == Spec => []DepthBounded
  <1>1. IInv => DepthBounded
    BY DEF IInv
  <1> QED
    BY <1>1, Inductive, PTL

\* What PopResult takes from a group holds a packet of every output of it.
THEOREM ResultsAreComplete == Spec => []OutputsComplete
  <1>1. IInv => OutputsComplete
    BY DEF IInv
  <1> QED
    BY <1>1, Inductive, PTL

\* The output caches stay sorted by time, newest in front, for any number of
\* output streams and any interleaving of their callbacks.
THEOREM NewestIsFirst == Spec => []NewestFirst
  <1>1. IInv => NewestFirst
    BY DEF IInv
  <1> QED
    BY <1>1, Inductive, PTL

\* The unlocked size test of GetOutputStreamCache is safe.
THEOREM FrontIsThere == Spec => []FrontExists
  <1>1. IInv => FrontExists
    BY DEF IInv
  <1> QED
    BY <1>1, Inductive, PTL

\* Once Stop has returned, no step adds a result: StopDone waits for the
\* callbacks, and a callback needs a graph that runs.
THEOREM StoppedIsQuiet == Spec => QuietWhenStopped
  <1>1. IInv /\ [Next]_vars =>
           [control = "stopped" => \A g \in Groups : Len(outputs'[g]) <= Len(outputs[g])]_vars
    <2> SUFFICES ASSUME IInv, [Next]_vars, control = "stopped", NEW g \in Groups
                 PROVE  Len(outputs'[g]) <= Len(outputs[g])
      OBVIOUS
    <2>0. TypeOK /\ Phases /\ Registered /\ FrontExists
      BY DEF IInv
    <2>1. \A o \in Orders : cb[o].pc = "idle"
      BY <2>0 DEF Phases
    <2>2. outputs \in [Groups -> Seq(Item)] /\ Len(outputs[g]) \in Nat
      BY <2>0 DEF TypeOK
    <2>3. ASSUME NEW o \in Orders, CallbackStep(o) PROVE FALSE
      BY <2>0, <2>1, <2>3, CallbackStepFrame
    <2>4. ASSUME NEW r \in Readers, GetFrontAndPop(r) PROVE Len(outputs'[g]) <= Len(outputs[g])
      <3>1. /\ outputs' = [outputs EXCEPT ![ReaderGroup[r]] = outputs'[ReaderGroup[r]]]
            /\ Len(outputs'[ReaderGroup[r]]) = Len(outputs[ReaderGroup[r]]) - 1
        BY <2>0, <2>4, PopFrame
      <3>2. CASE g = ReaderGroup[r]
        BY <2>2, <3>1, <3>2
      <3>3. CASE g # ReaderGroup[r]
        <4>1. outputs'[g] = outputs[g]
          BY <2>2, <3>1, <3>3
        <4> QED
          BY <2>2, <4>1
      <3> QED
        BY <3>2, <3>3
    <2>5. CASE outputs' = outputs
      BY <2>2, <2>5
    <2> QED
      BY <2>0, <2>3, <2>4, <2>5, OutputsShape, StepShape
  <1> QED
    BY <1>1, Inductive, PTL DEF Spec, QuietWhenStopped

-----------------------------------------------------------------------------
(* The output cache implements the register of module LatestResult.        *)

\* The groups somebody watches.
Watched == {ReaderGroup[r] : r \in Watchers}

\* A group with a watcher has no drainer.
LEMMA WatchFacts ==
    /\ Watchers \subseteq Readers /\ Watched \subseteq Groups
    /\ \A r \in Watchers : r \notin Drainers /\ ReaderGroup[r] \in Watched
    /\ \A d \in Drainers : ReaderGroup[d] \notin Watched
  BY ReaderAssumption DEF Watchers, Watched

\* A callback publishes a newer result.
LEMMA PublishStep ==
    ASSUME IInv, IInv', NEW o \in Orders, CallbackStep(o), outputs' # outputs
    PROVE  LET h == GroupOf[o] IN
           /\ h \in Groups /\ got' = got
           /\ Newest(h)' \in Nat /\ Newest(h)' > Newest(h)
           /\ \A g \in Groups \ {h} : Newest(g)' = Newest(g)
  <1> DEFINE h == GroupOf[o]
  <1>0. TypeOK /\ TypeOK' /\ PendingOK /\ PendingNewest /\ DepthBounded
    BY DEF IInv
  <1>1. h \in Groups /\ got' = got
    BY <1>0, CallbackStepFrame, LayoutAssumption DEF readVars
  <1>2. /\ Pending(o)
        /\ outputs' = [outputs EXCEPT ![h] = outputs'[h]]
        /\ Len(outputs'[h]) \in 1..Depth[h]
        /\ outputs'[h][1] = cb[o].item
    BY <1>0, CallbackStepCaches
  <1>3. cb[o].item \in Item /\ cb[o].item.raw \in Nat /\ cb[o].item.raw > 0
    <2>1. cb[o].item \in Item
      BY <1>0, <1>2 DEF PendingOK, PendingItemOK
    <2> QED
      BY <2>1, StampFacts DEF Item
  <1>4. Newest(h)' = cb[o].item.raw
    <2>1. outputs'[h] # <<>>
      <3>1. Depth[h] \in Nat
        BY <1>1, LayoutAssumption
      <3>2. Len(outputs'[h]) # 0
        BY <1>2, <3>1
      <3> QED
        BY <3>2
    <2> QED
      BY <1>2, <2>1 DEF Newest
  <1>5. Newest(h) < cb[o].item.raw
    <2>1. CASE outputs[h] = <<>>
      BY <1>3, <2>1 DEF Newest
    <2>2. CASE outputs[h] # <<>>
      <3>1. 1 \in DOMAIN outputs[h]
        BY <1>0, <1>1, <2>2 DEF TypeOK
      <3> QED
        BY <1>0, <1>2, <2>2, <3>1 DEF PendingNewest, Newest
    <2> QED
      BY <2>1, <2>2
  <1>6. Newest(h) \in Nat
    <2>1. CASE outputs[h] = <<>>
      BY <2>1 DEF Newest
    <2>2. CASE outputs[h] # <<>>
      <3>1. outputs[h][1] \in Item
        BY <1>0, <1>1, <2>2, HeadFacts DEF TypeOK
      <3> QED
        BY <2>2, <3>1, StampFacts DEF Newest, Item
    <2> QED
      BY <2>1, <2>2
  <1>7. ASSUME NEW g \in Groups \ {h} PROVE Newest(g)' = Newest(g)
    <2>1. outputs'[g] = outputs[g]
      BY <1>0, <1>2, <1>7 DEF TypeOK
    <2> QED
      BY <2>1 DEF Newest
  <1> QED
    BY <1>1, <1>3, <1>4, <1>5, <1>6, <1>7

\* A read of a group that nobody drains returns its newest result.
LEMMA ReadStep ==
    ASSUME IInv, NEW r \in Readers, GetFront(r)
    PROVE  /\ outputs' = outputs
           /\ Newest(ReaderGroup[r]) # 0
           /\ got' = [got EXCEPT ![r] = Newest(ReaderGroup[r])]
  <1> DEFINE g == ReaderGroup[r]
  <1>1. /\ g \in Groups /\ outputs[g] \in Seq(Item) /\ outputs[g] # <<>>
    BY ReaderAssumption DEF GetFront, FrontExists, TypeOK, IInv
  <1>2. Head(outputs[g]) = outputs[g][1] /\ outputs[g][1] \in Item
    BY <1>1, HeadFacts
  <1>3. Newest(g) = Head(outputs[g]).raw
    BY <1>1, <1>2 DEF Newest
  <1>4. Newest(g) # 0
    BY <1>2, <1>3, StampFacts DEF Item
  <1> QED
    BY <1>3, <1>4 DEF GetFront

\* Only three kinds of steps touch what the readers see.
LEMMA ReadersView ==
    ASSUME IInv, [Next]_vars
    PROVE  \/ UNCHANGED <<outputs, got>>
           \/ \E o \in Orders : CallbackStep(o) /\ outputs' # outputs
           \/ \E r \in Readers : GetFront(r)
           \/ \E r \in Readers : GetFrontAndPop(r)
  <1>0. TypeOK /\ Phases /\ Registered
    BY DEF IInv
  <1>1. ASSUME NEW o \in Orders, CallbackStep(o) PROVE got' = got
    BY <1>0, <1>1, CallbackStepFrame DEF readVars
  <1>2. ASSUME NEW o \in Orders, NEW s \in accepted, CallBackInferenceResult(o, s)
        PROVE  UNCHANGED <<outputs, got>>
    BY <1>2 DEF CallBackInferenceResult, readVars
  <1>3. ASSUME NEW raw \in Raws, PushBegin(raw) PROVE UNCHANGED <<outputs, got>>
    BY <1>3 DEF PushBegin, readVars
  <1>4. SetInputStreamCache \/ ClearInputStreamCache => UNCHANGED <<outputs, got>>
    BY <1>0, RegisterFrame, ClearFrame
  <1>5. PhaseStep => UNCHANGED <<outputs, got>>
    BY PhaseFrame
  <1>6. AddImage \/ AddHeadPose \/ StopDone \/ UNCHANGED vars => UNCHANGED <<outputs, got>>
    BY DEF AddImage, AddHeadPose, StopDone, readVars, vars
  <1>7. ASSUME NEW r \in Readers, GetCheck(r) PROVE UNCHANGED <<outputs, got>>
    BY <1>7 DEF GetCheck
  <1> QED
    BY <1>1, <1>2, <1>3, <1>4, <1>5, <1>6, <1>7 DEF Next, PhaseStep

\* PopResult sees a register that only moves forward in time, for every
\* layout, policy and interleaving.
THEOREM Refinement == Spec => ImplementsLatest
  <1> DEFINE latest == [g \in Watched |-> Newest(g)]
             seen == [r \in Watchers |-> got[r]]
  <1>1. Init => Latest!Init
    <2> SUFFICES ASSUME Init PROVE Latest!Init
      OBVIOUS
    <2>1. \A g \in Groups : Newest(g) = 0
      BY DEF Init, Newest
    <2>2. \A r \in Watchers : got[r] = 0
      BY WatchFacts DEF Init
    <2> QED
      BY <2>1, <2>2, WatchFacts DEF Latest!Init, Watched
  <1>2. IInv /\ IInv' /\ [Next]_vars => [Latest!Next]_<<latest, seen>>
    <2> SUFFICES ASSUME IInv, IInv', [Next]_vars
                 PROVE  Latest!Next \/ UNCHANGED <<latest, seen>>
      OBVIOUS
    <2>1. CASE UNCHANGED <<outputs, got>>
      BY <2>1 DEF Newest
    <2>2. ASSUME NEW o \in Orders, CallbackStep(o), outputs' # outputs
          PROVE  Latest!Next \/ UNCHANGED <<latest, seen>>
      <3> DEFINE h == GroupOf[o]
      <3>1. /\ h \in Groups /\ got' = got
            /\ Newest(h)' \in Nat /\ Newest(h)' > Newest(h)
            /\ \A g \in Groups \ {h} : Newest(g)' = Newest(g)
        BY <2>2, PublishStep
      <3>2. CASE h \in Watched
        <4>1. latest' = [latest EXCEPT ![h] = Newest(h)'] /\ seen' = seen
          BY <3>1, <3>2, WatchFacts
        <4>2. latest'[h] = Newest(h)' /\ latest[h] = Newest(h)
          BY <3>2
        <4>3. Latest!Publish(h)
          BY <3>1, <4>1, <4>2 DEF Latest!Publish, Watched
        <4> QED
          BY <3>2, <4>3 DEF Latest!Next, Watched
      <3>3. CASE h \notin Watched
        BY <3>1, <3>3, WatchFacts
      <3> QED
        BY <3>2, <3>3
    <2>3. ASSUME NEW r \in Readers, GetFront(r)
          PROVE  Latest!Next \/ UNCHANGED <<latest, seen>>
      <3>1. /\ outputs' = outputs
            /\ Newest(ReaderGroup[r]) # 0
            /\ got' = [got EXCEPT ![r] = Newest(ReaderGroup[r])]
        BY <2>3, ReadStep
      <3>2. latest' = latest
        BY <3>1 DEF Newest
      <3>3. got \in [Readers -> Raws \cup {0}]
        BY DEF IInv, TypeOK
      <3>4. CASE r \in Watchers
        <4>1. /\ seen' = [seen EXCEPT ![r] = Newest(ReaderGroup[r])]
              /\ latest[ReaderGroup[r]] = Newest(ReaderGroup[r])
          BY <3>1, <3>3, <3>4, WatchFacts
        <4>2. Latest!Read(r)
          BY <3>1, <3>2, <3>4, <4>1 DEF Latest!Read, Watched
        <4> QED
          BY <3>4, <4>2 DEF Latest!Next
      <3>5. CASE r \notin Watchers
        BY <3>1, <3>2, <3>3, <3>5, WatchFacts
      <3> QED
        BY <3>4, <3>5
    <2>4. ASSUME NEW r \in Readers, GetFrontAndPop(r) PROVE UNCHANGED <<latest, seen>>
      <3>0. TypeOK /\ FrontExists
        BY DEF IInv
      <3>1. /\ r \in Drainers
            /\ outputs' = [outputs EXCEPT ![ReaderGroup[r]] = outputs'[ReaderGroup[r]]]
        BY <2>4, <3>0, PopFrame
      <3>2. ASSUME NEW g \in Watched PROVE Newest(g)' = Newest(g)
        <4>1. g \in Groups /\ g # ReaderGroup[r]
          BY <3>1, WatchFacts
        <4>2. outputs'[g] = outputs[g]
          BY <3>0, <3>1, <4>1 DEF TypeOK
        <4> QED
          BY <4>2 DEF Newest
      <3>3. ASSUME NEW w \in Watchers PROVE got'[w] = got[w]
        <4>1. w # r /\ w \in Readers
          BY <3>1, WatchFacts
        <4> QED
          BY <2>4, <3>0, <4>1 DEF GetFrontAndPop, TypeOK
      <3> QED
        BY <3>2, <3>3
    <2> QED
      BY <2>1, <2>2, <2>3, <2>4, ReadersView
  <1> QED
    BY <1>1, <1>2, Inductive, PTL DEF Spec, ImplementsLatest, Latest!Spec, Watched
=============================================================================
