---------------------- MODULE HandTrackingXGraphProofs ----------------------
(***************************************************************************)
(* Proofs about the recording mode of HandTrackingXGraph.  It uses the     *)
(* caches as BaseXGraph allows, so that the theorems of BaseXGraphProofs   *)
(* hold of it, and its PopExecInfo keeps order.                            *)
(***************************************************************************)
EXTENDS HandTrackingXGraph, BaseXGraphProofs, WellFoundedInduction

\* The camera thread tracks frames in the order of their timestamps.
CameraOrder ==
    /\ totrack # 0 => totrack = camraw
    /\ \A f \in tracked : f <= camraw /\ (totrack # 0 => f < totrack)

\* Until it is erased, the target of PopExecInfo is the oldest owed frame.
TargetOldest ==
    execpc \in {"pop", "popping", "erase", "busy"} /\ target \in Raws =>
        /\ target \in tracked
        /\ \A f \in tracked : target <= f

\* The record PopExecInfo saw is in front, or a newer one is.
FrontNotOlder ==
    /\ execpc = "target" =>
          got[Exporter] # 0 /\ Newest(RecordGroup) >= got[Exporter]
    /\ execpc \in {"pop", "popping"} =>
          Newest(RecordGroup) # 0 /\ Newest(RecordGroup) >= target

\* The frames that are tracked or about to be.
Owed == tracked \cup ({totrack} \ {0})

\* The camera has delivered frame x, and x is owed, or older than all that is.
Settled(x) ==
    /\ x <= camraw
    /\ x \in Owed \/ \A k \in Owed : x < k

\* No frame in the caches is forgotten out of its turn.
CachesSettled ==
    /\ \A s \in DOMAIN inference : Settled(inference[s].raw)
    /\ \A o \in Orders : Pending(o) => Settled(cb[o].item.raw)
    /\ \A g \in Groups : \A i \in DOMAIN outputs[g] : Settled(outputs[g][i].raw)

\* The frame in PushData is the one that will be tracked.
PushTracked ==
    /\ pushraw <= camraw
    /\ pushpc # "idle" => totrack = pushraw

\* PopExecInfo exports camera frames only.
TargetIsFrame == execpc \in {"pop", "popping", "erase"} => target \in Raws

HTInv ==
    /\ IInv
    /\ HTTypeOK
    /\ CameraOrder
    /\ TargetOldest
    /\ FrontNotOlder
    /\ CachesSettled
    /\ PushTracked
    /\ TargetIsFrame
    /\ TakenIsOwed

-----------------------------------------------------------------------------
\* Min is the first key of a std::map: a member below all others.
LEMMA MinFacts ==
    ASSUME NEW S, S \subseteq Nat, S # {}
    PROVE  Min(S) \in S /\ \A y \in S : Min(S) <= y
  <1> DEFINE R == OpToRel(<, Nat)
  <1>1. IsWellFoundedOn(R, Nat)
    BY NatLessThanWellFounded, Zenon
  <1>2. \A y \in S, x \in S : <<y, x>> \in R <=> y < x
    BY DEF OpToRel
  <1> HIDE DEF R
  <1>3. PICK x \in S : \A y \in S : ~(<<y, x>> \in R)
    BY <1>1, WFMin
  <1>4. \A y \in S : ~(y < x)
    BY <1>2, <1>3
  <1>5. \A y \in S : x <= y
    BY <1>4
  <1> QED
    BY <1>5 DEF Min

\* Every step of the recording pipeline is one of BaseXGraph, or leaves its
\* caches alone.
LEMMA BaseStep ==
    ASSUME [HTNext]_htVars
    PROVE  [Next]_vars
  <1>0. Exporter \in Readers
    BY ExportAssumption
  <1>1. CASE GraphStep
    BY <1>1 DEF GraphStep, Next
  <1>2. ASSUME NEW raw \in Raws, ParseAllCameraData(raw) PROVE Next
    BY <1>2 DEF ParseAllCameraData, Next
  <1>3. CASE PluginStop
    BY <1>3 DEF PluginStop, Next
  <1>4. CASE ExecCheck \/ ExecGet \/ ExecPopCheck \/ ExecPop
    BY <1>0, <1>4 DEF ExecCheck, ExecGet, ExecPopCheck, ExecPop, Next
  <1>5. ASSUME NEW raw \in Raws, MemFullDrop(raw) PROVE UNCHANGED vars
    BY <1>5 DEF MemFullDrop
  <1>6. CASE SetTrackFrameState \/ ExecTarget \/ ExecErase
    BY <1>6 DEF SetTrackFrameState, ExecTarget, ExecErase
  <1>7. CASE UNCHANGED htVars
    BY <1>7 DEF htVars
  <1> QED
    BY <1>1, <1>2, <1>3, <1>4, <1>5, <1>6, <1>7 DEF HTNext

\* The recording pipeline implements BaseXGraph, and with it everything the
\* module BaseXGraphProofs shows.
THEOREM RecordingImplementsBase == HTSpec => ImplementsBase
  <1>1. HTInit => Init
    BY DEF HTInit
  <1> QED
    BY <1>1, BaseStep, PTL DEF HTSpec, Spec, ImplementsBase

-----------------------------------------------------------------------------
\* The front of the records, where nobody else drains them.
LEMMA NewestFacts ==
    ASSUME IInv
    PROVE  /\ RecordGroup \in Groups /\ Exporter \in Readers
           /\ ReaderGroup[Exporter] = RecordGroup
           /\ Newest(RecordGroup) \in Nat
           /\ Newest(RecordGroup) # 0 =>
                 /\ outputs[RecordGroup] # <<>>
                 /\ Head(outputs[RecordGroup]).raw = Newest(RecordGroup)
  <1>1. RecordGroup \in Groups /\ Exporter \in Readers /\ ReaderGroup[Exporter] = RecordGroup
    BY ExportAssumption, ReaderAssumption
  <1>2. outputs[RecordGroup] \in Seq(Item)
    BY <1>1 DEF IInv, TypeOK
  <1>3. CASE outputs[RecordGroup] = <<>>
    BY <1>1, <1>3 DEF Newest
  <1>4. CASE outputs[RecordGroup] # <<>>
    <2>1. /\ Head(outputs[RecordGroup]) = outputs[RecordGroup][1]
          /\ outputs[RecordGroup][1] \in Item
      BY <1>2, <1>4, HeadFacts
    <2>2. outputs[RecordGroup][1].raw \in Nat
      BY <2>1, StampFacts DEF Item
    <2>3. Newest(RecordGroup) = outputs[RecordGroup][1].raw
      BY <1>4 DEF Newest
    <2> QED
      BY <1>1, <1>4, <2>1, <2>2, <2>3
  <1> QED
    BY <1>3, <1>4

\* The same in the next state.
LEMMA NewestNext == IInv' => Newest(RecordGroup)' \in Nat
  <1> SUFFICES ASSUME IInv' PROVE Newest(RecordGroup)' \in Nat
    OBVIOUS
  <1>1. RecordGroup \in Groups
    BY ExportAssumption, ReaderAssumption
  <1>2. outputs'[RecordGroup] \in Seq(Item)
    BY <1>1 DEF IInv, TypeOK
  <1>3. outputs'[RecordGroup] # <<>> => outputs'[RecordGroup][1] \in Item
    BY <1>2, HeadFacts
  <1>4. outputs'[RecordGroup] # <<>> => outputs'[RecordGroup][1].raw \in Nat
    BY <1>3, StampFacts DEF Item
  <1> QED
    BY <1>4 DEF Newest

\* A step of the graph or of a hand reader leaves the exporter alone, and the
\* records get newer at most.
LEMMA GraphStepFrame ==
    ASSUME HTInv, IInv', GraphStep
    PROVE  /\ readpc'[Exporter] = readpc[Exporter]
           /\ got'[Exporter] = got[Exporter]
           /\ Newest(RecordGroup)' >= Newest(RecordGroup)
           /\ UNCHANGED <<camraw, totrack, tracked, execpc, target>>
  <1>0. /\ IInv /\ TypeOK /\ Phases /\ Registered
        /\ RecordGroup \in Groups /\ Exporter \in Readers
        /\ Newest(RecordGroup) \in Nat
    BY NewestFacts DEF HTInv, IInv
  <1>1. readpc \in [Readers -> {"idle", "front"}] /\ got \in [Readers -> Raws \cup {0}]
    BY <1>0 DEF TypeOK
  <1>2. UNCHANGED <<camraw, totrack, tracked, execpc, target>>
    BY DEF GraphStep, trackVars, execVars
  <1>3. ASSUME UNCHANGED <<outputs, got, readpc>>
        PROVE  /\ readpc'[Exporter] = readpc[Exporter]
               /\ got'[Exporter] = got[Exporter]
               /\ Newest(RecordGroup)' >= Newest(RecordGroup)
    BY <1>0, <1>3 DEF Newest
  <1>4. CASE StartRun \/ StartFinish \/ StopClose \/ StopDone \/ AddImage \/ AddHeadPose
    <2>1. UNCHANGED <<outputs, got, readpc>>
      BY <1>4 DEF StartRun, StartFinish, StopClose, StopDone, AddImage, AddHeadPose, readVars
    <2> QED
      BY <1>2, <1>3, <2>1
  <1>5. CASE SetInputStreamCache \/ ClearInputStreamCache
    <2>1. UNCHANGED <<outputs, got, readpc>>
      BY <1>5 DEF SetInputStreamCache, ClearInputStreamCache, readVars
    <2> QED
      BY <1>2, <1>3, <2>1
  <1>6. ASSUME NEW o \in Orders, NEW s \in accepted, CallBackInferenceResult(o, s)
        PROVE  UNCHANGED <<outputs, got, readpc>>
    BY <1>6 DEF CallBackInferenceResult, readVars
  <1>7. ASSUME NEW o \in Orders, CallbackStep(o)
        PROVE  /\ readpc'[Exporter] = readpc[Exporter]
               /\ got'[Exporter] = got[Exporter]
               /\ Newest(RecordGroup)' >= Newest(RecordGroup)
    <2>1. UNCHANGED <<got, readpc>>
      BY <1>0, <1>7, CallbackStepFrame DEF readVars
    <2>2. CASE outputs' = outputs
      BY <1>3, <2>1, <2>2
    <2>3. CASE outputs' # outputs
      <3>1. /\ GroupOf[o] \in Groups
            /\ Newest(GroupOf[o])' \in Nat /\ Newest(GroupOf[o])' > Newest(GroupOf[o])
            /\ \A g \in Groups \ {GroupOf[o]} : Newest(g)' = Newest(g)
        BY <1>0, <1>7, <2>3, PublishStep
      <3>2. Newest(RecordGroup)' >= Newest(RecordGroup)
        <4>1. CASE RecordGroup = GroupOf[o]
          BY <1>0, <3>1, <4>1
        <4>2. CASE RecordGroup # GroupOf[o]
          BY <1>0, <3>1, <4>2
        <4> QED
          BY <4>1, <4>2
      <3> QED
        BY <2>1, <3>2
    <2> QED
      BY <2>2, <2>3
  <1>8. ASSUME NEW r \in Readers \ {Exporter}, GetCheck(r) \/ GetFront(r)
        PROVE  /\ readpc'[Exporter] = readpc[Exporter]
               /\ got'[Exporter] = got[Exporter]
               /\ Newest(RecordGroup)' >= Newest(RecordGroup)
    <2>1. outputs' = outputs
      BY <1>8 DEF GetCheck, GetFront
    <2>2. readpc'[Exporter] = readpc[Exporter] /\ got'[Exporter] = got[Exporter]
      BY <1>0, <1>1, <1>8 DEF GetCheck, GetFront
    <2>3. Newest(RecordGroup)' = Newest(RecordGroup)
      BY <2>1 DEF Newest
    <2> QED
      BY <1>0, <2>2, <2>3
  <1> QED
    BY <1>2, <1>3, <1>4, <1>5, <1>6, <1>7, <1>8 DEF GraphStep

\* What the exporter's own steps do to its place in GetOutputStreamCache.
LEMMA ExporterFrame ==
    ASSUME HTInv
    PROVE  /\ GetCheck(Exporter) =>
                 /\ readpc'[Exporter] = "front" /\ UNCHANGED <<outputs, got>>
           /\ GetFront(Exporter) =>
                 /\ readpc'[Exporter] = "idle" /\ outputs' = outputs
                 /\ got'[Exporter] = Newest(RecordGroup) /\ Newest(RecordGroup) # 0
           /\ GetFrontAndPop(Exporter) => readpc'[Exporter] = "idle"
  <1>0. /\ IInv /\ TypeOK /\ Exporter \in Readers /\ ReaderGroup[Exporter] = RecordGroup
    BY NewestFacts DEF HTInv, IInv
  <1>1. readpc \in [Readers -> {"idle", "front"}] /\ got \in [Readers -> Raws \cup {0}]
    BY <1>0 DEF TypeOK
  <1>2. GetCheck(Exporter) => readpc'[Exporter] = "front" /\ UNCHANGED <<outputs, got>>
    BY <1>0, <1>1 DEF GetCheck
  <1>3. ASSUME GetFront(Exporter)
        PROVE  /\ readpc'[Exporter] = "idle" /\ outputs' = outputs
               /\ got'[Exporter] = Newest(RecordGroup) /\ Newest(RecordGroup) # 0
    <2>1. /\ outputs' = outputs /\ Newest(RecordGroup) # 0
          /\ got' = [got EXCEPT ![Exporter] = Newest(RecordGroup)]
      BY <1>0, <1>3, ReadStep
    <2>2. readpc' = [readpc EXCEPT ![Exporter] = "idle"]
      BY <1>3 DEF GetFront
    <2> QED
      BY <1>0, <1>1, <2>1, <2>2
  <1>4. GetFrontAndPop(Exporter) => readpc'[Exporter] = "idle"
    BY <1>0, <1>1 DEF GetFrontAndPop
  <1> QED
    BY <1>2, <1>3, <1>4

\* The camera thread leaves the exporter alone.
LEMMA CameraFrame ==
    ASSUME \/ \E raw \in Raws : ParseAllCameraData(raw)
           \/ \E raw \in Raws : MemFullDrop(raw)
           \/ SetTrackFrameState
           \/ PluginStop
    PROVE  UNCHANGED <<readpc, got, outputs, execpc, target>>
  <1>1. ASSUME NEW raw \in Raws, ParseAllCameraData(raw)
        PROVE  UNCHANGED <<readpc, got, outputs, execpc, target>>
    BY <1>1 DEF ParseAllCameraData, PushBegin, readVars, execVars
  <1>2. ASSUME NEW raw \in Raws, MemFullDrop(raw)
        PROVE  UNCHANGED <<readpc, got, outputs, execpc, target>>
    BY <1>2 DEF MemFullDrop, vars, execVars
  <1>3. SetTrackFrameState => UNCHANGED <<readpc, got, outputs, execpc, target>>
    BY DEF SetTrackFrameState, vars, execVars
  <1>4. PluginStop => UNCHANGED <<readpc, got, outputs, execpc, target>>
    BY DEF PluginStop, StopFlag, readVars, execVars
  <1> QED
    BY <1>1, <1>2, <1>3, <1>4

\* The exporter leaves the camera's variables alone, but for the erasure.
LEMMA ExecFrame ==
    /\ ExecCheck \/ ExecGet \/ ExecTarget \/ ExecPopCheck \/ ExecPop =>
          UNCHANGED <<camraw, totrack, tracked>>
    /\ ExecErase => UNCHANGED <<camraw, totrack>> /\ tracked' = tracked \ {target}
    /\ ExecCheck \/ ExecGet \/ ExecPopCheck \/ ExecPop \/ ExecErase => target' = target
    /\ ExecTarget \/ ExecErase => UNCHANGED <<readpc, got, outputs>>
  BY DEF ExecCheck, ExecGet, ExecTarget, ExecPopCheck, ExecPop, ExecErase, trackVars, vars

\* The target is one of the owed frames, or no frame at all.
LEMMA TargetFacts ==
    ASSUME HTInv, ExecTarget
    PROVE  /\ execpc = "target"
           /\ target' \in Nat
           /\ target' \in Raws => target' \in tracked /\ \A f \in tracked : target' <= f
           /\ target' \in Raws \cup Garbage
           /\ execpc' \in {"idle", "pop", "busy"}
           /\ execpc' = "pop" => target' = got[Exporter]
  <1>1. /\ tracked \subseteq Nat /\ tracked \subseteq Raws /\ Garbage \subseteq Nat \ Raws
        /\ Exporter \in Readers /\ got[Exporter] \in Nat
    BY ExportAssumption, SizeAssumption DEF HTInv, HTTypeOK, TypeOK
  <1>2. /\ target' \in Nat
        /\ target' \in Raws => target' \in tracked /\ \A f \in tracked : target' <= f
        /\ target' \in Raws \cup Garbage
    <2>1. CASE tracked = {}
      BY <1>1, <2>1 DEF ExecTarget
    <2>2. CASE tracked # {}
      <3>1. Min(tracked) \in tracked /\ \A f \in tracked : Min(tracked) <= f
        BY <1>1, <2>2, MinFacts
      <3>2. target' = Min(tracked)
        BY <2>2 DEF ExecTarget
      <3> QED
        BY <1>1, <3>1, <3>2
    <2> QED
      BY <2>1, <2>2
  <1>3. execpc = "target" /\ execpc' = Outcome(got[Exporter], target')
    BY DEF ExecTarget
  <1>4. got[Exporter] < target' \/ got[Exporter] = target' \/ got[Exporter] > target'
    BY <1>1, <1>2
  <1>5. CASE got[Exporter] < target'
    <2>1. ~(got[Exporter] = target') /\ ~(got[Exporter] > target')
      BY <1>1, <1>2, <1>5
    <2>2. execpc' = "idle"
      BY <1>3, <1>5, <2>1 DEF Outcome
    <2> QED
      BY <1>2, <1>3, <2>2
  <1>6. CASE got[Exporter] = target'
    <2>1. ~(got[Exporter] < target') /\ ~(got[Exporter] > target')
      BY <1>1, <1>2, <1>6
    <2>2. execpc' = "pop"
      BY <1>3, <1>6, <2>1 DEF Outcome
    <2> QED
      BY <1>2, <1>3, <1>6, <2>2
  <1>7. CASE got[Exporter] > target'
    <2>1. ~(got[Exporter] < target') /\ ~(got[Exporter] = target')
      BY <1>1, <1>2, <1>7
    <2>2. execpc' = "busy"
      BY <1>3, <1>7, <2>1 DEF Outcome
    <2> QED
      BY <1>2, <1>3, <2>2
  <1> QED
    BY <1>4, <1>5, <1>6, <1>7

-----------------------------------------------------------------------------
(* Every step preserves the invariant.                                     *)

\* The types, and the exporter's place in GetOutputStreamCache.
LEMMA HTTypeStep ==
    ASSUME HTInv, IInv', [HTNext]_htVars
    PROVE  HTTypeOK'
  <1>0. /\ camraw \in Raws \cup {0} /\ totrack \in Raws \cup {0} /\ tracked \subseteq Raws
        /\ execpc \in ExecStates /\ target \in Raws \cup Garbage \cup {0}
        /\ readpc[Exporter] = "front" <=> execpc \in {"get", "popping"}
        /\ TypeOK'
    BY DEF HTInv, HTTypeOK, IInv
  <1>1. CASE GraphStep
    <2>1. /\ readpc'[Exporter] = readpc[Exporter]
          /\ UNCHANGED <<camraw, totrack, tracked, execpc, target>>
      BY <1>1, GraphStepFrame
    <2> QED
      BY <1>0, <2>1 DEF HTTypeOK
  <1>2. ASSUME NEW raw \in Raws, ParseAllCameraData(raw) PROVE HTTypeOK'
    <2>1. UNCHANGED <<readpc, execpc, target>>
      BY <1>2, CameraFrame
    <2>2. camraw' = raw /\ totrack' = raw /\ tracked' = tracked
      BY <1>2 DEF ParseAllCameraData
    <2> QED
      BY <1>0, <2>1, <2>2 DEF HTTypeOK
  <1>3. ASSUME NEW raw \in Raws, MemFullDrop(raw) PROVE HTTypeOK'
    <2>1. UNCHANGED <<readpc, execpc, target>>
      BY <1>3, CameraFrame
    <2>2. camraw' = raw /\ totrack' = totrack /\ tracked' = tracked \cup {raw}
      BY <1>3 DEF MemFullDrop
    <2> QED
      BY <1>0, <2>1, <2>2 DEF HTTypeOK
  <1>4. CASE SetTrackFrameState
    <2>1. UNCHANGED <<readpc, execpc, target>>
      BY <1>4, CameraFrame
    <2>2. camraw' = camraw /\ totrack' = 0 /\ tracked' = tracked \cup {totrack} /\ totrack # 0
      BY <1>4 DEF SetTrackFrameState
    <2> QED
      BY <1>0, <2>1, <2>2 DEF HTTypeOK
  <1>5. CASE PluginStop
    <2>1. UNCHANGED <<readpc, execpc, target>>
      BY <1>5, CameraFrame
    <2>2. UNCHANGED <<camraw, totrack, tracked>>
      BY <1>5 DEF PluginStop, trackVars
    <2> QED
      BY <1>0, <2>1, <2>2 DEF HTTypeOK
  <1>6. CASE ExecCheck \/ ExecPopCheck
    <2>1. readpc'[Exporter] = "front"
      BY <1>6, ExporterFrame DEF ExecCheck, ExecPopCheck
    <2>2. execpc' \in {"get", "popping"}
      BY <1>6 DEF ExecCheck, ExecPopCheck
    <2>3. UNCHANGED <<camraw, totrack, tracked, target>>
      BY <1>6, ExecFrame
    <2> QED
      BY <1>0, <2>1, <2>2, <2>3 DEF HTTypeOK, ExecStates
  <1>7. CASE ExecGet \/ ExecPop
    <2>1. readpc'[Exporter] = "idle"
      BY <1>7, ExporterFrame DEF ExecGet, ExecPop
    <2>2. execpc' \in {"target", "erase"}
      BY <1>7 DEF ExecGet, ExecPop
    <2>3. UNCHANGED <<camraw, totrack, tracked, target>>
      BY <1>7, ExecFrame
    <2> QED
      BY <1>0, <2>1, <2>2, <2>3 DEF HTTypeOK, ExecStates
  <1>8. CASE ExecTarget
    <2>1. UNCHANGED <<camraw, totrack, tracked, readpc>>
      BY <1>8, ExecFrame
    <2>2. execpc = "target" /\ execpc' \in {"idle", "pop", "busy"} /\ target' \in Raws \cup Garbage
      BY <1>8, TargetFacts
    <2> QED
      BY <1>0, <2>1, <2>2 DEF HTTypeOK, ExecStates
  <1>9. CASE ExecErase
    <2>1. UNCHANGED <<camraw, totrack, target, readpc>> /\ tracked' = tracked \ {target}
      BY <1>9, ExecFrame
    <2>2. execpc \in {"erase", "busy"} /\ execpc' = "idle"
      BY <1>9 DEF ExecErase
    <2> QED
      BY <1>0, <2>1, <2>2 DEF HTTypeOK, ExecStates
  <1>10. CASE UNCHANGED htVars
    <2>1. UNCHANGED <<camraw, totrack, tracked, execpc, target, readpc>>
      BY <1>10 DEF htVars, vars
    <2> QED
      BY <1>0, <2>1 DEF HTTypeOK
  <1> QED
    BY <1>1, <1>2, <1>3, <1>4, <1>5, <1>6, <1>7, <1>8, <1>9, <1>10 DEF HTNext

\* The order of the tracked frames, and the place of the target in it.
LEMMA OrderStep ==
    ASSUME HTInv, [HTNext]_htVars, IInv'
    PROVE  CameraOrder' /\ TargetOldest'
  <1>0. /\ camraw \in Nat /\ totrack \in Nat /\ tracked \subseteq Nat /\ target \in Nat
        /\ Raws \subseteq Nat /\ 0 \notin Raws
        /\ CameraOrder /\ TargetOldest
    BY ExportAssumption, SizeAssumption DEF HTInv, HTTypeOK
  <1>1. CASE UNCHANGED <<camraw, totrack, tracked, execpc, target>>
    BY <1>0, <1>1 DEF CameraOrder, TargetOldest
  <1>2. ASSUME NEW raw \in Raws, ParseAllCameraData(raw) PROVE CameraOrder' /\ TargetOldest'
    <2>1. UNCHANGED <<execpc, target>>
      BY <1>2, CameraFrame
    <2>2. camraw' = raw /\ totrack' = raw /\ tracked' = tracked /\ raw > camraw
      BY <1>2 DEF ParseAllCameraData
    <2> QED
      BY <1>0, <2>1, <2>2 DEF CameraOrder, TargetOldest
  <1>3. ASSUME NEW raw \in Raws, MemFullDrop(raw) PROVE CameraOrder' /\ TargetOldest'
    <2>1. UNCHANGED <<execpc, target>>
      BY <1>3, CameraFrame
    <2>2. /\ camraw' = raw /\ totrack' = 0 /\ totrack = 0 /\ raw > camraw
          /\ tracked' = tracked \cup {raw}
      BY <1>3 DEF MemFullDrop
    <2> QED
      BY <1>0, <2>1, <2>2 DEF CameraOrder, TargetOldest
  <1>4. CASE SetTrackFrameState
    <2>1. UNCHANGED <<execpc, target>>
      BY <1>4, CameraFrame
    <2>2. camraw' = camraw /\ totrack' = 0 /\ tracked' = tracked \cup {totrack} /\ totrack # 0
      BY <1>4 DEF SetTrackFrameState
    <2> QED
      BY <1>0, <2>1, <2>2 DEF CameraOrder, TargetOldest
  <1>5. CASE ExecCheck \/ ExecGet \/ ExecPopCheck \/ ExecPop
    <2>1. UNCHANGED <<camraw, totrack, tracked, target>>
      BY <1>5, ExecFrame
    <2>2. \/ execpc' \in {"get", "target"}
          \/ execpc \in {"pop", "popping"}
      BY <1>5 DEF ExecCheck, ExecGet, ExecPopCheck, ExecPop
    <2> QED
      BY <1>0, <2>1, <2>2 DEF CameraOrder, TargetOldest
  <1>6. CASE ExecTarget
    <2>1. UNCHANGED <<camraw, totrack, tracked>>
      BY <1>6, ExecFrame
    <2>2. target' \in Raws => target' \in tracked /\ \A f \in tracked : target' <= f
      BY <1>6, TargetFacts
    <2> QED
      BY <1>0, <2>1, <2>2 DEF CameraOrder, TargetOldest
  <1>7. CASE ExecErase
    <2>1. UNCHANGED <<camraw, totrack, target>> /\ tracked' = tracked \ {target}
      BY <1>7, ExecFrame
    <2>2. execpc' = "idle"
      BY <1>7 DEF ExecErase
    <2> QED
      BY <1>0, <2>1, <2>2 DEF CameraOrder, TargetOldest
  <1>8. CASE GraphStep
    <2>1. UNCHANGED <<camraw, totrack, tracked, execpc, target>>
      BY <1>8 DEF GraphStep, trackVars, execVars
    <2> QED
      BY <1>1, <2>1
  <1>9. CASE PluginStop
    <2>1. UNCHANGED <<camraw, totrack, tracked, execpc, target>>
      BY <1>9 DEF PluginStop, trackVars, execVars
    <2> QED
      BY <1>1, <2>1
  <1>10. CASE UNCHANGED htVars
    <2>1. UNCHANGED <<camraw, totrack, tracked, execpc, target>>
      BY <1>10 DEF htVars
    <2> QED
      BY <1>1, <2>1
  <1> QED
    BY <1>2, <1>3, <1>4, <1>5, <1>6, <1>7, <1>8, <1>9, <1>10 DEF HTNext

\* The front of the records stays as new as PopExecInfo saw it.
LEMMA FrontNotOlderStep ==
    ASSUME HTInv, [HTNext]_htVars, IInv'
    PROVE  FrontNotOlder'
  <1>0. /\ Newest(RecordGroup) \in Nat /\ Newest(RecordGroup)' \in Nat
        /\ got[Exporter] \in Nat /\ target \in Nat
        /\ FrontNotOlder
    <2>1. IInv /\ FrontNotOlder /\ target \in Nat
      BY ExportAssumption, SizeAssumption DEF HTInv, HTTypeOK
    <2>2. Newest(RecordGroup) \in Nat
      BY <2>1, NewestFacts
    <2>3. Newest(RecordGroup)' \in Nat
      BY NewestNext
    <2>4. got[Exporter] \in Nat
      BY <2>1, ExportAssumption, SizeAssumption DEF IInv, TypeOK
    <2> QED
      BY <2>1, <2>2, <2>3, <2>4
  <1>1. ASSUME got'[Exporter] = got[Exporter], UNCHANGED <<execpc, target>>,
               Newest(RecordGroup)' >= Newest(RecordGroup)
        PROVE  FrontNotOlder'
    BY <1>0, <1>1 DEF FrontNotOlder
  <1>2. CASE GraphStep
    BY <1>1, <1>2, GraphStepFrame
  <1>3. ASSUME UNCHANGED <<got, outputs, execpc, target>> PROVE FrontNotOlder'
    BY <1>0, <1>1, <1>3 DEF Newest
  <1>4. ASSUME NEW raw \in Raws, ParseAllCameraData(raw) \/ MemFullDrop(raw) PROVE FrontNotOlder'
    BY <1>3, <1>4, CameraFrame
  <1>5. CASE SetTrackFrameState \/ PluginStop
    BY <1>3, <1>5, CameraFrame
  <1>6. CASE UNCHANGED htVars
    BY <1>3, <1>6 DEF htVars, vars
  <1>7. CASE ExecCheck
    BY <1>7 DEF ExecCheck, FrontNotOlder
  <1>8. CASE ExecGet
    <2>1. outputs' = outputs /\ got'[Exporter] = Newest(RecordGroup) /\ Newest(RecordGroup) # 0
      BY <1>8, ExporterFrame DEF ExecGet
    <2>2. execpc' = "target"
      BY <1>8 DEF ExecGet
    <2>3. Newest(RecordGroup)' = Newest(RecordGroup)
      BY <2>1 DEF Newest
    <2> QED
      BY <1>0, <2>1, <2>2, <2>3 DEF FrontNotOlder
  <1>9. CASE ExecTarget
    <2>1. UNCHANGED <<got, outputs>>
      BY <1>9, ExecFrame
    <2>2. /\ execpc = "target" /\ execpc' \in {"idle", "pop", "busy"}
          /\ execpc' = "pop" => target' = got[Exporter]
      BY <1>9, TargetFacts
    <2>3. Newest(RecordGroup)' = Newest(RecordGroup)
      BY <2>1 DEF Newest
    <2>4. got[Exporter] # 0 /\ Newest(RecordGroup) >= got[Exporter]
      BY <1>0, <2>2 DEF FrontNotOlder
    <2> QED
      BY <1>0, <2>2, <2>3, <2>4 DEF FrontNotOlder
  <1>10. CASE ExecPopCheck
    <2>1. UNCHANGED <<got, outputs>> /\ target' = target
      BY <1>10, ExporterFrame, ExecFrame DEF ExecPopCheck
    <2>2. execpc = "pop" /\ execpc' = "popping"
      BY <1>10 DEF ExecPopCheck
    <2>3. Newest(RecordGroup)' = Newest(RecordGroup)
      BY <2>1 DEF Newest
    <2> QED
      BY <1>0, <2>1, <2>2, <2>3 DEF FrontNotOlder
  <1>11. CASE ExecPop \/ ExecErase
    BY <1>11 DEF ExecPop, ExecErase, FrontNotOlder
  <1> QED
    BY <1>2, <1>4, <1>5, <1>6, <1>7, <1>8, <1>9, <1>10, <1>11 DEF HTNext

\* A frame that is owed stays so until its turn, and then is older than the
\* frames that are still owed.
LEMMA SettledStep ==
    ASSUME HTInv, [HTNext]_htVars, NEW x \in Nat, Settled(x)
    PROVE  /\ x <= camraw'
           /\ x \in Owed' \/ \A k \in Owed' : x < k
  <1>0. /\ camraw \in Nat /\ totrack \in Nat /\ tracked \subseteq Nat /\ tracked \subseteq Raws
        /\ Raws \subseteq Nat /\ 0 \notin Raws
        /\ CameraOrder /\ TargetOldest
        /\ x <= camraw /\ (x \in Owed \/ \A k \in Owed : x < k)
    BY SizeAssumption DEF HTInv, HTTypeOK, Settled
  <1>1. CASE UNCHANGED <<camraw, totrack, tracked>>
    BY <1>0, <1>1 DEF Owed
  <1>2. ASSUME NEW raw \in Raws, ParseAllCameraData(raw)
        PROVE  x <= camraw' /\ (x \in Owed' \/ \A k \in Owed' : x < k)
    <2>1. camraw' = raw /\ totrack' = raw /\ tracked' = tracked /\ raw > camraw /\ totrack = 0
      BY <1>2 DEF ParseAllCameraData
    <2>2. Owed = tracked /\ Owed' = tracked \cup {raw}
      BY <1>0, <2>1 DEF Owed
    <2> QED
      BY <1>0, <2>1, <2>2
  <1>3. ASSUME NEW raw \in Raws, MemFullDrop(raw)
        PROVE  x <= camraw' /\ (x \in Owed' \/ \A k \in Owed' : x < k)
    <2>1. camraw' = raw /\ totrack' = totrack /\ tracked' = tracked \cup {raw} /\ raw > camraw
      BY <1>3 DEF MemFullDrop
    <2>2. Owed' = Owed \cup {raw}
      BY <2>1 DEF Owed
    <2> QED
      BY <1>0, <2>1, <2>2
  <1>4. CASE SetTrackFrameState
    <2>1. camraw' = camraw /\ totrack' = 0 /\ tracked' = tracked \cup {totrack} /\ totrack # 0
      BY <1>4 DEF SetTrackFrameState
    <2>2. Owed' = Owed
      BY <2>1 DEF Owed
    <2> QED
      BY <1>0, <2>1, <2>2
  <1>5. CASE ExecErase
    <2>1. UNCHANGED <<camraw, totrack>> /\ tracked' = tracked \ {target}
          /\ execpc \in {"erase", "busy"}
      BY <1>5, ExecFrame DEF ExecErase
    <2>2. CASE target \notin tracked
      BY <1>1, <2>1, <2>2
    <2>3. CASE target \in tracked
      <3>1. target \in Nat /\ \A k \in tracked : target <= k
        BY <1>0, <2>1, <2>3 DEF TargetOldest
      <3>2. totrack # 0 => target < totrack
        BY <1>0, <2>3 DEF CameraOrder
      <3>3. Owed' \subseteq Owed /\ Owed \ {target} \subseteq Owed'
        BY <2>1 DEF Owed
      <3>4. \A k \in Owed' : target < k
        BY <1>0, <2>1, <3>1, <3>2 DEF Owed
      <3>5. CASE x = target
        BY <1>0, <2>1, <3>4, <3>5
      <3>6. CASE x # target
        BY <1>0, <2>1, <3>3, <3>6
      <3> QED
        BY <3>5, <3>6
    <2> QED
      BY <2>2, <2>3
  <1>6. GraphStep \/ PluginStop => UNCHANGED <<camraw, totrack, tracked>>
    BY DEF GraphStep, PluginStop, trackVars
  <1>7. ExecCheck \/ ExecGet \/ ExecTarget \/ ExecPopCheck \/ ExecPop =>
           UNCHANGED <<camraw, totrack, tracked>>
    BY ExecFrame
  <1>8. UNCHANGED htVars => UNCHANGED <<camraw, totrack, tracked>>
    BY DEF htVars
  <1> QED
    BY <1>1, <1>2, <1>3, <1>4, <1>5, <1>6, <1>7, <1>8 DEF HTNext

\* Only the camera thread moves its clock, and only into PushData.
LEMMA PushTrackedStep ==
    ASSUME HTInv, [HTNext]_htVars
    PROVE  PushTracked'
  <1>0. /\ PushTracked /\ camraw \in Nat /\ pushraw \in Nat /\ Raws \subseteq Nat
    BY SizeAssumption DEF HTInv, HTTypeOK, TypeOK
  <1>1. ASSUME NEW raw \in Raws, ParseAllCameraData(raw) PROVE PushTracked'
    <2>1. pushraw' = raw /\ camraw' = raw /\ totrack' = raw
      BY <1>1 DEF ParseAllCameraData, PushBegin
    <2> QED
      BY <1>0, <2>1 DEF PushTracked
  <1>2. ASSUME NEW raw \in Raws, MemFullDrop(raw) PROVE PushTracked'
    <2>1. UNCHANGED <<pushraw, pushpc, totrack>> /\ camraw' = raw /\ raw > camraw
      BY <1>2 DEF MemFullDrop, vars
    <2> QED
      BY <1>0, <2>1 DEF PushTracked
  <1>3. CASE SetTrackFrameState
    <2>1. UNCHANGED <<pushraw, pushpc, camraw>> /\ pushpc = "idle"
      BY <1>3 DEF SetTrackFrameState, vars
    <2> QED
      BY <1>0, <2>1 DEF PushTracked
  <1>4. ASSUME UNCHANGED <<camraw, totrack, pushraw>>, pushpc' = pushpc \/ pushpc # "idle"
        PROVE  PushTracked'
    BY <1>0, <1>4 DEF PushTracked
  <1>5. CASE GraphStep
    <2>1. UNCHANGED <<camraw, totrack>>
      BY <1>5 DEF GraphStep, trackVars
    <2>2. CASE StartRun \/ StartFinish \/ StopClose \/ StopDone
      <3>1. UNCHANGED <<pushraw, pushpc>>
        BY <2>2 DEF StartRun, StartFinish, StopClose, StopDone, pushVars
      <3> QED
        BY <1>4, <2>1, <3>1
    <2>3. CASE SetInputStreamCache \/ AddImage \/ AddHeadPose \/ ClearInputStreamCache
      <3>1. pushraw' = pushraw /\ pushpc # "idle"
        BY <2>3 DEF SetInputStreamCache, AddImage, AddHeadPose, ClearInputStreamCache
      <3> QED
        BY <1>4, <2>1, <3>1
    <2>4. ASSUME NEW o \in Orders, NEW s \in accepted, CallBackInferenceResult(o, s)
          PROVE  UNCHANGED <<pushraw, pushpc>>
      BY <2>4 DEF CallBackInferenceResult, pushVars
    <2>5. ASSUME NEW o \in Orders, CallbackStep(o) PROVE UNCHANGED <<pushraw, pushpc>>
      BY <2>5, CallbackStepFrame DEF pushVars, HTInv, HTTypeOK
    <2>6. ASSUME NEW r \in Readers, GetCheck(r) \/ GetFront(r)
          PROVE  UNCHANGED <<pushraw, pushpc>>
      BY <2>6 DEF GetCheck, GetFront, pushVars
    <2> QED
      BY <1>4, <1>5, <2>1, <2>2, <2>3, <2>4, <2>5, <2>6 DEF GraphStep
  <1>6. CASE PluginStop
    <2>1. UNCHANGED <<camraw, totrack, pushraw, pushpc>>
      BY <1>6 DEF PluginStop, StopFlag, trackVars, pushVars
    <2> QED
      BY <1>4, <2>1
  <1>7. CASE ExecCheck \/ ExecGet \/ ExecTarget \/ ExecPopCheck \/ ExecPop \/ ExecErase
    <2>1. UNCHANGED <<camraw, totrack>>
      BY <1>7, ExecFrame
    <2>2. UNCHANGED <<pushraw, pushpc>>
      BY <1>7 DEF ExecCheck, ExecGet, ExecTarget, ExecPopCheck, ExecPop, ExecErase,
            GetCheck, GetFront, GetFrontAndPop, pushVars, vars
    <2> QED
      BY <1>4, <2>1, <2>2
  <1>8. CASE UNCHANGED htVars
    <2>1. UNCHANGED <<camraw, totrack, pushraw, pushpc>>
      BY <1>8 DEF htVars, vars
    <2> QED
      BY <1>4, <2>1
  <1> QED
    BY <1>1, <1>2, <1>3, <1>5, <1>6, <1>7, <1>8 DEF HTNext

\* Every step keeps the frames of the caches settled: a frame gets there from
\* another cache, or while it is being pushed, when it is owed.
LEMMA CachesSettledStep ==
    ASSUME HTInv, [HTNext]_htVars, IInv'
    PROVE  CachesSettled'
  <1>0. /\ TypeOK /\ TypeOK' /\ Phases /\ Registered /\ NoRepeat /\ PendingOK
        /\ DepthBounded /\ FrontExists /\ CachesSettled /\ PushTracked /\ Shape
    BY BaseStep, StepShape DEF HTInv, IInv
  <1> DEFINE Later(x) == x <= camraw' /\ (x \in Owed' \/ \A k \in Owed' : x < k)
  <1>1. \A x \in Nat : Settled(x) => Later(x)
    BY SettledStep
  <1> HIDE DEF Later
  <1>2. /\ \A s \in DOMAIN inference : inference[s] \in StreamCache /\ inference[s].raw \in Nat
        /\ \A x \in Item : x.raw \in Nat
        /\ \A g \in Groups : \A j \in DOMAIN outputs[g] : outputs[g][j] \in Item
        /\ \A o \in Orders : Pending(o) => cb[o].item \in Item
    <2>1. \A x \in Item : x.raw \in Nat
      BY StampFacts DEF Item
    <2>2. \A s \in DOMAIN inference : inference[s] \in StreamCache /\ inference[s].raw \in Nat
      BY <1>0, StampFacts DEF TypeOK, StreamCache
    <2>3. \A g \in Groups : \A j \in DOMAIN outputs[g] : outputs[g][j] \in Item
      BY <1>0 DEF TypeOK
    <2>4. \A o \in Orders : Pending(o) => cb[o].item \in Item
      BY <1>0 DEF PendingOK, PendingItemOK
    <2> QED
      BY <2>1, <2>2, <2>3, <2>4
  <1>3. \A s \in DOMAIN inference : Later(inference[s].raw)
    BY <1>0, <1>1, <1>2 DEF CachesSettled
  <1>4. \A o \in Orders : Pending(o) => Later(cb[o].item.raw)
    BY <1>0, <1>1, <1>2 DEF CachesSettled
  <1>5. \A g \in Groups : \A i \in DOMAIN outputs[g] : Later(outputs[g][i].raw)
    BY <1>0, <1>1, <1>2 DEF CachesSettled
  <1>6. \A g \in Groups : \A i \in DOMAIN outputs'[g] : Later(outputs'[g][i].raw)
    BY <1>0, <1>4, <1>5, OutputsOrigin
  <1>7. \A o \in Orders : Pending(o)' => Later(cb'[o].item.raw)
    <2>1. ASSUME NEW o \in Orders, NEW s \in accepted, CallBackInferenceResult(o, s),
                 NEW q \in Orders, Pending(q)'
          PROVE  Later(cb'[q].item.raw)
      <3>1. CASE q = o
        <4>0. Pending(o)'
          BY <2>1, <3>1
        <4>1. /\ s \in DOMAIN inference
              /\ cb'[o].item = [raw |-> inference[s].raw, packs |-> inference[s].packs \cup {o}]
          BY <1>0, <2>1, <4>0, NewPending
        <4>2. cb'[o].item.raw = inference[s].raw
          BY <4>1
        <4> QED
          BY <1>3, <3>1, <4>1, <4>2
      <3>2. CASE q # o
        <4>1. cb' = [cb EXCEPT ![o] = cb'[o]]
          BY <1>0, <2>1, CallbackFrame
        <4>2. cb'[q] = cb[q]
          BY <1>0, <3>2, <4>1 DEF TypeOK
        <4>3. Pending(q)
          BY <2>1, <4>2 DEF Pending
        <4> QED
          BY <1>4, <4>2, <4>3
      <3> QED
        BY <3>1, <3>2
    <2>2. CASE ~\E o \in Orders : \E s \in accepted : CallBackInferenceResult(o, s)
      BY <1>0, <1>4, <2>2, PendingFrame
    <2> QED
      BY <2>1, <2>2
  <1>8. \A s \in DOMAIN inference' : Later(inference'[s].raw)
    <2>1. CASE /\ DOMAIN inference' \subseteq DOMAIN inference
               /\ \A t \in DOMAIN inference' : inference'[t] = inference[t]
      BY <1>3, <2>1
    <2>2. CASE SetInputStreamCache
      <3>1. /\ pushraw \in Raws /\ pushpc = "register"
            /\ \/ UNCHANGED inference
               \/ /\ DOMAIN inference' \subseteq DOMAIN inference \cup {Micro(pushraw)}
                  /\ \A t \in DOMAIN inference' :
                        inference'[t] = IF t = Micro(pushraw)
                                        THEN [raw |-> pushraw, sum |-> 0, packs |-> {}]
                                        ELSE inference[t]
        BY <1>0, <2>2, RegisterFrame
      <3>2. pushraw \in Nat /\ pushraw \in Owed /\ pushraw <= camraw
        BY <1>0, <3>1, SizeAssumption DEF PushTracked, Owed
      <3>3. Later(pushraw)
        BY <1>1, <3>2 DEF Settled
      <3> QED
        BY <1>3, <3>1, <3>3
    <2>3. ASSUME NEW o \in Orders, NEW s \in accepted, CallBackInferenceResult(o, s),
                 NEW t \in DOMAIN inference'
          PROVE  Later(inference'[t].raw)
      <3>0. /\ DOMAIN inference' \subseteq DOMAIN inference
            /\ \A u \in DOMAIN inference' :
                  inference'[u] = IF u = s THEN Collected(s, o) ELSE inference[u]
        BY <1>0, <2>3, CallbackFrame, ZenonT(60)
      <3>1. /\ t \in DOMAIN inference
            /\ inference'[t] = IF t = s THEN Collected(s, o) ELSE inference[t]
        BY <2>3, <3>0
      <3>2. t = s => inference'[t].raw = inference[t].raw
        BY <3>1 DEF Collected
      <3> QED
        BY <1>3, <3>1, <3>2
    <2>4. ASSUME NEW o \in Orders, CallbackStep(o)
          PROVE  /\ DOMAIN inference' \subseteq DOMAIN inference
                 /\ \A t \in DOMAIN inference' : inference'[t] = inference[t]
      BY <1>0, <2>4, CallbackStepCaches
    <2>5. ASSUME NEW raw \in Raws, PushBegin(raw) PROVE inference' = inference
      BY <2>5, PushFrame
    <2>6. ASSUME NEW r \in Readers, GetFrontAndPop(r) PROVE inference' = inference
      BY <1>0, <2>6, PopFrame
    <2>7. StopDone \/ Quiet \/ Accept => inference' = inference
      BY <1>0, StopDoneFrame DEF Quiet, Accept
    <2>8. ClearInputStreamCache =>
             /\ DOMAIN inference' \subseteq DOMAIN inference
             /\ \A t \in DOMAIN inference' : inference'[t] = inference[t]
      BY ClearFrame
    <2> QED
      BY <1>0, <2>1, <2>2, <2>3, <2>4, <2>5, <2>6, <2>7, <2>8 DEF Shape
  <1> QED
    BY <1>6, <1>7, <1>8 DEF CachesSettled, Settled, Later

\* A record that is exported is one of a camera frame.
LEMMA TargetIsFrameStep ==
    ASSUME HTInv, [HTNext]_htVars, IInv'
    PROVE  TargetIsFrame'
  <1>0. TargetIsFrame /\ FrontNotOlder /\ got[Exporter] \in Raws \cup {0}
    BY ExportAssumption DEF HTInv, HTTypeOK, TypeOK
  <1>1. CASE UNCHANGED <<execpc, target>>
    BY <1>0, <1>1 DEF TargetIsFrame
  <1>2. CASE ExecTarget
    <2>1. /\ execpc = "target" /\ execpc' \in {"idle", "pop", "busy"}
          /\ execpc' = "pop" => target' = got[Exporter]
      BY <1>2, TargetFacts
    <2>2. got[Exporter] # 0
      BY <1>0, <2>1 DEF FrontNotOlder
    <2> QED
      BY <1>0, <2>1, <2>2 DEF TargetIsFrame
  <1>3. CASE ExecCheck \/ ExecGet \/ ExecErase
    <2>1. execpc' \in {"get", "target", "idle"}
      BY <1>3 DEF ExecCheck, ExecGet, ExecErase
    <2> QED
      BY <2>1 DEF TargetIsFrame
  <1>4. CASE ExecPopCheck \/ ExecPop
    <2>1. execpc \in {"pop", "popping"} /\ target' = target
      BY <1>4, ExecFrame DEF ExecPopCheck, ExecPop
    <2> QED
      BY <1>0, <2>1 DEF TargetIsFrame
  <1>5. GraphStep => UNCHANGED <<execpc, target>>
    BY DEF GraphStep, execVars
  <1>6. ASSUME NEW raw \in Raws, ParseAllCameraData(raw) \/ MemFullDrop(raw)
        PROVE  UNCHANGED <<execpc, target>>
    BY <1>6, CameraFrame
  <1>7. SetTrackFrameState \/ PluginStop => UNCHANGED <<execpc, target>>
    BY CameraFrame
  <1>8. UNCHANGED htVars => UNCHANGED <<execpc, target>>
    BY DEF htVars
  <1> QED
    BY <1>1, <1>2, <1>3, <1>4, <1>5, <1>6, <1>7, <1>8 DEF HTNext

\* The record the second lookup takes is at least as new as the target, and a
\* newer one is settled: it is not older than all that is owed.
LEMMA TakenStep ==
    ASSUME HTInv, [HTNext]_htVars, IInv'
    PROVE  TakenIsOwed'
  <1>0. /\ TakenIsOwed /\ FrontNotOlder /\ TargetIsFrame /\ TargetOldest /\ CachesSettled
        /\ got[Exporter] \in Nat /\ target \in Nat /\ totrack \in Nat
        /\ tracked \subseteq Nat /\ Raws \subseteq Nat
    BY ExportAssumption, SizeAssumption DEF HTInv, HTTypeOK, TypeOK
  <1>1. ASSUME got'[Exporter] = got[Exporter], UNCHANGED <<execpc, target>>,
               tracked \subseteq tracked',
               totrack' = totrack \/ totrack = 0 \/ totrack \in tracked'
        PROVE  TakenIsOwed'
    BY <1>0, <1>1 DEF TakenIsOwed
  <1>2. CASE GraphStep
    <2>1. got'[Exporter] = got[Exporter] /\ UNCHANGED <<totrack, tracked, execpc, target>>
      BY <1>2, GraphStepFrame
    <2> QED
      BY <1>1, <2>1
  <1>3. ASSUME NEW raw \in Raws, ParseAllCameraData(raw) \/ MemFullDrop(raw) PROVE TakenIsOwed'
    <2>1. UNCHANGED <<got, execpc, target>>
      BY <1>3, CameraFrame
    <2>2. tracked \subseteq tracked' /\ totrack = 0
      BY <1>3 DEF ParseAllCameraData, MemFullDrop
    <2> QED
      BY <1>1, <2>1, <2>2
  <1>4. CASE SetTrackFrameState
    <2>1. UNCHANGED <<got, execpc, target>>
      BY <1>4, CameraFrame
    <2>2. tracked' = tracked \cup {totrack}
      BY <1>4 DEF SetTrackFrameState
    <2> QED
      BY <1>1, <2>1, <2>2
  <1>5. CASE PluginStop
    <2>1. UNCHANGED <<got, execpc, target>>
      BY <1>5, CameraFrame
    <2>2. UNCHANGED <<tracked, totrack>>
      BY <1>5 DEF PluginStop, trackVars
    <2> QED
      BY <1>1, <2>1, <2>2
  <1>6. CASE UNCHANGED htVars
    <2>1. UNCHANGED <<got, execpc, target, tracked, totrack>>
      BY <1>6 DEF htVars, vars
    <2> QED
      BY <1>1, <2>1
  <1>7. CASE ExecCheck \/ ExecGet \/ ExecPopCheck \/ ExecErase
    <2>1. execpc' # "erase"
      BY <1>7 DEF ExecCheck, ExecGet, ExecPopCheck, ExecErase
    <2> QED
      BY <2>1 DEF TakenIsOwed
  <1>8. CASE ExecTarget
    <2>1. execpc' # "erase"
      BY <1>8, TargetFacts
    <2> QED
      BY <2>1 DEF TakenIsOwed
  <1>9. CASE ExecPop
    <2>1. execpc = "popping" /\ UNCHANGED <<tracked, totrack, target>>
      BY <1>9, ExecFrame DEF ExecPop
    <2>2. /\ Newest(RecordGroup) # 0 /\ Newest(RecordGroup) >= target
          /\ target \in Raws /\ target \in tracked
      BY <1>0, <2>1 DEF FrontNotOlder, TargetIsFrame, TargetOldest
    <2>3. /\ outputs[RecordGroup] # <<>>
          /\ Head(outputs[RecordGroup]).raw = Newest(RecordGroup)
          /\ Newest(RecordGroup) \in Nat /\ RecordGroup \in Groups
          /\ Exporter \in Readers /\ ReaderGroup[Exporter] = RecordGroup
      BY <2>2, NewestFacts DEF HTInv
    <2>4. got'[Exporter] = Newest(RecordGroup)
      BY <1>9, <2>3 DEF ExecPop, GetFrontAndPop, HTInv, HTTypeOK, TypeOK
    <2>5. Settled(Newest(RecordGroup))
      <3>1. 1 \in DOMAIN outputs[RecordGroup]
        BY <2>3 DEF HTInv, HTTypeOK, TypeOK
      <3>2. Newest(RecordGroup) = outputs[RecordGroup][1].raw
        BY <2>3 DEF Newest
      <3> QED
        BY <1>0, <2>3, <3>1, <3>2 DEF CachesSettled
    <2>6. Newest(RecordGroup) > target => Newest(RecordGroup) \in Owed
      BY <1>0, <2>2, <2>3, <2>5 DEF Settled, Owed
    <2> QED
      BY <1>0, <2>1, <2>2, <2>3, <2>4, <2>6 DEF TakenIsOwed, Owed
  <1> QED
    BY <1>2, <1>3, <1>4, <1>5, <1>6, <1>7, <1>8, <1>9 DEF HTNext

-----------------------------------------------------------------------------
\* Nothing is pushed, tracked or polled yet.
LEMMA InitHTInv == HTInit => HTInv
  <1> SUFFICES ASSUME HTInit PROVE HTInv
    OBVIOUS
  <1>1. IInv /\ TypeOK
    BY InitIInv DEF HTInit, IInv
  <1>2. readpc[Exporter] = "idle"
    BY ExportAssumption DEF HTInit, Init
  <1>3. HTTypeOK
    BY <1>1, <1>2 DEF HTInit, HTTypeOK, ExecStates
  <1>4. CameraOrder /\ TargetOldest /\ FrontNotOlder /\ TargetIsFrame /\ TakenIsOwed
    BY DEF HTInit, CameraOrder, TargetOldest, FrontNotOlder, TargetIsFrame, TakenIsOwed
  <1>5. CachesSettled /\ PushTracked
    BY DEF HTInit, Init, CachesSettled, PushTracked, Pending, Idle
  <1> QED
    BY <1>1, <1>3, <1>4, <1>5 DEF HTInv

\* Every step of the recording pipeline preserves the invariant.
LEMMA NextHTInv == HTInv /\ [HTNext]_htVars => HTInv'
  <1> SUFFICES ASSUME HTInv, [HTNext]_htVars PROVE HTInv'
    OBVIOUS
  <1>1. IInv'
    BY BaseStep, NextIInv DEF HTInv
  <1> QED
    BY <1>1, HTTypeStep, OrderStep, FrontNotOlderStep, CachesSettledStep, PushTrackedStep,
       TargetIsFrameStep, TakenStep DEF HTInv

\* The inductive invariant of the recording pipeline.
THEOREM HTInductive == HTSpec => []HTInv
  BY InitHTInv, NextHTInv, PTL DEF HTSpec

\* The members keep their types and PopExecInfo its place.
THEOREM RecordingTypeCorrect == HTSpec => []HTTypeOK
  <1>1. HTInv => HTTypeOK
    BY DEF HTInv
  <1> QED
    BY <1>1, HTInductive, PTL

\* The second lookup of PopExecInfo takes the exported record or one whose
\* frame is still owed, for every layout, depth and interleaving.
THEOREM TakenRecordsOwed == HTSpec => []TakenIsOwed
  <1>1. HTInv => TakenIsOwed
    BY DEF HTInv
  <1> QED
    BY <1>1, HTInductive, PTL

\* PopExecInfo never forgets a frame while it owes an older one.
THEOREM OrderIsKept == HTSpec => OldestFirst
  <1>1. HTInv /\ [HTNext]_htVars =>
           [\A gone \in tracked \ tracked', kept \in tracked' : gone < kept]_htVars
    <2> SUFFICES ASSUME HTInv, HTNext,
                        NEW gone \in tracked \ tracked', NEW kept \in tracked'
                 PROVE  gone < kept
      OBVIOUS
    <2>0. tracked \subseteq Raws /\ Raws \subseteq Nat /\ TargetOldest
      BY SizeAssumption DEF HTInv, HTTypeOK
    <2>1. CASE ExecErase
      <3>1. tracked' = tracked \ {target} /\ execpc \in {"erase", "busy"}
        BY <2>1, ExecFrame DEF ExecErase
      <3>2. gone = target /\ kept \in tracked /\ kept # target
        BY <3>1
      <3>3. target \in Raws /\ target <= kept
        BY <2>0, <3>1, <3>2 DEF TargetOldest
      <3> QED
        BY <2>0, <3>2, <3>3
    <2>2. CASE ~ExecErase
      <3>1. tracked \subseteq tracked'
        BY <2>2, ExecFrame DEF HTNext, GraphStep, ParseAllCameraData, MemFullDrop,
              SetTrackFrameState, PluginStop, trackVars
      <3> QED
        BY <3>1
    <2> QED
      BY <2>1, <2>2
  <1> QED
    BY <1>1, HTInductive, PTL DEF HTSpec, OldestFirst
=============================================================================
