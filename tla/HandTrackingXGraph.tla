------------------------- MODULE HandTrackingXGraph -------------------------
(***************************************************************************)
(* HandTrackingXGraph in its recording mode (handtracking_xgraph.cpp with  *)
(* export_pipeline_exec_info_jsonstring set): BaseXGraph with a second     *)
(* output group for the records, the list m_debug_frame_infos_ of frames   *)
(* whose execution info is owed, and PopExecInfo, which a thread of the    *)
(* host polls.  PopResult is a reader of the hand group.                   *)
(*                                                                         *)
(* The camera thread runs ParseAllCameraData: it tracks a frame after      *)
(* PushData has returned, or instead of PushData when no image memory is   *)
(* left.  PopExecInfo looks at the records twice, and at the list twice.   *)
(***************************************************************************)
EXTENDS BaseXGraph, FiniteSetsExt

CONSTANTS
    Exporter,     \* the thread that polls PopExecInfo
    RecordGroup,  \* recordresult_output_groud_index_
    Garbage       \* what begin()->first of an empty map may read

\* An arbitrary word is no timestamp of a camera frame.
ASSUME ExportAssumption ==
    /\ Exporter \in Readers
    /\ ReaderGroup[Exporter] = RecordGroup
    /\ Drainers = {Exporter}
    /\ Garbage \subseteq Nat \ Raws
    /\ Garbage # {}

VARIABLES
    camraw,    \* timestamp of the last camera frame
    totrack,   \* frame ParseAllCameraData is about to track, or 0
    tracked,   \* keys of m_debug_frame_infos_
    execpc,    \* where the exporter is in PopExecInfo
    target     \* target_frame

trackVars == <<camraw, totrack, tracked>>
execVars == <<execpc, target>>
htVars == <<vars, camraw, totrack, tracked, execpc, target>>

HTInit ==
    /\ Init
    /\ camraw = 0
    /\ totrack = 0
    /\ tracked = {}
    /\ execpc = "idle"
    /\ target = 0

-----------------------------------------------------------------------------
(* The camera thread.  isStart holds only while the graph is up.           *)

\* All images got their memory: PushData begins.
ParseAllCameraData(raw) ==
    /\ control = "up"
    /\ totrack = 0
    /\ raw > camraw
    /\ PushBegin(raw)
    /\ camraw' = raw
    /\ totrack' = raw
    /\ UNCHANGED <<tracked, execVars>>

\* RequestMemBlob fails: the frame is tracked (MEM_FULL_DROP), not pushed.
MemFullDrop(raw) ==
    /\ control = "up"
    /\ pushpc = "idle" /\ totrack = 0
    /\ raw > camraw
    /\ camraw' = raw
    /\ tracked' = tracked \cup {raw}
    /\ UNCHANGED <<vars, totrack, execVars>>

\* PushData has returned, with success or not.
SetTrackFrameState ==
    /\ pushpc = "idle" /\ totrack # 0
    /\ tracked' = tracked \cup {totrack}
    /\ totrack' = 0
    /\ UNCHANGED <<vars, camraw, execVars>>

\* Stop waits for the whole of ParseAllCameraData (m_mutex_processdata).
PluginStop ==
    /\ totrack = 0
    /\ StopFlag
    /\ UNCHANGED <<trackVars, execVars>>

-----------------------------------------------------------------------------
(* PopExecInfo.                                                            *)

\* The first GetOutputStreamCache, reuse = true.
ExecCheck ==
    /\ execpc = "idle"
    /\ GetCheck(Exporter)
    /\ execpc' = "get"
    /\ UNCHANGED <<trackVars, target>>

ExecGet ==
    /\ execpc = "get"
    /\ GetFront(Exporter)
    /\ execpc' = "target"
    /\ UNCHANGED <<trackVars, target>>

OutcomeNotNewer(raw, frame) ==
    CASE raw > frame -> "busy"
      [] OTHER       -> "pop"

\* A record older than the target is a failure, one of the target is
\* exported, a newer one makes the target "busy".
Outcome(raw, frame) ==
    CASE raw < frame -> "idle"
      [] raw = frame -> "pop"
      [] raw > frame -> "busy"

ExecTargetNewest ==
    /\ execpc = "target"
    /\ target' \in IF tracked = {} THEN Garbage ELSE {Max(tracked)}
    /\ execpc' = Outcome(got[Exporter], target')
    /\ UNCHANGED <<vars, trackVars>>

\* begin()->first under m_track_frame_lock_, without a test for an empty map.
ExecTarget ==
    /\ execpc = "target"
    /\ target' \in IF tracked = {} THEN Garbage ELSE {Min(tracked)}
    /\ execpc' = Outcome(got[Exporter], target')
    /\ UNCHANGED <<vars, trackVars>>

\* The second GetOutputStreamCache, reuse = false: it takes the record that
\* is in front now.
ExecPopCheck ==
    /\ execpc = "pop"
    /\ GetCheck(Exporter)
    /\ execpc' = "popping"
    /\ UNCHANGED <<trackVars, target>>

ExecPop ==
    /\ execpc = "popping"
    /\ GetFrontAndPop(Exporter)
    /\ execpc' = "erase"
    /\ UNCHANGED <<trackVars, target>>

\* The frame is reported, exported or busy, and forgotten.
ExecErase ==
    /\ execpc \in {"erase", "busy"}
    /\ tracked' = tracked \ {target}
    /\ execpc' = "idle"
    /\ UNCHANGED <<vars, camraw, totrack, target>>

-----------------------------------------------------------------------------
\* Steps of the graph, its executor threads and the hand readers.
GraphStep ==
    /\ \/ StartRun \/ StartFinish \/ StopClose \/ StopDone
       \/ SetInputStreamCache \/ AddImage \/ AddHeadPose \/ ClearInputStreamCache
       \/ \E o \in Orders, s \in accepted : CallBackInferenceResult(o, s)
       \/ \E o \in Orders : CallbackStep(o)
       \/ \E r \in Readers \ {Exporter} : GetCheck(r) \/ GetFront(r)
    /\ UNCHANGED <<trackVars, execVars>>

HTNext ==
    \/ GraphStep
    \/ \E raw \in Raws : ParseAllCameraData(raw)
    \/ \E raw \in Raws : MemFullDrop(raw)
    \/ SetTrackFrameState
    \/ PluginStop
    \/ ExecCheck
    \/ ExecGet
    \/ ExecTarget
    \/ ExecPopCheck
    \/ ExecPop
    \/ ExecErase

HTSpec == HTInit /\ [][HTNext]_htVars

-----------------------------------------------------------------------------
(* Properties.                                                             *)

ExecStates == {"idle", "get", "target", "pop", "popping", "erase", "busy"}

\* The members of HandTrackingXGraph keep their types, and the exporter is
\* inside GetOutputStreamCache exactly where PopExecInfo calls it.
HTTypeOK ==
    /\ TypeOK
    /\ camraw \in Raws \cup {0}
    /\ totrack \in Raws \cup {0}
    /\ tracked \subseteq Raws
    /\ execpc \in ExecStates
    /\ target \in Raws \cup Garbage \cup {0}
    /\ readpc[Exporter] = "front" <=> execpc \in {"get", "popping"}

\* PopExecInfo keeps order: the oldest owed frame leaves m_debug_frame_infos_
\* first, although the target is read in one critical section and erased in
\* another while the camera thread adds frames.
OldestFirst ==
    [][\A gone \in tracked \ tracked', kept \in tracked' : gone < kept]_htVars

\* What the second lookup of PopExecInfo takes is the record just exported, or
\* one pushed between the two lookups.  Such a record is lost unseen, and the
\* exported one stays in the cache, although the code says here that the used
\* one is cleared (handtracking_xgraph.cpp:423); but the frame of the lost
\* record is still owed: it is not forgotten without a report.
TakenIsOwed ==
    execpc = "erase" =>
        \/ got[Exporter] = target
        \/ got[Exporter] > target /\ got[Exporter] \in tracked \cup {totrack}

\* PopExecInfo keeps frames: a frame reported busy, that is dropped, has no
\* record waiting in the output cache.
KeepsFrames ==
    execpc = "busy" =>
        \A i \in DOMAIN outputs[RecordGroup] : outputs[RecordGroup][i].raw # target

\* The recording pipeline uses the caches of BaseXGraph as BaseXGraph allows.
ImplementsBase == Spec
=============================================================================
