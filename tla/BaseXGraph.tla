----------------------------- MODULE BaseXGraph -----------------------------
(***************************************************************************)
(* The stream caches of aisdk::task::BaseXGraph (base_xgraph.cpp): the     *)
(* object between the SDK and a MediaPipe graph.  PushData registers a     *)
(* frame in the inference cache and feeds the graph; the graph calls back  *)
(* once per output stream and frame; a frame whose outputs are all there   *)
(* moves to the output cache of its group, where PopResult and PopExecInfo *)
(* look it up.  Four kinds of threads meet here: the camera thread that    *)
(* pushes, one executor thread per output stream, the readers, and the     *)
(* thread that calls Start and Stop.                                       *)
(*                                                                         *)
(* A critical section of m_inference_lock, and one of m_output_lock that   *)
(* does not sleep, is one step.  Each unlocked read (graph_started, the    *)
(* sizes of the caches) is a step of its own, because the code acts on it  *)
(* later.  m_output_lock is a variable: FIFO_FULL_BLOCK sleeps holding it. *)
(***************************************************************************)
EXTENDS Integers, Sequences, FiniteSets, Functions

CONSTANTS
    Orders,       \* output streams of the graph, by output_packs_order
    Groups,       \* indices of m_output_stream_groud_cache
    GroupOf,      \* m_output_order_groud_index
    Policy,       \* clean_policy of each group
    Depth,        \* max_depth of each group
    MaxCache,     \* BASEXGRAPH_MAX_GLOBALCACHEDEPTH (900)
    MinCache,     \* BASEXGRAPH_MIN_GLOBALCACHEDEPTH (30)
    Raws,         \* bound: the frame timestamps (ns) the camera may deliver
    NsPerMicro,   \* ns per graph time unit (1000)
    Readers,      \* threads that call GetOutputStreamCache
    ReaderGroup,  \* the group each reader asks for
    Drainers      \* readers that also call it with reuse = false

Policies == {"LOOP_COVER", "DROP", "BLOCK"}

ASSUME LayoutAssumption ==
    /\ IsFiniteSet(Orders) /\ Orders # {}
    /\ IsFiniteSet(Groups)
    /\ GroupOf \in [Orders -> Groups]
    /\ Policy \in [Groups -> Policies]
    /\ Depth \in [Groups -> Nat \ {0}]

ASSUME SizeAssumption ==
    /\ MaxCache \in Nat \ {0}
    /\ MinCache \in Nat
    /\ NsPerMicro \in Nat \ {0}
    /\ Raws \subseteq Nat \ {0}
    /\ \A r \in Raws : r >= NsPerMicro

\* handtracking_xgraph.cpp has one caller with reuse = false, PopExecInfo, and
\* one thread that polls it: no two readers drain the same group.
ASSUME ReaderAssumption ==
    /\ ReaderGroup \in [Readers -> Groups]
    /\ Drainers \subseteq Readers
    /\ \A d \in Drainers, r \in Readers :
           ReaderGroup[d] = ReaderGroup[r] => d = r

\* An executor thread is named by its output stream; NoLock: nobody holds it.
CONSTANT NoLock
ASSUME LockAssumption == NoLock \notin Orders

VARIABLES
    started,    \* graph_started
    graph,      \* external: state of m_calculator_graph
    accepted,   \* external: stamps the graph took in this run
    emitted,    \* external: last stamp each output stream emitted in this run
    control,    \* where the thread in Start or Stop is
    inference,  \* m_inference_stream_cache: stamp -> StreamCache
    outputs,    \* m_output_stream_groud_cache, front first
    outlock,    \* holder of m_output_lock across steps
    pushpc,     \* where the camera thread is in PushData
    pushraw,    \* the timestamp it pushes, or pushed last
    cb,         \* where each executor thread is in CallBackInferenceResult
    readpc,     \* where each reader is in GetOutputStreamCache
    got         \* raw timestamp of the last result each reader received

graphVars == <<graph, accepted, emitted>>
pushVars  == <<pushpc, pushraw>>
readVars  == <<readpc, got>>
vars == <<started, graph, accepted, emitted, control, inference, outputs,
          outlock, pushpc, pushraw, cb, readpc, got>>

-----------------------------------------------------------------------------
\* "we use microseconds in xgraph pipeline": timestamp / 1000
Micro(raw) == raw \div NsPerMicro

Stamps == {Micro(r) : r \in Raws}

\* sync_bitmap and the filled slots of m_output_packs change together: packs.
StreamCache == [raw : Raws, sum : Nat, packs : SUBSET Orders]

Item == [raw : Raws, packs : SUBSET Orders]
NoItem == [raw |-> 0, packs |-> {}]

Idle == [pc |-> "idle", stamp |-> 0, item |-> NoItem]

\* The layout Init gives every output, and HandTrackingXGraph::Init the record
\* stream: an output is synchronised with exactly the outputs of its group.
GroupOrders(g) == {q \in Orders : GroupOf[q] = g}

SingleGroup == Cardinality(Groups) = 1

-----------------------------------------------------------------------------
Init ==
    /\ started = FALSE
    /\ graph = "idle"
    /\ accepted = {}
    /\ emitted = [o \in Orders |-> 0]
    /\ control = "stopped"
    /\ inference = [s \in {} |-> NoItem]
    /\ outputs = [g \in Groups |-> <<>>]
    /\ outlock = NoLock
    /\ pushpc = "idle"
    /\ pushraw = 0
    /\ cb = [o \in Orders |-> Idle]
    /\ readpc = [r \in Readers |-> "idle"]
    /\ got = [r \in Readers |-> 0]

-----------------------------------------------------------------------------
(* Start and Stop.                                                         *)

\* StartRun succeeds; a failed StartRun returns and changes nothing.
StartRun ==
    /\ control = "stopped"
    /\ graph' = "running"
    /\ control' = "starting"
    /\ UNCHANGED <<started, accepted, emitted, inference, outputs, outlock,
                   pushVars, cb, readVars>>

\* WaitUntilIdle returns; if it fails the flag stays FALSE and Start returns.
StartFinish ==
    /\ control = "starting"
    /\ control' = "up"
    /\ started' \in BOOLEAN
    /\ UNCHANGED <<graphVars, inference, outputs, outlock, pushVars, cb, readVars>>

StopFlagForgotten ==
    /\ control = "up"
    /\ pushpc = "idle"
    /\ started' = started
    /\ control' = "closing"
    /\ UNCHANGED <<graphVars, inference, outputs, outlock, pushVars, cb, readVars>>

\* The callers of Stop hold m_mutex_processdata exclusively and the camera
\* thread holds it shared for all of PushData (module Plugin): no frame is
\* being pushed when Stop begins, and none is until it returns.
StopFlag ==
    /\ control = "up"
    /\ pushpc = "idle"
    /\ started' = FALSE
    /\ control' = "closing"
    /\ UNCHANGED <<graphVars, inference, outputs, outlock, pushVars, cb, readVars>>

\* CloseAllInputStreams; when it fails Stop returns early, the graph running.
StopClose ==
    /\ control = "closing"
    /\ \/ graph' = "closed" /\ control' = "waiting"
       \/ graph' = graph /\ control' = "up"
    /\ UNCHANGED <<started, accepted, emitted, inference, outputs, outlock,
                   pushVars, cb, readVars>>

StopDoneUnwaited ==
    /\ control = "waiting"
    /\ graph' = "idle"
    /\ accepted' = {}
    /\ emitted' = [o \in Orders |-> 0]
    /\ control' = "stopped"
    /\ UNCHANGED <<started, inference, outputs, outlock, pushVars, cb, readVars>>

\* WaitUntilDone returns once no callback runs; what the graph has not output
\* by then it never outputs.
StopDone ==
    /\ control = "waiting"
    /\ \A o \in Orders : cb[o].pc = "idle"
    /\ graph' = "idle"
    /\ accepted' = {}
    /\ emitted' = [o \in Orders |-> 0]
    /\ control' = "stopped"
    /\ UNCHANGED <<started, inference, outputs, outlock, pushVars, cb, readVars>>

-----------------------------------------------------------------------------
(* PushData: SetInputStreamCache, AddPacketToInputStream, and              *)
(* ClearInputStreamCache when the graph refuses the packet.                *)

\* The unlocked check of graph_started.  Timestamps increase.
PushBegin(raw) ==
    /\ pushpc = "idle"
    /\ control \notin {"closing", "waiting"}
    /\ raw > pushraw
    /\ pushraw' = raw
    /\ pushpc' = IF started THEN "register" ELSE "idle"
    /\ UNCHANGED <<started, graphVars, control, inference, outputs, outlock, cb, readVars>>

EvictLate(f) ==
    Restrict(f, {s \in DOMAIN f : Cardinality({t \in DOMAIN f : t >= s}) <= MaxCache})

\* The entries CleanGraphNoResultInferenceCache leaves: it erases the lowest
\* stamp as long as the map holds MaxCache entries or more.
CleanGraphNoResultInferenceCache(f) ==
    Restrict(f, {s \in DOMAIN f : Cardinality({t \in DOMAIN f : t >= s}) < MaxCache})

RegisterUnstamped(f, s, raw) ==
    [t \in DOMAIN f \cup {s} |->
        IF t = s THEN [raw |-> 0, sum |-> 0, packs |-> {}] ELSE f[t]]

RegisterCounted(f, s, raw) ==
    [t \in DOMAIN f \cup {s} |->
        IF t = s THEN [raw |-> raw, sum |-> 1, packs |-> {}] ELSE f[t]]

\* A frame enters the inference cache with no output yet.
Register(f, s, raw) ==
    [t \in DOMAIN f \cup {s} |->
        IF t = s THEN [raw |-> raw, sum |-> 0, packs |-> {}] ELSE f[t]]

\* A repeated stamp is refused and leaves the first registration alone.
SetInputStreamCache ==
    LET s == Micro(pushraw) IN
    /\ pushpc = "register"
    /\ IF s \in DOMAIN inference
       THEN /\ pushpc' = "idle"
            /\ UNCHANGED inference
       ELSE /\ pushpc' = "image"
            /\ inference' = CleanGraphNoResultInferenceCache(Register(inference, s, pushraw))
    /\ UNCHANGED <<started, graphVars, control, outputs, outlock, pushraw, cb, readVars>>

\* The image packet.  External: the graph refuses a stamp that is not above
\* all it has, and may refuse any packet.
AddImage ==
    LET s == Micro(pushraw) IN
    /\ pushpc = "image"
    /\ \/ /\ graph = "running"
          /\ \A t \in accepted : s > t
          /\ accepted' = accepted \cup {s}
          /\ pushpc' = "pose"
       \/ /\ UNCHANGED accepted
          /\ pushpc' = "clear"
    /\ UNCHANGED <<started, graph, emitted, control, inference, outputs, outlock,
                   pushraw, cb, readVars>>

\* The head pose packet; one refusal of the two is enough for PushData to clear
\* the registration.  The code adds it after a refused image too: the outcome
\* then changes nothing kept here, and AddImage goes straight to clearing.
AddHeadPose ==
    /\ pushpc = "pose"
    /\ pushpc' \in {"idle", "clear"}
    /\ UNCHANGED <<started, graphVars, control, inference, outputs, outlock,
                   pushraw, cb, readVars>>

ClearInputStreamCache ==
    /\ pushpc = "clear"
    /\ inference' = Restrict(inference, DOMAIN inference \ {Micro(pushraw)})
    /\ pushpc' = "idle"
    /\ UNCHANGED <<started, graphVars, control, outputs, outlock, pushraw, cb, readVars>>

-----------------------------------------------------------------------------
(* CallBackInferenceResult on the executor thread of output stream o.      *)

\* SyncOrderBitmap: every output of o's group has arrived.
SyncOrderBitmap(o, packs) == GroupOrders(GroupOf[o]) \subseteq packs

\* Where a callback continues once it has nothing (more) to move.
AfterMove == IF SingleGroup THEN "size" ELSE "idle"

CallbackAt(pc, s, item) ==
    IF pc = "idle" THEN Idle ELSE [pc |-> pc, stamp |-> s, item |-> item]

\* External: MediaPipe calls the observer of a stream on increasing stamps,
\* one call at a time, on stamps it took in and chose not to drop.
Emit(o, s) ==
    /\ graph \in {"running", "closed"}
    /\ cb[o].pc = "idle"
    /\ s \in accepted
    /\ s > emitted[o]
    /\ emitted' = [emitted EXCEPT ![o] = s]

\* The frame s after output o arrived.
Collected(s, o) ==
    [raw   |-> inference[s].raw,
     sum   |-> inference[s].sum + 1,
     packs |-> inference[s].packs \cup {o}]

\* The first critical section: find the frame, store the packet, erase the
\* frame when all its outputs are there, decide whether to move it.
CallBackInferenceResult(o, s) ==
    /\ Emit(o, s)
    /\ IF s \in DOMAIN inference
       THEN LET c == Collected(s, o)
                full == c.sum = Cardinality(Orders)
                moved == IF SingleGroup THEN full ELSE SyncOrderBitmap(o, c.packs)
            IN /\ inference' = IF full
                               THEN Restrict(inference, DOMAIN inference \ {s})
                               ELSE [inference EXCEPT ![s] = c]
               /\ cb' = [cb EXCEPT ![o] =
                            IF moved
                            THEN CallbackAt("move", s, [raw |-> c.raw, packs |-> c.packs])
                            ELSE CallbackAt(AfterMove, s, NoItem)]
       ELSE /\ UNCHANGED inference
            /\ cb' = [cb EXCEPT ![o] = CallbackAt(AfterMove, s, NoItem)]
    /\ UNCHANGED <<started, graph, accepted, control, outputs, outlock, pushVars, readVars>>

\* MoveOutputCache: the unlocked check of graph_started.
MoveCheck(o) ==
    /\ cb[o].pc = "move"
    /\ cb' = [cb EXCEPT ![o] =
                 IF started THEN [@ EXCEPT !.pc = "lock"]
                            ELSE CallbackAt(AfterMove, @.stamp, NoItem)]
    /\ UNCHANGED <<started, graphVars, control, inference, outputs, outlock,
                   pushVars, readVars>>

LoopCoverBack(q, item, depth) ==
    Append(IF Len(q) >= depth THEN SubSeq(q, 1, Len(q) - 1) ELSE q, item)

\* FIFO_FULL_LOOP_COVER: pop_back when full, then push_front.
LoopCover(q, item, depth) ==
    <<item>> \o (IF Len(q) >= depth THEN SubSeq(q, 1, Len(q) - 1) ELSE q)

MoveUnderLockClears(o) ==
    LET g == GroupOf[o]
        q == outputs[g]
    IN
    /\ cb[o].pc = "lock"
    /\ outlock = NoLock
    /\ Policy[g] # "BLOCK"
    /\ outputs' = [outputs EXCEPT ![g] =
                      IF Len(q) < Depth[g] THEN <<cb[o].item>> \o q ELSE <<>>]
    /\ cb' = [cb EXCEPT ![o] = CallbackAt(AfterMove, @.stamp, NoItem)]
    /\ UNCHANGED <<started, graphVars, control, inference, outlock, pushVars, readVars>>

\* MoveOutputCache with m_output_lock: the two policies that do not wait ...
MoveUnderLock(o) ==
    LET g == GroupOf[o]
        q == outputs[g]
    IN
    /\ cb[o].pc = "lock"
    /\ outlock = NoLock
    /\ \/ /\ Policy[g] = "LOOP_COVER"
          /\ outputs' = [outputs EXCEPT ![g] = LoopCover(q, cb[o].item, Depth[g])]
       \/ /\ Policy[g] = "DROP"
          /\ outputs' = [outputs EXCEPT ![g] =
                            IF Len(q) < Depth[g] THEN <<cb[o].item>> \o q ELSE q]
    /\ cb' = [cb EXCEPT ![o] = CallbackAt(AfterMove, @.stamp, NoItem)]
    /\ UNCHANGED <<started, graphVars, control, inference, outlock, pushVars, readVars>>

\* ... and FIFO_FULL_BLOCK, which takes the lock,
BlockBegin(o) ==
    /\ cb[o].pc = "lock"
    /\ outlock = NoLock
    /\ Policy[GroupOf[o]] = "BLOCK"
    /\ outlock' = o
    /\ cb' = [cb EXCEPT ![o].pc = "block"]
    /\ UNCHANGED <<started, graphVars, control, inference, outputs, pushVars, readVars>>

BlockEndUnwaited(o) ==
    LET g == GroupOf[o] IN
    /\ cb[o].pc = "block"
    /\ outputs' = [outputs EXCEPT ![g] =
                      IF started THEN <<cb[o].item>> \o @ ELSE @]
    /\ outlock' = NoLock
    /\ cb' = [cb EXCEPT ![o] = CallbackAt(AfterMove, @.stamp, NoItem)]
    /\ UNCHANGED <<started, graphVars, control, inference, pushVars, readVars>>

\* sleeps as long as the graph is started and the group full, then pushes
\* unless the graph has been stopped.
BlockEnd(o) ==
    LET g == GroupOf[o] IN
    /\ cb[o].pc = "block"
    /\ ~(started /\ Len(outputs[g]) >= Depth[g])
    /\ outputs' = [outputs EXCEPT ![g] =
                      IF started THEN <<cb[o].item>> \o @ ELSE @]
    /\ outlock' = NoLock
    /\ cb' = [cb EXCEPT ![o] = CallbackAt(AfterMove, @.stamp, NoItem)]
    /\ UNCHANGED <<started, graphVars, control, inference, pushVars, readVars>>

\* With one group: the unlocked read of the inference cache's size ...
SizeCheck(o) ==
    /\ cb[o].pc = "size"
    /\ cb' = [cb EXCEPT ![o] =
                 IF Cardinality(DOMAIN inference) >= MinCache
                 THEN [@ EXCEPT !.pc = "clean"] ELSE Idle]
    /\ UNCHANGED <<started, graphVars, control, inference, outputs, outlock,
                   pushVars, readVars>>

\* ... and the erasure of every stamp below the one of this callback.
CleanMediapipeDropedInferenceCache(o) ==
    /\ cb[o].pc = "clean"
    /\ inference' = Restrict(inference, {s \in DOMAIN inference : s >= cb[o].stamp})
    /\ cb' = [cb EXCEPT ![o] = Idle]
    /\ UNCHANGED <<started, graphVars, control, outputs, outlock, pushVars, readVars>>

CallbackStep(o) ==
    \/ MoveCheck(o)
    \/ MoveUnderLock(o)
    \/ BlockBegin(o)
    \/ BlockEnd(o)
    \/ SizeCheck(o)
    \/ CleanMediapipeDropedInferenceCache(o)

-----------------------------------------------------------------------------
(* GetOutputStreamCache.                                                   *)

\* The unlocked test of the list's size; an empty list returns nullptr.
GetCheck(r) ==
    /\ readpc[r] = "idle"
    /\ outputs[ReaderGroup[r]] # <<>>
    /\ readpc' = [readpc EXCEPT ![r] = "front"]
    /\ UNCHANGED <<started, graphVars, control, inference, outputs, outlock,
                   pushVars, cb, got>>

GetBack(r) ==
    /\ readpc[r] = "front"
    /\ outlock = NoLock
    /\ got' = [got EXCEPT ![r] = outputs[ReaderGroup[r]][Len(outputs[ReaderGroup[r]])].raw]
    /\ readpc' = [readpc EXCEPT ![r] = "idle"]
    /\ UNCHANGED <<started, graphVars, control, inference, outputs, outlock, pushVars, cb>>

\* front(), under the lock; the test above is not repeated.
GetFront(r) ==
    /\ readpc[r] = "front"
    /\ outlock = NoLock
    /\ got' = [got EXCEPT ![r] = Head(outputs[ReaderGroup[r]]).raw]
    /\ readpc' = [readpc EXCEPT ![r] = "idle"]
    /\ UNCHANGED <<started, graphVars, control, inference, outputs, outlock, pushVars, cb>>

\* front() and pop_front(): reuse = false.
GetFrontAndPop(r) ==
    /\ r \in Drainers
    /\ readpc[r] = "front"
    /\ outlock = NoLock
    /\ got' = [got EXCEPT ![r] = Head(outputs[ReaderGroup[r]]).raw]
    /\ outputs' = [outputs EXCEPT ![ReaderGroup[r]] = Tail(@)]
    /\ readpc' = [readpc EXCEPT ![r] = "idle"]
    /\ UNCHANGED <<started, graphVars, control, inference, outlock, pushVars, cb>>

-----------------------------------------------------------------------------
Next ==
    \/ StartRun
    \/ StartFinish
    \/ StopFlag
    \/ StopClose
    \/ StopDone
    \/ \E raw \in Raws : PushBegin(raw)
    \/ SetInputStreamCache
    \/ AddImage
    \/ AddHeadPose
    \/ ClearInputStreamCache
    \/ \E o \in Orders, s \in accepted : CallBackInferenceResult(o, s)
    \/ \E o \in Orders : CallbackStep(o)
    \/ \E r \in Readers : GetCheck(r)
    \/ \E r \in Readers : GetFront(r)
    \/ \E r \in Readers : GetFrontAndPop(r)

Spec == Init /\ [][Next]_vars

\* The executor threads of the graph run, and a caller in Stop does not walk
\* away.  Nothing obliges the camera, the readers or a caller of Stop to act.
Fairness ==
    /\ \A o \in Orders : WF_vars(CallbackStep(o))
    /\ WF_vars(StopDone)

FairSpec == Spec /\ Fairness

\* Readers that keep polling: they look again and again, and a drainer gets
\* the lock, and pops, when it is free again and again.
PollingFairness ==
    /\ \A r \in Readers : WF_vars(GetCheck(r)) /\ SF_vars(GetFront(r))
    /\ \A r \in Drainers : SF_vars(GetFrontAndPop(r))

PolledSpec == FairSpec /\ PollingFairness

-----------------------------------------------------------------------------
(* Properties.                                                             *)

GraphStates == {"idle", "running", "closed"}
ControlStates == {"stopped", "starting", "up", "closing", "waiting"}
PushStates == {"idle", "register", "image", "pose", "clear"}
CallbackStates == {"idle", "move", "lock", "block", "size", "clean"}

\* Every variable has the type of the C++ member it stands for; in particular
\* the inference cache maps graph stamps to StreamCache records.
TypeOK ==
    /\ started \in BOOLEAN
    /\ graph \in GraphStates
    /\ accepted \subseteq Stamps
    /\ emitted \in [Orders -> Nat]
    /\ control \in ControlStates
    /\ DOMAIN inference \subseteq Stamps
    /\ inference \in [DOMAIN inference -> StreamCache]
    /\ outputs \in [Groups -> Seq(Item)]
    /\ outlock \in Orders \cup {NoLock}
    /\ pushpc \in PushStates
    /\ pushraw \in Raws \cup {0}
    /\ cb \in [Orders -> [pc : CallbackStates, stamp : Nat, item : Item \cup {NoItem}]]
    /\ readpc \in [Readers -> {"idle", "front"}]
    /\ got \in [Readers -> Raws \cup {0}]

\* A frame the executor of o has completed and not yet put into its group.
Pending(o) == cb[o].pc \in {"move", "lock", "block"}

\* The inference cache stays below BASEXGRAPH_MAX_GLOBALCACHEDEPTH although
\* frames without a result are never erased by a callback.
InferenceBounded == Cardinality(DOMAIN inference) < MaxCache

\* No policy of MoveOutputCache lets a group outgrow its max_depth, whoever
\* reads, drains or stops the graph meanwhile.
DepthBounded == \A g \in Groups : Len(outputs[g]) <= Depth[g]

\* A frame in the output cache of a group carries the packet of every output
\* of that group: PopResult calls Get() on m_output_packs without a check.
OutputsComplete ==
    \A g \in Groups : \A i \in DOMAIN outputs[g] :
        GroupOrders(g) \subseteq outputs[g][i].packs

\* Every output cache runs from the newest frame to the oldest, which is what
\* makes front() "the newest result", however the callbacks of several output
\* streams interleave between m_inference_lock and m_output_lock.
NewestFirst ==
    \A g \in Groups : \A i, j \in DOMAIN outputs[g] :
        i < j => outputs[g][i].raw > outputs[g][j].raw

\* GetOutputStreamCache tests the size without the lock and calls front() with
\* it: a reader between the two never finds the list empty.
FrontExists ==
    \A r \in Readers : readpc[r] = "front" => outputs[ReaderGroup[r]] # <<>>

\* Once Stop has run to its end no late callback adds a result, although
\* callbacks test graph_started before they take m_output_lock.  A Stop that
\* returns early, because CloseAllInputStreams fails, does not wait for them.
QuietWhenStopped ==
    [][control = "stopped" => \A g \in Groups : Len(outputs'[g]) <= Len(outputs[g])]_vars

\* Stop comes to its end: even a callback asleep in FIFO_FULL_BLOCK lets
\* WaitUntilDone return, because graph_started is cleared first.
StopCompletes == (control = "waiting") ~> (control = "stopped")

\* A graph whose readers keep polling is never held up by its output cache: a
\* callback that waits in FIFO_FULL_BLOCK goes on once a result is taken.
BlockedCallbackResumes ==
    \A o \in Orders : (cb[o].pc = "block") ~> (cb[o].pc # "block")

\* Can output stream q still deliver stamp s?
CanEmit(q, s) ==
    \/ s \in accepted /\ s > emitted[q]
    \/ pushpc = "image" /\ Micro(pushraw) = s /\ \A t \in accepted : s > t

\* What a reader that never drains sees of its group: a register that holds
\* the newest result (module LatestResult).
Watchers == {r \in Readers : \A d \in Drainers : ReaderGroup[d] # ReaderGroup[r]}

Newest(g) == IF outputs[g] = <<>> THEN 0 ELSE outputs[g][1].raw

Latest == INSTANCE LatestResult WITH
    Readers <- Watchers,
    Source <- [r \in Watchers |-> ReaderGroup[r]],
    Channels <- {ReaderGroup[r] : r \in Watchers},
    latest <- [g \in {ReaderGroup[r] : r \in Watchers} |-> Newest(g)],
    seen <- [r \in Watchers |-> got[r]]

\* The output cache implements the register: results are published in time
\* order, a read returns the newest one and never goes back in time.
ImplementsLatest == Latest!Spec
=============================================================================
