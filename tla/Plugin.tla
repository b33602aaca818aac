------------------------------- MODULE Plugin -------------------------------
(***************************************************************************)
(* The plugin singleton of handtracking_sdk_interface.cpp.  The host drives *)
(* Initialize, Start, Pause, Resume, Stop and Release from one thread; its *)
(* camera threads call NotifyData, and others poll GetHandData, whenever   *)
(* they like.  m_mutex_processdata is held shared for the processing of a  *)
(* frame and exclusively by Stop and Pause; Initialize, Start, Release and *)
(* GetHandData take no lock.                                               *)
(*                                                                         *)
(* The images of a frame live in blocks of FixedMembuffer that the camera  *)
(* thread requests and the graph gives back.  The graph itself is module   *)
(* BaseXGraph; here it either runs or does not.                            *)
(***************************************************************************)
EXTENDS FixedMembuffer

CONSTANTS
    Images,       \* m_nr_cameras: images per frame
    Pollers,      \* threads that call GetHandData
    MaxSessions   \* bound: how often the host initialises and releases the plugin

Cams == Requesters

ASSUME PluginAssumption ==
    /\ Images \in Nat \ {0}
    /\ MaxSessions \in Nat

VARIABLES
    host,      \* external: has the host called Initialize, and did it fail?
    sessions,  \* calls of Release so far
    life,      \* where the lifecycle thread is
    inited,    \* m_is_init
    started,   \* m_is_start
    impl,      \* m_pipeline and the state of its m_graph_impl
    picbuf,    \* is there an m_picbuf?
    cam,       \* where each camera thread is in NotifyData
    images,    \* the images of the frame it works on
    ingraph,   \* external: images in packets of the graph
    poll       \* where each poller is in GetHandData

pvars == <<bufVars, host, sessions, life, inited, started, impl, picbuf, cam,
           images, ingraph, poll>>

\* "none": no Pipeline; "empty": a Pipeline without m_graph_impl.
Ready == {"stopped", "running"}

PluginInit ==
    /\ BufInit
    /\ host = "out"
    /\ sessions = 0
    /\ life = "idle"
    /\ inited = FALSE
    /\ started = FALSE
    /\ impl = "none"
    /\ picbuf = FALSE
    /\ cam = [c \in Cams |-> "idle"]
    /\ images = [c \in Cams |-> {}]
    /\ ingraph = {}
    /\ poll = [r \in Pollers |-> "idle"]

camVars == <<cam, images>>

-----------------------------------------------------------------------------
(* m_mutex_processdata.                                                    *)

SharedHolders == {c \in Cams : cam[c] # "idle"}
HeldExclusively == life = "stopping"

-----------------------------------------------------------------------------
(* The lifecycle thread.                                                   *)

\* Initialize: a fresh m_picbuf replaces the old one.  (A call that fails
\* before, on an unknown device, changes nothing.)
InitializeBuffer ==
    /\ life = "idle"
    /\ host \in {"out", "failed"}
    /\ sessions < MaxSessions
    /\ picbuf' = TRUE
    /\ keyid' = 0 /\ cachesize' = 0
    /\ free' = {}
    /\ life' = "initializing"
    /\ UNCHANGED <<lent, req, host, sessions, inited, started, impl, camVars,
                   ingraph, poll>>

\* GetPipeline and Pipeline::Init: m_is_init is set on success and left alone
\* on failure; no usable pipeline configuration leaves m_pipeline alone too.
InitializePipeline ==
    /\ life = "initializing"
    /\ life' = "idle"
    /\ \/ impl' = "stopped" /\ inited' = TRUE /\ host' = "in"
       \/ impl' \in {"empty", impl} /\ inited' = inited /\ host' = "failed"
    /\ UNCHANGED <<bufVars, sessions, started, picbuf, camVars, ingraph, poll>>

StartUnchecked ==
    /\ life = "idle"
    /\ host # "out"
    /\ impl' = IF impl = "none" THEN "empty" ELSE impl
    /\ life' = "starting"
    /\ UNCHANGED <<bufVars, host, sessions, inited, started, picbuf, camVars,
                   ingraph, poll>>

\* Start, and Resume, which is the same code: the check of m_is_init, ...
StartCheck ==
    /\ life = "idle"
    /\ host # "out"
    /\ inited
    /\ impl' = IF impl = "none" THEN "empty" ELSE impl
    /\ life' = "starting"
    /\ UNCHANGED <<bufVars, host, sessions, inited, started, picbuf, camVars,
                   ingraph, poll>>

\* ... Impl()->Start(), whose status is ignored, ...
StartImpl ==
    /\ life = "starting"
    /\ impl' \in {impl, "running"}
    /\ life' = "flagging"
    /\ UNCHANGED <<bufVars, host, sessions, inited, started, picbuf, camVars,
                   ingraph, poll>>

\* ... and ins.Start().  No lock is taken.
StartFlag ==
    /\ life = "flagging"
    /\ started' = TRUE
    /\ life' = "idle"
    /\ UNCHANGED <<bufVars, host, sessions, inited, impl, picbuf, camVars,
                   ingraph, poll>>

\* Stop, and Pause, which is the same code: the check of m_is_init, ...
StopCheck ==
    /\ life = "idle"
    /\ host # "out"
    /\ inited
    /\ life' = "locking"
    /\ UNCHANGED <<bufVars, host, sessions, inited, started, impl, picbuf,
                   camVars, ingraph, poll>>

StopLockAtOnce ==
    /\ life = "locking"
    /\ started' = FALSE
    /\ impl' = IF impl = "none" THEN "empty" ELSE impl
    /\ life' = "stopping"
    /\ UNCHANGED <<bufVars, host, sessions, inited, picbuf, camVars, ingraph, poll>>

\* ... the exclusive lock, granted when no frame is being processed, and
\* ins.Stop() under it, ...
StopLock ==
    /\ life = "locking"
    /\ SharedHolders = {}
    /\ started' = FALSE
    /\ impl' = IF impl = "none" THEN "empty" ELSE impl
    /\ life' = "stopping"
    /\ UNCHANGED <<bufVars, host, sessions, inited, picbuf, camVars, ingraph, poll>>

\* ... and Impl()->Stop(): WaitUntilDone leaves no packet in the graph.
StopImpl ==
    /\ life = "stopping"
    /\ impl' = "stopped"
    /\ ReturnBlobs(ingraph)
    /\ ingraph' = {}
    /\ life' = "idle"
    /\ UNCHANGED <<keyid, cachesize, req, host, sessions, inited, started,
                   picbuf, camVars, poll>>

\* Release takes no lock and resets neither m_is_init nor m_is_start.  The
\* pipeline's destructor stops the graph; then m_picbuf goes, and with it the
\* free blocks.  External: the host stops the plugin before it releases it.
Release ==
    /\ life = "idle"
    /\ host # "out"
    /\ ~started
    /\ sessions' = sessions + 1
    /\ host' = "out"
    /\ impl' = "none"
    /\ picbuf' = FALSE
    /\ lent' = lent \ ingraph
    /\ ingraph' = {}
    /\ free' = {}
    /\ UNCHANGED <<keyid, cachesize, req, life, inited, started, camVars, poll>>

-----------------------------------------------------------------------------
(* NotifyData on camera thread c.                                          *)

NotifyDataUnchecked(c) ==
    /\ cam[c] = "idle"
    /\ ~HeldExclusively
    /\ inited
    /\ cam' = [cam EXCEPT ![c] = "parse"]
    /\ UNCHANGED <<bufVars, host, sessions, life, inited, started, impl,
                   picbuf, images, ingraph, poll>>

\* The shared lock and the check of m_is_start; a frame that comes while the
\* plugin is not started is dropped.
NotifyData(c) ==
    /\ cam[c] = "idle"
    /\ ~HeldExclusively
    /\ started
    /\ cam' = [cam EXCEPT ![c] = "parse"]
    /\ UNCHANGED <<bufVars, host, sessions, life, inited, started, impl,
                   picbuf, images, ingraph, poll>>

\* The loop of ParseAllCameraData over the images of the frame: memory for
\* the next one is requested ...
RequestImage(c) ==
    /\ cam[c] = "parse"
    /\ \E size \in Sizes : RequestMemBlob(c, size)
    /\ UNCHANGED <<host, sessions, life, inited, started, impl, picbuf,
                   camVars, ingraph, poll>>

StoreImageUnchecked(c) ==
    LET all == images[c] \cup {req[c].block} IN
    /\ cam[c] = "parse"
    /\ req[c].pc \in {"done", "refused"}
    /\ images' = [images EXCEPT ![c] = all]
    /\ cam' = [cam EXCEPT ![c] = IF Cardinality(all) = Images THEN "push" ELSE "parse"]
    /\ req' = [req EXCEPT ![c] = NoRequest]
    /\ UNCHANGED <<keyid, cachesize, free, lent, host, sessions, life, inited,
                   started, impl, picbuf, ingraph, poll>>

\* ... and granted,
StoreImage(c) ==
    LET all == images[c] \cup {req[c].block} IN
    /\ cam[c] = "parse"
    /\ req[c].pc = "done"
    /\ images' = [images EXCEPT ![c] = all]
    /\ cam' = [cam EXCEPT ![c] = IF Cardinality(all) = Images THEN "push" ELSE "parse"]
    /\ req' = [req EXCEPT ![c] = NoRequest]
    /\ UNCHANGED <<keyid, cachesize, free, lent, host, sessions, life, inited,
                   started, impl, picbuf, ingraph, poll>>

\* or refused: the frame is given up, and the images it has with it.
DropFrame(c) ==
    /\ cam[c] = "parse"
    /\ req[c].pc = "refused"
    /\ ReturnBlobs(images[c])
    /\ images' = [images EXCEPT ![c] = {}]
    /\ cam' = [cam EXCEPT ![c] = "idle"]
    /\ req' = [req EXCEPT ![c] = NoRequest]
    /\ UNCHANGED <<keyid, cachesize, host, sessions, life, inited, started,
                   impl, picbuf, ingraph, poll>>

\* PushData moves the images into a packet.  The graph keeps it, or refuses
\* it, or the second check of m_is_start fails: then the images go back.
PushData(c) ==
    /\ cam[c] = "push"
    /\ \/ /\ impl = "running" /\ started
          /\ ingraph' = ingraph \cup images[c]
          /\ UNCHANGED <<free, lent>>
       \/ /\ ReturnBlobs(images[c])
          /\ UNCHANGED ingraph
    /\ images' = [images EXCEPT ![c] = {}]
    /\ cam' = [cam EXCEPT ![c] = "idle"]
    /\ UNCHANGED <<keyid, cachesize, req, host, sessions, life, inited,
                   started, impl, picbuf, poll>>

\* External: the graph is done with an image.
GraphReturns(b) ==
    /\ b \in ingraph
    /\ ingraph' = ingraph \ {b}
    /\ ReturnBlobs({b})
    /\ UNCHANGED <<keyid, cachesize, req, host, sessions, life, inited,
                   started, impl, picbuf, camVars, poll>>

-----------------------------------------------------------------------------
(* GetHandData on polling thread r: no lock anywhere.                      *)

pollFrame == <<bufVars, host, sessions, life, inited, started, picbuf, camVars, ingraph>>

\* The check of m_is_init ...
PollCheck(r) ==
    /\ poll[r] = "idle"
    /\ inited
    /\ poll' = [poll EXCEPT ![r] = "pipeline"]
    /\ UNCHANGED <<pollFrame, impl>>

\* ... and GetPipeline, which tests m_pipeline ...
PollPipeline(r) ==
    /\ poll[r] = "pipeline"
    /\ poll' = [poll EXCEPT ![r] = IF impl = "none" THEN "create" ELSE "idle"]
    /\ UNCHANGED <<pollFrame, impl>>

\* ... and makes an empty one in its place.  What stood there by now is
\* destroyed.
PollCreate(r) ==
    /\ poll[r] = "create"
    /\ impl' = "empty"
    /\ lent' = lent \ ingraph
    /\ free' = free \cup ingraph
    /\ ingraph' = {}
    /\ poll' = [poll EXCEPT ![r] = "idle"]
    /\ UNCHANGED <<keyid, cachesize, req, host, sessions, life, inited,
                   started, picbuf, camVars>>

-----------------------------------------------------------------------------
PluginNext ==
    \/ InitializeBuffer
    \/ InitializePipeline
    \/ StartCheck
    \/ StartImpl
    \/ StartFlag
    \/ StopCheck
    \/ StopLock
    \/ StopImpl
    \/ Release
    \/ \E c \in Cams : NotifyData(c)
    \/ \E c \in Cams : RequestImage(c)
    \/ \E c \in Cams : StoreImage(c)
    \/ \E c \in Cams : DropFrame(c)
    \/ \E c \in Cams : PushData(c)
    \/ \E b \in ingraph : GraphReturns(b)
    \/ \E r \in Pollers : PollCheck(r)
    \/ \E r \in Pollers : PollPipeline(r)
    \/ \E r \in Pollers : PollCreate(r)

PluginSpec == PluginInit /\ [][PluginNext]_pvars

-----------------------------------------------------------------------------
(* Properties.                                                             *)

LifeStates == {"idle", "initializing", "starting", "flagging", "locking", "stopping"}

\* The members of Plugin and FixedMembuffer keep their types.
PluginTypeOK ==
    /\ BufTypeOK
    /\ host \in {"out", "failed", "in"}
    /\ sessions \in 0..MaxSessions
    /\ life \in LifeStates
    /\ inited \in BOOLEAN /\ started \in BOOLEAN /\ picbuf \in BOOLEAN
    /\ impl \in {"none", "empty"} \cup Ready
    /\ cam \in [Cams -> {"idle", "parse", "push"}]
    /\ images \in [Cams -> SUBSET Block]
    /\ ingraph \subseteq Block
    /\ poll \in [Pollers -> {"idle", "pipeline", "create"}]

\* A frame is processed only while the plugin is started, with the memory and
\* the graph it uses in place: ParseAllCameraData uses m_picbuf and Impl()
\* unchecked, and Stop and Release happen on another thread ("Plugin::Stop is
\* mutually exclusive with image processing as a whole").
ProcessesOnlyStarted ==
    \A c \in Cams : cam[c] # "idle" => started /\ picbuf /\ impl \in Ready

\* A lifecycle call that has passed isInit() finds an initialised pipeline:
\* Start and Stop call Impl()->Start() and Impl()->Stop() unchecked.
InitMeansImpl == life \in {"starting", "stopping"} => impl \in Ready

\* The blocks a thread that is not the graph holds.
CamBlocks(c) == images[c] \cup (IF req[c].pc = "done" THEN {req[c].block} ELSE {})

\* A block has one owner at a time and is free or owned: two requests never
\* get the same memory, and a block that is given up can be requested again.
OwnedOnce ==
    /\ free \cap lent = {}
    /\ \A a, b \in free \cup lent : a.name = b.name => a = b
    /\ lent = ingraph \cup UNION {CamBlocks(c) : c \in Cams}
    /\ \A c \in Cams : CamBlocks(c) \cap ingraph = {}
    /\ \A c, d \in Cams : c # d => CamBlocks(c) \cap CamBlocks(d) = {}

\* cache_size, which the budget is tested against, is the size of the blocks
\* there are, although it is charged in another critical section than the one
\* that finds no free block.
Accounted == picbuf => cachesize = TotalSize(free \cup lent)

\* The budget is tested and charged in different critical sections: camera
\* threads can exceed it, but by less than one block for each other thread.
BudgetBounded ==
    \E biggest \in Sizes :
        cachesize <= Budget + (Cardinality(Requesters) - 1) * biggest

\* No block outlives m_picbuf: the deleter of its shared_ptr works on the
\* FixedMembuffer that Release destroys.
NoOrphanBlock == ~picbuf => lent = {}
=============================================================================
