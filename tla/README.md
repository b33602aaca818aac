# Verification of aisdk: the hand-tracking SDK

TLA+ models of the concurrent parts of the aisdk repository - the SDK's stream
caches, its plugin and image memory, and the test tool that plays recorded
pictures to it - with the TLC runs that check them on small instances and TLAPS
proofs for every instance. Paths below are relative to the repository (`src/`).

## 1. The system

A host application loads the SDK as a plugin. Camera threads hand it image
frames; a graph of calculators (MediaPipe, wrapped as `xgraph`) turns each
frame into hand poses on its own executor threads; other threads of the host
poll for the newest pose at any time.

```
 host lifecycle thread ── Initialize / Start / Pause / Resume / Stop / Release ─┐
 camera threads ── NotifyData ── ParseAllCameraData ── PushData ──┐             │
                                   │ RequestMemBlob               ▼             ▼
                                   ▼                     BaseXGraph  ◄──── Plugin
                              FixedMembuffer             inference cache, output groups
                                                                  ▲   │
 executor threads ── CallBackInferenceResult ── MoveOutputCache ──┘   │
 pollers ── GetHandData ── PopResult ── GetOutputStreamCache ◄────────┤
 exporter ── GetHandTrackingMidExecInfo ── PopExecInfo ◄──────────────┘
```

The test tool is one such host. Its client uploads the pictures of a data set to a
server; a stream agent there plays them to the plugin at their own or at a
simulated frame rate and hands the results back.

```
      client                                 server (StreamDataContrlAgent)
 SendPic ── PipelineInference ──► AddAgentData ── ProduceSomeSimulationData
                                    new and used pictures    │ send_list   │ recv_list
                                            ▲                ▼             ▼
                             DeleteUsedData └────────── SendWork       RecvWork
                                                             │ NotifyData  │ GetHandData
                                                             ▼             ▼
                                    ProfilingWork ◄──────── the SDK ──────►│
                                             │ records                     │
                                             ▼                             ▼
 RecvResult ◄── GetPipelineResult ◄── agent_result  ◄──────────────────────┘
 main ── GetReportResult, WaitAndStop, StopSdk ──► StopAgent
```

### Inventory

| component | state | operations | interacts with | hard behaviour | correct when |
|---|---|---|---|---|---|
| `BaseXGraph` (`aisdk/task/handtracking/base_xgraph.*`) | `graph_started`, inference cache (stamp → `StreamCache`), one list per output group, two mutexes | Start, Stop, Set/ClearInputStreamCache, the callback, MoveOutputCache, GetOutputStreamCache, two clean-ups | MediaPipe (calls and callbacks), the three task graphs | callbacks of several streams between two locks; unlocked flag and size reads; a policy that sleeps under a lock; restart | results are complete, newest first, bounded; Stop ends; nothing is added after it |
| `HandTrackingXGraph` (`handtracking_xgraph.cpp`) | the list of frames whose record is owed | PushData, PopResult, PopExecInfo, SetTrackFrameState | BaseXGraph, recorder | two lookups and two critical sections in PopExecInfo; ns → µs; one packet of two refused | frames leave in order, none with a waiting record is dropped |
| `Plugin` / `HandTracking` (`interface/handtracking_sdk`) | `m_is_init`, `m_is_start`, `m_pipeline`, `m_picbuf`, `m_mutex_processdata` | the lifecycle calls, NotifyData, GetHandData | all of the above | lifecycle against camera threads and pollers; failure and repetition of Initialize | a frame is processed only with memory and graph in place; a call that passes `isInit` finds a pipeline |
| `FixedMembuffer` (`aisdk/base/mem_buffer.h`) | free blocks, total size | RequestMemBlob, the deleter | camera threads, graph threads | budget tested outside the lock; blocks come back on other threads | one owner per block, bounded total |
| segmented graphs (`*_prior_glass_*`, `*_next_host_*`) | as BaseXGraph | PushData, PopResult, SendGlassPredictionData, NotifyDeviceMessage | BaseXGraph, Plugin | a sender thread joined by Stop | not modelled yet |
| stream agent (`tool/test_tool/server/hand_tracking.cpp`) | picture cache (new, used), `send_list`, `recv_list`, `agent_result`, expected records, seven counters | AddAgentData, ProduceSomeSimulationData, SendWork, RecvWork, ProfilingWork, GetAgentResult, StartAgent, StopAgent | client, SDK | four threads, a mutex per list and none for the counters; full cache; frames the SDK loses; records after a timeout | one result for every frame and query; over only when all is handed over; the cache empties; the test ends |
| test tool client (`tool/test_tool/client`) | pictures sent, results received, `test_finish`, `abort_finish` | SendPic, RecvResult, GetReportResult, WaitAndStop | stream agent, through a connection that may break | retry while the cache is full; end of the test against results on their way | nothing is missing from the report of a test that ended |
| `CoordTransformService` (`aisdk/base/coord_transform_service.h`) | matrix of transforms and a "set" flag each | setTransform, finalize | Pipeline Init, on a singleton | a recursive depth-first search that stores what it finds while it searches; a second Init | finalize succeeds exactly on a connected set; transforms fit together; the recursion is never deeper than there are systems |
| `ThreadPool`, `SharedQueue` (`aisdk/base`) | task queue, stop flag | enqueue, stop; push, pop, close | nobody: no file of the repository uses them | – | not modelled: dead code |
| calculators, predictors, filters, gestures, models | per-hand tracking state | one call per packet | graph | numerical | not modelled: floating point |
| xengine (inference back ends, image processing, tar/AES) | model handles | load, run | vendor libraries | numerical, I/O | not modelled |
| recorder, reporter, demo, vendored and generated code | – | I/O | – | – | not modelled |

`PROJECT.json` lists the components with their sources, and every hazard at the
line where it bites.

## 2. Modules

| module | models | state and actions |
|---|---|---|
| `BaseXGraph` | `BaseXGraph` and the PushData that drives it | see below |
| `LatestResult` | what GetOutputStreamCache promises ("the newest stream result") | a register per group: `Publish` newer, `Read` |
| `HandTrackingXGraph` | recording mode, extends `BaseXGraph` | `tracked` = keys of `m_debug_frame_infos_`; the steps of PopExecInfo and of the frame-tracking part of ParseAllCameraData |
| `FixedMembuffer` | the image memory | `Reuse`, `Miss`, `CheckBudget`, `Allocate`, `ReturnBlobs` |
| `Plugin` | the plugin singleton, extends `FixedMembuffer` | lifecycle thread (`life`), camera threads (`cam`), pollers (`poll`) |
| `StreamAgent` | the agent of the test tool's server | handler (`handler`), `sendwork`, `recvwork`, `profilingwork`: one program counter per thread; the lists and counters under their names in the code |
| `TestTool` | a whole test, extends `StreamAgent` with the client and the connection | `sendpic`, `recvresult`, `main` |
| `Exchange` | what a test promises its user | `Queue`, `Give` one result for everything queued, `Close`, `Finish` |
| `CoordTransform` | the coordinate service | the two matrices; `pair`, the loop of finalize (`StartFinalize`, `SkipPair`, `StartSearch`, `EndSearch`, `EndFinalize`); `stack` and `visited`, the activations of the search (`JoinDirect`, `Descend`, `Pass`, `Return`); `SetTransform`, `InitAgain` |
| `MCBaseXGraph`, `MCPolicies`, `MCHandTracking`, `MCPlugin`, `MCTestTool`, `MCCoordTransform` | instances for TLC | constants only |
| `BaseXGraphProofs`, `HandTrackingXGraphProofs`, `PluginProofs`, `TestToolProofs`, `CoordTransformProofs` | TLAPS proofs | – |

Operators that stand next to a definition and differ from it by one mistake
(`StopFlagForgotten`, `LoopCoverBack`, ...) are the mutants named in
`PROJECT.json`; no specification uses them.

**Atomicity.** One critical section of `m_inference_lock`, or of
`m_output_lock` when it does not sleep, is one step. An unlocked read the code
acts on later is a step of its own: `graph_started` in SetInputStreamCache
(`PushBegin`) and MoveOutputCache (`MoveCheck`), the size of the inference
cache (`SizeCheck`), the size of a list (`GetCheck`), the budget
(`CheckBudget`). `m_output_lock` is also a variable, because FIFO_FULL_BLOCK
sleeps holding it. `std::list::size()` and `std::map::size()` read without the
lock are taken as atomic reads of a current value (on the supported ABIs they
load one word); a torn read is not modelled.

**BaseXGraph.** `inference` maps a stamp to the raw timestamp, the count
`m_output_packs_sum` and the set of packets that arrived (`sync_bitmap` and
`m_output_packs` always change together). `outputs[g]` is the list of group `g`,
front first. A StreamCache that two groups share keeps receiving packets after
it was moved; the model stores the packets it had when it was moved, which is
what completeness is about. `cb[o]` is the program counter of the executor
thread of stream `o`. External, modelled from use: the graph accepts stamps in
increasing order and may refuse any packet; each stream calls its observer one
call at a time on increasing stamps; any frame may be dropped; WaitUntilDone
returns when no callback runs. The layout of synchronisation bitmaps is the one
`BaseXGraph::Init` and `HandTrackingXGraph::Init` set up: an output waits for
exactly its group.

Assumed of the environment, with the reason: camera timestamps increase and one
thread pushes at a time (a single camera stream; `NotifyData` itself would
admit more, see hazards); the callers of `Stop` hold `m_mutex_processdata`
exclusively, so no PushData overlaps it (`Plugin` models that lock); a group
that is popped has one reader (PopExecInfo is the only caller with
`reuse = false`).

**HandTrackingXGraph.** The target of PopExecInfo is read with
`begin()->first`, also from an empty map: then it is any value of `Garbage`, no
timestamp of a frame. `GraphStep` are the unchanged steps of BaseXGraph;
theorem `RecordingImplementsBase` shows that nothing else happens to its state.

**Plugin.** `impl` is `m_pipeline` together with its `m_graph_impl`: "none"
(no Pipeline), "empty" (no graph), "stopped", "running". Pause is the code of
Stop, Resume that of Start. The host calls the lifecycle functions from one
thread, stops before it releases and makes no call but Initialize after
Release, as `tool/test_tool/server/hand_tracking.cpp` does; camera threads and
pollers are free. A failed Initialize leaves `m_is_init` alone, with or without
an empty Pipeline.

**StreamAgent and TestTool.** A picture is its position in the data set; its
time is a constant. An action is one critical section of the mutex of a list with
the unlocked code of its thread around it. The counters have no lock, so every
increment that another thread can observe apart from the list it belongs to is a
step of its own (`RecvCount`, `ProfilingCount`), and so is the comparison of all of
them in GetAgentResult (`GetOver`), which comes after the list was found empty
under its lock (`GetNoResult`). The comparison itself is one step, which loses nothing: the flag is read first,
once it is set nothing more is queued, and a counter that has reached what was
queued stays there, so the order in which the six are read does not matter.
DeleteUsedData finds pictures nobody refers to by `use_count()`: the references
are those of `send_list`, of SendWork until it has dropped its own, and of the
handler. ProfilingWork is modelled with its three
ways of producing a result: a record that matches, the frames expected before it
that the SDK has lost, and the sweep after a minute without a record. That sweep
erases *and* increments its iterator, hence gives up every other expected frame,
and when it erases the last one, which it does when their number is odd, it
increments `end()` with `m_match_mutex` held. The model has what that does in
libstdc++ to an emptied map: the increment walks in circles in the end node and never
returns (`"stuck"`). With elements left it may give up more of them first; that is
left out. A record without an expected frame makes the code write through a null
pointer (`"crashed"`). External, modelled from use: the SDK names a record by the
time of its picture, answers in order, and loses a frame without a word if the mode
says `loses`; the connection may break, for good, and then StopSdk does not reach
the agent, which goes on until another client resets it (not modelled); a minute
without a record passes only when the SDK has nothing left to answer, unless the mode
says `slow`.

Pictures are in the order of their times, since the client's data set is a map
ordered by time. `AgentAssumption` also says that a second of pictures does not
fill the cache (60 pictures by default, against 30 a second): production starts when
the cache has been full and needs a picture of the next second, so otherwise both
sides would wait.

Left out or merged: the error with which the server refuses a picture (-2 in the
client, which counts it as sent) needs a second client; the simulated times of line 591 go
through a `float` and may be rounded; ProduceSomeSimulationData appends to `send_list` and to `recv_list` in two critical
sections, which are one step here (no thread reads both lists); an unreadable
picture is skipped by the client.

**CoordTransform.** The isometries of space are any group (`GroupAssumption`:
composition, its identity and inverses); floating-point error is left out. For TLC
they are the maps `x -> rot * x + shift` of the integers modulo 3, which do not
commute, so a chain joined in the wrong order shows. The recursion of
CalculateTransform is an explicit `stack` of activations, one turn of its loop a
step, with the `visited` systems and the transforms the code stores while it
searches. The service is a singleton, so a second Init finds the derived transforms
of the first one set.

## 3. Runs

| run | instance | checks | result |
|---|---|---|---|
| `base_multi_output` | 2 streams, 1 LOOP_COVER group of depth 2, raw stamps 2..6 at 2 ns per unit, MaxCache 3, MinCache 2, 1 reader | `TypeOK`, `InferenceBounded`, `OutputsComplete`, `NewestFirst`, `QuietWhenStopped`, `ImplementsLatest` | 518k states, pass |
| `policies` | a DROP and a BLOCK group of depth 1, 2 frames, a watcher and a draining exporter | `DepthBounded`, `FrontExists`, `StopCompletes` | 55k states, pass |
| `ht_record` | LOOP_COVER hand group, BLOCK record group of depth 2, 3 frames, exporter | `HTTypeOK`, `TakenIsOwed`, `OldestFirst` | 2.7M states, pass |
| `plugin` | 2 camera threads, stereo frames, block sizes 1 and 2, budget 3, 1 poller, 1 session | `PluginTypeOK`, `ProcessesOnlyStarted`, `InitMeansImpl`, `OwnedOnce`, `Accounted`, `BudgetBounded`, `NoOrphanBlock` | 364k states, pass |
| `block` | as `policies`, readers that keep polling | `BlockedCallbackResumes` | violated |
| `exec_keep` | as `ht_record` | `KeepsFrames` | violated |
| `test_tool` | 4 readable pictures in 3 seconds and an unreadable one, cache of 3; records at the pictures' own rate, from an SDK that loses frames or loses none, or one frame per second and a connection that may break | `TestTypeOK`, `AllReported`, `CacheReleased`, `RecordsMatch`, `PromiseKept`, `TestEnds` | 616k states, pass |
| `coord` | 5 systems, any 4 pairs, the 4 of SetGlobalCameraParams, and 5 pairs that close a cycle, 2 isometries for each, 2 Inits | `CoordTypeOK`, `FinalIffConnected`, `Coherent` | 380k states, pass |
| `reinit` | as `plugin`, 2 sessions | `InitMeansImpl` | violated |
| `lost_end` | as `test_tool` with records and lost frames | `AgentStops` | violated |
| `downsample` | 5 pictures in 3 seconds, one frame per second, cache of 3 | `TestEnds` | violated |
| `sweep` | as `test_tool` with records, an SDK that is slow | `RecordsMatch` | violated |

**Bounds.** `Raws` bounds the frames of a behaviour: with five frames in three
microseconds there are repeated stamps, a full inference cache, a full output
list and results of two runs of the graph (Stop and Start interleave freely
with the frames). `MaxCache` and `MinCache` stand for 900 and 30 and are small so
that eviction and trimming happen; depths 1 and 2 stand for 3 and 900.
In `policies` the first frame fills a group of depth 1 and the second finds it full,
in the same run of the graph or after a restart, which is all that DROP and BLOCK
distinguish. Two
camera threads are enough for the budget race, and three blocks for reuse.
`MaxSessions` bounds Initialize/Release cycles. In `test_tool` the cache is full
before the stream ends, so that production starts in the middle of it; a second has
two pictures, so that the nearest one must be chosen; the last picture cannot be
read; any subset of the frames is lost, so that a record finds zero, one or more
lost frames before it and the sweep an even or odd number. In `coord`, four pairs
are as many as connect five systems, and as few: of the 210 choices 125 are
trees; the others and the five pairs that close a cycle have systems that are
reached twice. The proofs remove the bounds of every module.
`plugin`, `test_tool` and `coord` switch the deadlock check off: a
released plugin that the host does not initialise again, a test that has ended and a
service that is final or has thrown stand still. That a test does end is
`TestEnds`: the client is done, and the agent has stopped unless the connection is
broken.

**Fairness.** `FairSpec` assumes weak fairness of each executor thread (the
pool of the graph runs what is ready) and of the return of WaitUntilDone.
Nothing is assumed of cameras, readers or the caller of Stop. `PolledSpec`, used
by `block` only, adds that readers keep polling and get a lock that is free
again and again (strong fairness): the violation is then not a reader's fault.
`FairSpec` of `TestTool` assumes weak fairness of every thread of the client and of
the server, which are plain `std::thread`s that poll with a sleep; each of them
can always take a step that is enabled, since a mutex is held for one critical
section only. Nothing makes the connection break, and Stop is enabled only while
it holds. An SDK that loses no frame answers in the end; one that does leaves the
end of the test to the sweep, which does not come back. `TestEnds` therefore speaks of
tests with records only where nothing is lost, and `lost_end` shows the other case.

### What the violations show

* **block.** The header says the graph is never blocked by its readers. In
  FIFO_FULL_BLOCK (900 records waiting) the callback sleeps with
  `m_output_lock` held; the reader that would make room needs that lock. Only
  Stop ends it (`StopCompletes` shows that it does).
* **exec_keep.** "Keeps frames and order": order is kept (`OldestFirst`),
  frames are not. The front of the list is the newest record, so with two
  records waiting the frame of the older one is reported busy.
* **reinit.** `m_is_init` survives Release. After a second Initialize that
  fails, Start passes its check and uses a null graph.
* **downsample.** DeleteUsedData gives up one picture per frame sent. With a
  simulated rate below that of the pictures more pictures are used than frames
  sent, so some stay in the cache for good; once they fill it the client is told
  to wait for ever. At other rates the cache empties (`CacheReleased`, proved).
* **lost_end.** When no record follows the frames the SDK has lost, the sweep has to
  give them up. Each pass halves an even number of them; an odd number makes it
  increment `end()`. So the thread hangs with `m_match_mutex` held (or crashes), while
  the comment at line 770 says that the loop deletes the lost data. If frames are still
  to be sent, SendWork waits for that mutex, and the client polls for results that
  never come; this is TLC's trace. If none are, the test is reported complete, but
  StopAgent waits for ever to join the thread, and the client for StopSdk.
* **sweep.** The minute is measured from the last record, not from the frame: after
  an upload that took longer than a minute the sweep gives up frames sent a moment
  ago, and their records then match nothing: in TLC's trace the first of two expected
  frames is given up, and its record, which arrives afterwards, crashes the thread.

A passing run shows one defect as well. PopExecInfo looks at the front of the records,
exports it, and pops what is the front *then*. A callback that pushes a newer record
in between makes it pop that one unseen, while the exported record stays in the list,
against the comment "clear the used one" of `handtracking_xgraph.cpp:423`. No run is
spent on the violation; `TakenIsOwed` says what the code does guarantee: a record
popped in place of the exported one belongs to a frame that is still owed, so the loss
can only cost a record of a frame that is reported later, never disturb one reported
before.

## 4. Proofs

All constants are arbitrary up to the named assumptions: finite non-empty sets
of streams, a finite set of groups, positive depths and cache limit, timestamps
of at least one microsecond, one reader per drained group, `Garbage` without
frame timestamps; finite sets of camera threads and pollers, positive block
sizes; pictures in the order of their times, fewer of them in a second than the
cache holds; any number of coordinate systems and any group of isometries.

`BaseXGraphProofs` proves `IInv` inductive and from it `TypeOK`,
`InferenceBounded`, `DepthBounded`, `OutputsComplete`, `NewestFirst`,
`FrontExists`, `QuietWhenStopped` and the refinement of `LatestResult`.
`NewestFirst` is not inductive: nothing in it forbids a registered old frame to
be completed after a newer one was moved. The key conjunct is
`OvertakenIsDead`: if a group holds, or a callback carries, a result newer than
a registered frame that lacks outputs of the group, then some missing output can
never arrive, since its stream has moved past that stamp or the run that took the
stamp is over. With it, a frame that completes is newer than everything its group
holds (`PendingNewest`) and at most one callback of a group carries a frame
(`OnePending`), so push_front keeps the order. `NoRepeat` (a packet is not
delivered twice for a registration) ties the count of packets to the set of
packets, which gives `OutputsComplete` for the single-group path, where the code
compares the count only. `Phases` orders Start, Stop and PushData, and gives
`QuietWhenStopped`.

The steps of `Next` are first grouped by what they do to the caches (`Shape`);
then there is one lemma per conjunct.

`HandTrackingXGraphProofs` proves that the recording pipeline implements
BaseXGraph, hence keeps `IInv`, and adds: the exporter is inside
GetOutputStreamCache exactly where PopExecInfo calls it, the target is the
smallest owed frame or no frame, and the front of the records only gets newer
while it decides (only the exporter pops, and pushed records are newer by
`PendingNewest`). `CachesSettled` says that a frame in the caches is owed, or about to
be, or older than every owed one; with the target owed and the oldest, the record that
the second lookup takes is the target's or that of a newer owed frame. This gives
`HTTypeOK`, `TakenIsOwed` and `OldestFirst`.

`PluginProofs` proves `PluginTypeOK` and `BudgetBounded` for any number of
sessions, and `ProcessesOnlyStarted`, `InitMeansImpl`, `OwnedOnce`,
`NoOrphanBlock` and `Accounted` for one (`FirstSession`: `MaxSessions <= 1`). With
a second session all of these but `NoOrphanBlock` are false (run `reinit` has
`InitMeansImpl`); for `NoOrphanBlock` no counterexample with two sessions is known,
but its proof rests on the others.
`BudgetBounded` speaks of a race between the test of the budget and the charge, and
its bound depends on how many threads are in between; `BudgetInv` names the thread
that was the last to pass the test and bounds what the others can have
charged since. `SessionInv` ties `m_is_init`, `m_is_start` and the graph to the
place of the lifecycle thread, `FrameInv` says that a camera thread in the middle of
a frame holds the shared lock, hence that Stop is not past its exclusive one, and
`BlockInv` adds to `OwnedOnce` that every block out is held by a camera thread
or by a graph that runs. `Accounted` compares the total the code keeps with the
sizes of all blocks; the model states their sum as the number of their bytes
(`TotalSize`), which grows by the size of a block that is allocated and needs no
induction over the set of blocks.

`TestToolProofs` proves, for any pictures, rates, cache, loss of frames and break of
the connection:
* `TestTypeOK`, from `TypeInv` and `SrcInv`: the new pictures stand in order above
  the used ones, and none is beyond what the client has offered, so that the count
  of the cache is exact;
* `PromiseKept`, the refinement of `Exchange`. `Conserved` is a law of
  conservation: results handed over, results waiting, frames and queries queued,
  and the frames SendWork and ProfilingWork hold (`Pending`) add up to what was
  queued. When the counters compare equal and the flag is set, nothing can be in
  between. The law holds until the agent is stopped, where ProfilingWork leaves
  results nobody asks for;
* `CacheReleased`: at a rate that keeps up, a second queues at least as many frames
  as it uses pictures, and when a frame is sent there is an unreferenced picture to
  give up or every used picture is still to be sent (a pigeonhole argument over
  `send_list`);
* `RecordsMatch`, under `RecordModes`: with records wanted, the rate is the
  pictures' own and the SDK is not slow. `OrderInv` sorts the frames expected, about
  to be registered and to be sent, by id and time at once; `MatchInv` says that
  `match_profiling` and `order_match_profiling_id` have the same frames, but for the
  one ProfilingWork is between, and that the SDK owes, in order, only records of
  those. The restriction is needed: run `sweep` has the case of a slow SDK; and at
  a simulated rate the frame is expected under its simulated time while the record
  bears the time of the picture;
* `AllReported`, under `OwnRate`, the first half of `RecordModes`: a slow SDK may make
  ProfilingWork crash, but never makes a test that ends miss a result. `Conserved`
  counts; this follows every frame. `FrameInv` says that the ids the client has, those
  in `agent_result`, those in `send_list` and those of the frames a thread holds or
  expects are together exactly the ids handed out, `HandInv` counts the results of
  queries the same way. The step that could lose an id is a frame given up, whose
  result is looked up by time in the other collection: by `OrderInv` and `AgreeInv`
  (the part of `MatchInv` that survives a slow SDK) the lookup finds that frame and no
  other. When GetAgentResult finds its counters equal, `Conserved` leaves nothing in
  between (`NothingLeft`), so the client has all ids; `OverInv` carries that to the
  end of the main thread, which looks at the results before the flag.

`CoordTransformProofs` proves `CoordTypeOK`, `FinalIffConnected` and `Coherent`.
* The depth of the recursion (in `CoordTypeOK`) is bounded by the number of systems:
  the systems on the stack are distinct (`StackInv`), and distinct numbers below `N`
  are at most `N`.
* `FinalIffConnected`: `CutInv` says that what is set, also in the middle of a
  search, joins no systems that the given pairs keep apart, so a finalize that
  succeeds has a connected set. `SearchInv` says that a visited system has only visited
  neighbours, but for those the activations on the stack have still to try: a
  search that returns without its target leaves a closed set of visited systems
  without it, so throwing is right. `DoneInv` says that the loop of finalize leaves
  no pair behind it unset.
* `Coherent` holds if the given transforms are consistent with some placement of the
  systems (`Consistent`): `FitInv` says that all set transforms fit that placement, and
  a step joins two of them to one that does, by the laws of a group. Without
  consistency the result depends on the path the search takes, so nothing is claimed.

Every invariant and action property of the runs, and both refinements, are stated by
a theorem. Only model-checked: `StopCompletes` and `TestEnds`, since liveness under
fairness is outside the prover's reach. That the search of `CoordTransform` ends is not
stated: each step visits a system, advances an activation or ends it.

## 5. Not modelled

* The arithmetic of PopResult (prediction, filters, joints), of the calculators, the
  predictors and the hand models, of image processing and camera models: floating
  point and pixels, which neither TLC nor the prover can compute.
* Back ends, resource archives, recorder, reporter, data sets and the files of
  results: sequential calls of vendor libraries and I/O.
* Vendored and generated code. It is most of the repository: lmdb, zlib and the other
  libraries of MANO_IK and of the test tool, the protobuf classes, the headers of
  the glasses' plugin interface. Together with the arithmetic it leaves a few
  thousand of the 82,000 lines that keep state across calls; the definitions of
  this project cover the larger part of the concurrent ones and under 3 % of all.
* `ThreadPool` and `SharedQueue`: nothing constructs them.
* A group of several outputs in the single-group layout, where the clean-up by the
  faster stream's callback at 30 frames in flight erases frames the slower one would
  still complete. The code admits it, but no shipped graph has that layout.
* In `Plugin`, the pollers' use of `Impl()` after GetPipeline, without a lock and
  racing Release: the properties speak of the lifecycle calls and of camera threads.
  The throws of `setTransform` on an invalid rotation or quaternion.
* MediaPipe itself (flow control, bounded input queues);
  CloseAllInputStreams failing inside `Plugin` (it is in `BaseXGraph`); Unregister
  and destruction of the singleton; timers and profiling built under compile-time
  options.
* The segmented work scenes (glass and host half of the pipeline).
* Of the test tool: a second client of the same server, which may reset the SDK under
  the first one's calls or stop an agent whose client is gone; a connection that fails once and recovers; a cache smaller
  than one second of pictures; more than 120 pictures in a second, for which the
  arrays of ProduceSomeSimulationData are too small; records together with a
  simulated rate.

## 6. Plan

1. A module that composes `Plugin` and `BaseXGraph` with a bounded input queue:
   AddPacketToInputStream blocks under the shared lock while a callback sleeps in
   FIFO_FULL_BLOCK and Stop waits for the exclusive lock. Several camera threads in
   PushData, out of time order.
2. The segmented work scenes: `HandTrackingPriorGlassXGraph` with the sender
   thread and its join in Stop, `HandTrackingNextHostXGraph` with
   NotifyDeviceMessage.
3. The detection/tracking decision per hand of `hand_detection_track_calculator`.
4. Theorems about what a violated run leaves: which pictures stay in the cache of a
   test at a lower rate, and what a second session of the plugin still guarantees.
