---------------------------- MODULE StreamAgent ----------------------------
(***************************************************************************)
(* StreamDataContrlAgent, the part of the test tool's server that plays    *)
(* uploaded pictures to the SDK at a simulated frame rate and collects the *)
(* results (tool/test_tool/server/hand_tracking.cpp).                      *)
(*                                                                         *)
(* Threads: the handler of PipelineInference, which runs AddAgentData (one *)
(* at a time: the client waits for its answer), SendWork, RecvWork and, if *)
(* pipeline records are wanted, ProfilingWork.  Every list has a mutex of  *)
(* its own; the counters have none.  An action is one critical section     *)
(* with the unlocked code around it that no other thread can observe.      *)
(*                                                                         *)
(* Pictures are the numbers 1..Len(Times), in the order of their times.    *)
(* Of recv_list, whose members differ only in the time they ask about, the *)
(* length is kept.                                                         *)
(***************************************************************************)
EXTENDS Integers, Sequences, FiniteSets

CONSTANTS
    Times,      \* the nano_time of each picture
    SecondLen,  \* ticks in a second
    MaxCache,   \* max_cache_fn
    Modes       \* simulated rates (0: the pictures' own); are records wanted?
                \* External: may the connection break, may the SDK lose
                \* frames, may a minute pass without a record while frames
                \* are on their way?

Pics == 1..Len(Times)
SecondOf(p) == Times[p] \div SecondLen
InSecondOf(p) == {q \in Pics : SecondOf(q) = SecondOf(p)}

\* The pictures come from a map ordered by time, and the cache holds more
\* than those of a second.
ASSUME AgentAssumption ==
    /\ Times \in Seq(Nat)
    /\ SecondLen \in Nat \ {0}
    /\ MaxCache \in Nat \ {0}
    /\ \A p, q \in Pics : p < q => Times[p] < Times[q]
    /\ \A p \in Pics : Cardinality(InSecondOf(p)) < MaxCache
    /\ Modes \subseteq [send : Nat, recv : Nat, profiling : BOOLEAN,
                         breaks : BOOLEAN, loses : BOOLEAN, slow : BOOLEAN]

VARIABLES
    mode,                       \* m_send_ and m_recv_simulation_policy, need_profiling
    handler, data, refused,     \* AddAgentData: where it is, its picture, its answer
    m_newsrc_datas, m_usedsrc_datas, current_cache_fn, first_datas_full,
    finish_add_all_datas, finish_add_all_datas_2,
    send_list, max_send_fn, current_send_fn,
    recv_list, max_recv_fn, current_recv_fn,
    agent_result, current_agent_result_fn,
    match_profiling, order_match_profiling_id, current_profiling_fn,
    sendwork, readying,         \* where SendWork is; g_readying_get_data
    recvwork,                   \* where RecvWork is
    profilingwork, senddata,    \* where ProfilingWork is; its senddata
    agent,                      \* how far StopAgent is
    sdk                         \* external: records the SDK will answer, by nano_time

handlerVars == <<handler, data, refused>>
srcVars == <<m_newsrc_datas, m_usedsrc_datas, current_cache_fn>>
finishVars == <<first_datas_full, finish_add_all_datas, finish_add_all_datas_2>>
sendVars == <<send_list, max_send_fn, current_send_fn>>
recvVars == <<recv_list, max_recv_fn, current_recv_fn>>
resultVars == <<agent_result, current_agent_result_fn>>
matchVars == <<match_profiling, order_match_profiling_id, current_profiling_fn>>
sendWorkVars == <<sendwork, readying>>
profilingVars == <<profilingwork, senddata>>

agentVars == <<mode, handlerVars, srcVars, finishVars, sendVars, recvVars,
               resultVars, matchVars, sendWorkVars, recvwork, profilingVars,
               agent, sdk>>

SendData == [id : Nat, frame : Pics, stamp : Nat]
NoData == [id |-> 0, frame |-> 0, stamp |-> 0]

\* The two kinds of StreamResult.
ProfilingResult(d) == [kind |-> "profiling", id |-> d.id]
HandResult == [kind |-> "hand", id |-> 0]

\* StartAgent.
AgentInit ==
    /\ mode \in Modes
    /\ handler = "none" /\ data = 0 /\ refused = FALSE
    /\ m_newsrc_datas = <<>> /\ m_usedsrc_datas = {} /\ current_cache_fn = 0
    /\ first_datas_full = FALSE
    /\ finish_add_all_datas = FALSE /\ finish_add_all_datas_2 = FALSE
    /\ send_list = <<>> /\ max_send_fn = 0 /\ current_send_fn = 0
    /\ recv_list = 0 /\ max_recv_fn = 0 /\ current_recv_fn = 0
    /\ agent_result = <<>> /\ current_agent_result_fn = 0
    /\ match_profiling = {} /\ order_match_profiling_id = <<>>
    /\ current_profiling_fn = 0
    /\ sendwork = "idle" /\ readying = NoData
    /\ recvwork = "idle"
    /\ profilingwork = IF mode.profiling THEN "poll" ELSE "ended"
    /\ senddata = NoData
    /\ agent = "running"
    /\ sdk = <<>>

-----------------------------------------------------------------------------
(* AddAgentData.                                                           *)

addFrame == <<mode, m_usedsrc_datas, finish_add_all_datas_2, sendVars, recvVars,
              resultVars, matchVars, sendWorkVars, recvwork, profilingVars,
              agent, sdk>>

AddPictureNeverFull(p) ==
    /\ handler = "none"
    /\ data' = p
    /\ refused' = (current_cache_fn >= MaxCache)
    /\ m_newsrc_datas' = IF refused' THEN m_newsrc_datas ELSE Append(m_newsrc_datas, p)
    /\ current_cache_fn' = IF refused' THEN current_cache_fn ELSE current_cache_fn + 1
    /\ first_datas_full' = (first_datas_full \/ current_cache_fn' > MaxCache)
    /\ handler' = IF first_datas_full' \/ finish_add_all_datas THEN "produce" ELSE "reply"
    /\ UNCHANGED <<addFrame, finish_add_all_datas>>

\* A picture is put into the cache, or refused (-100) when the cache is full.
\* Production starts when the cache has once been full.
AddPicture(p) ==
    /\ handler = "none"
    /\ data' = p
    /\ refused' = (current_cache_fn >= MaxCache)
    /\ m_newsrc_datas' = IF refused' THEN m_newsrc_datas ELSE Append(m_newsrc_datas, p)
    /\ current_cache_fn' = IF refused' THEN current_cache_fn ELSE current_cache_fn + 1
    /\ first_datas_full' = (first_datas_full \/ current_cache_fn' = MaxCache)
    /\ handler' = IF first_datas_full' \/ finish_add_all_datas THEN "produce" ELSE "reply"
    /\ UNCHANGED <<addFrame, finish_add_all_datas>>

\* The end of the stream.
AddEof ==
    /\ handler = "none"
    /\ finish_add_all_datas' = TRUE
    /\ handler' = "produce"
    /\ data' = 0 /\ refused' = FALSE
    /\ UNCHANGED <<addFrame, m_newsrc_datas, current_cache_fn, first_datas_full>>

-----------------------------------------------------------------------------
(* ProduceSomeSimulationData, called until it finds no complete second.    *)

\* How many pictures of the first second are there?
FirstSecond ==
    Cardinality({i \in 1..Len(m_newsrc_datas) :
                    SecondOf(m_newsrc_datas[i]) = SecondOf(m_newsrc_datas[1])})

\* A second is complete when a picture of a later one has come, or no more
\* pictures will.
SecondReady ==
    /\ m_newsrc_datas # <<>>
    /\ FirstSecond < Len(m_newsrc_datas) \/ finish_add_all_datas

Distance(s, t) == IF s >= t THEN s - t ELSE t - s

\* The first of the n pictures that is nearest to time t.
Nearest(n, t) ==
    CHOOSE i \in 1..n :
        \A j \in 1..n :
            LET di == Distance(t, Times[m_newsrc_datas[i]])
                dj == Distance(t, Times[m_newsrc_datas[j]])
            IN  di < dj \/ (di = dj /\ i <= j)

\* What is sent for a second of n pictures: the pictures themselves, or those
\* nearest to the times of the simulated rate.  The code adds a float to the
\* 64-bit time of the second; the rounding is left out.
Simulated(n) ==
    IF mode.send = 0
    THEN [i \in 1..n |->
            [id |-> max_send_fn + i - 1, frame |-> m_newsrc_datas[i],
             stamp |-> Times[m_newsrc_datas[i]]]]
    ELSE [i \in 1..mode.send |->
            LET t == SecondOf(m_newsrc_datas[1]) * SecondLen
                        + ((i - 1) * SecondLen) \div mode.send
            IN  [id |-> max_send_fn + i - 1, frame |-> m_newsrc_datas[Nearest(n, t)],
                 stamp |-> t]]

produceFrame == <<mode, data, refused, current_cache_fn, first_datas_full,
                  finish_add_all_datas, current_send_fn, current_recv_fn, resultVars,
                  matchVars, sendWorkVars, recvwork, profilingVars, agent, sdk>>

\* The sends and the queries of a second are queued, and its pictures are used.
\* The two lists have a critical section each; finish_add_all_datas_2, without
\* which their maxima are not compared, is set after both.
ProduceSecond ==
    LET n == FirstSecond
        sends == Simulated(n)
        queries == IF mode.recv = 0 THEN n ELSE mode.recv IN
    /\ handler = "produce"
    /\ SecondReady
    /\ send_list' = send_list \o sends
    /\ max_send_fn' = max_send_fn + Len(sends)
    /\ m_newsrc_datas' = SubSeq(m_newsrc_datas, n + 1, Len(m_newsrc_datas))
    /\ m_usedsrc_datas' = m_usedsrc_datas \cup {m_newsrc_datas[i] : i \in 1..n}
    /\ recv_list' = recv_list + queries
    /\ max_recv_fn' = max_recv_fn + queries
    /\ UNCHANGED <<produceFrame, handler, finish_add_all_datas_2>>

\* No second is complete: AddAgentData says that all is queued if this was
\* the end of the stream, and returns.
ProduceNothing ==
    /\ handler = "produce"
    /\ ~SecondReady
    /\ handler' = "reply"
    /\ finish_add_all_datas_2' = finish_add_all_datas
    /\ UNCHANGED <<produceFrame, m_newsrc_datas, m_usedsrc_datas, send_list,
                   max_send_fn, recv_list, max_recv_fn>>

\* The client has the answer.
Reply ==
    /\ handler = "reply"
    /\ handler' = "none" /\ data' = 0 /\ refused' = FALSE
    /\ UNCHANGED <<mode, srcVars, finishVars, sendVars, recvVars, resultVars,
                   matchVars, sendWorkVars, recvwork, profilingVars, agent, sdk>>

-----------------------------------------------------------------------------
(* GetAgentResult: a result, or the news that there will be none any more. *)

PopResult ==
    /\ agent_result # <<>>
    /\ agent_result' = Tail(agent_result)
    /\ current_agent_result_fn' = current_agent_result_fn + 1
    /\ UNCHANGED <<mode, handlerVars, srcVars, finishVars, sendVars, recvVars,
                   matchVars, sendWorkVars, recvwork, profilingVars, agent, sdk>>

TestOverUnsummed ==
    /\ finish_add_all_datas_2
    /\ max_send_fn = current_send_fn
    /\ max_recv_fn = current_recv_fn
    /\ mode.profiling => max_send_fn = current_profiling_fn

TestOverEarly ==
    /\ finish_add_all_datas
    /\ max_send_fn = current_send_fn
    /\ max_recv_fn = current_recv_fn
    /\ max_send_fn + max_recv_fn = current_agent_result_fn
    /\ mode.profiling => max_send_fn = current_profiling_fn

\* The counters are read without a lock.
TestOver ==
    /\ finish_add_all_datas_2
    /\ max_send_fn = current_send_fn
    /\ max_recv_fn = current_recv_fn
    /\ max_send_fn + max_recv_fn = current_agent_result_fn
    /\ mode.profiling => max_send_fn = current_profiling_fn

-----------------------------------------------------------------------------
(* SendWork.                                                               *)

sendFrame == <<mode, handlerVars, m_newsrc_datas, finishVars, max_send_fn,
               recvVars, current_agent_result_fn, recvwork, profilingVars, agent>>

SendTakeUnregistered ==
    /\ sendwork = "idle"
    /\ send_list # <<>>
    /\ readying' = Head(send_list)
    /\ send_list' = Tail(send_list)
    /\ sendwork' = "notify"
    /\ UNCHANGED <<sendFrame, m_usedsrc_datas, current_cache_fn,
                   current_send_fn, agent_result, matchVars, sdk>>

SendTake ==
    /\ sendwork = "idle"
    /\ send_list # <<>>
    /\ readying' = Head(send_list)
    /\ send_list' = Tail(send_list)
    /\ sendwork' = IF mode.profiling THEN "register" ELSE "notify"
    /\ UNCHANGED <<sendFrame, m_usedsrc_datas, current_cache_fn,
                   current_send_fn, agent_result, matchVars, sdk>>

\* The record of the frame is expected before the SDK gets the frame.
SendRegister ==
    /\ sendwork = "register"
    /\ profilingwork # "stuck"
    /\ match_profiling' = {m \in match_profiling : m.stamp # readying.stamp}
                              \cup {readying}
    /\ order_match_profiling_id' = Append(order_match_profiling_id, readying)
    /\ sendwork' = "notify"
    /\ UNCHANGED <<sendFrame, readying, m_usedsrc_datas, current_cache_fn, send_list,
                   current_send_fn, agent_result, current_profiling_fn, sdk>>

\* SendWorkNotifyData.  External: the SDK names the frame by the time of its
\* picture and will answer with a record of it, or, if mode.loses, loses it; nothing tells.
SendNotify ==
    /\ sendwork = "notify"
    /\ \/ sdk' = Append(sdk, Times[readying.frame])
       \/ mode.loses /\ sdk' = sdk
    /\ sendwork' = "release"
    /\ UNCHANGED <<sendFrame, readying, m_usedsrc_datas, current_cache_fn, send_list,
                   current_send_fn, agent_result, matchVars>>

UnreferencedEarly ==
    {p \in m_usedsrc_datas :
        /\ p # data /\ p # readying.frame
        /\ \A i \in 1..Len(send_list) : send_list[i].frame # p}

\* The used pictures nobody else refers to.
Unreferenced ==
    {p \in m_usedsrc_datas :
        /\ p # data
        /\ \A i \in 1..Len(send_list) : send_list[i].frame # p}

\* The reference of SendWork is dropped, and DeleteUsedData gives up one
\* unreferenced picture, the oldest.
SendRelease ==
    /\ sendwork = "release"
    /\ \/ /\ Unreferenced = {}
          /\ UNCHANGED <<m_usedsrc_datas, current_cache_fn>>
       \/ \E p \in Unreferenced :
          /\ \A q \in Unreferenced : p <= q
          /\ m_usedsrc_datas' = m_usedsrc_datas \ {p}
          /\ current_cache_fn' = current_cache_fn - 1
    /\ current_send_fn' = current_send_fn + 1
    /\ sendwork' = IF mode.profiling THEN "idle" ELSE "result"
    /\ readying' = IF mode.profiling THEN NoData ELSE readying
    /\ UNCHANGED <<sendFrame, send_list, agent_result, matchVars, sdk>>

\* Without records the frame has a result of its own.
SendResult ==
    /\ sendwork = "result"
    /\ agent_result' = Append(agent_result, ProfilingResult(readying))
    /\ sendwork' = "idle"
    /\ readying' = NoData
    /\ UNCHANGED <<sendFrame, m_usedsrc_datas, current_cache_fn, send_list,
                   current_send_fn, matchVars, sdk>>

-----------------------------------------------------------------------------
(* RecvWork.                                                               *)

recvFrame == <<mode, handlerVars, srcVars, finishVars, sendVars, max_recv_fn,
               current_agent_result_fn, matchVars, sendWorkVars, profilingVars,
               agent, sdk>>

\* GetHandData is asked, and its answer, "finish" or "miss", is a result.
RecvTake ==
    /\ recvwork = "idle"
    /\ recv_list > 0
    /\ recv_list' = recv_list - 1
    /\ agent_result' = Append(agent_result, HandResult)
    /\ recvwork' = "count"
    /\ UNCHANGED <<recvFrame, current_recv_fn>>

RecvCount ==
    /\ recvwork = "count"
    /\ current_recv_fn' = current_recv_fn + 1
    /\ recvwork' = "idle"
    /\ UNCHANGED <<recvFrame, recv_list, agent_result>>

-----------------------------------------------------------------------------
(* ProfilingWork.                                                          *)

profilingFrame == <<mode, handlerVars, srcVars, finishVars, sendVars, recvVars,
                    current_agent_result_fn, sendWorkVars, recvwork>>

\* The SDK answers with a record, whose frame is looked up by its time.  A
\* record that matches no frame makes the code write to address 0.
ProfilingMatch ==
    LET found == {m \in match_profiling : m.stamp = Head(sdk)} IN
    /\ profilingwork = "poll"
    /\ sdk # <<>>
    /\ sdk' = Tail(sdk)
    /\ senddata' = IF found = {} THEN senddata ELSE CHOOSE m \in found : TRUE
    /\ match_profiling' = match_profiling \ found
    /\ profilingwork' = IF found = {} THEN "crashed" ELSE "order"
    /\ UNCHANGED <<profilingFrame, agent_result, order_match_profiling_id,
                   current_profiling_fn, agent>>

\* The result for an expected frame e whose record never came.
LostResult(e) ==
    LET found == {m \in match_profiling : m.stamp = e.stamp} IN
    ProfilingResult(IF found = {} THEN NoData ELSE CHOOSE m \in found : TRUE)

\* The expected frames but those of lost, whose results are produced.
GiveUp(lost) ==
    /\ agent_result' = agent_result \o [i \in 1..Len(lost) |-> LostResult(lost[i])]
    /\ match_profiling' = {m \in match_profiling :
                              \A i \in 1..Len(lost) : m.stamp # lost[i].stamp}
    /\ current_profiling_fn' = current_profiling_fn + Len(lost)

\* Where the record's frame stands among the expected ones; 0 if nowhere.
Position ==
    LET at == {i \in 1..Len(order_match_profiling_id) :
                  order_match_profiling_id[i].id = senddata.id}
    IN  IF at = {} THEN 0 ELSE CHOOSE i \in at : TRUE

\* The frames expected before this one are lost.  Records come in the order
\* of the frames: one that does not makes the code write to address 0.
ProfilingOrder ==
    LET k == Position IN
    /\ profilingwork = "order"
    /\ GiveUp(SubSeq(order_match_profiling_id, 1, k - 1))
    /\ order_match_profiling_id' =
           SubSeq(order_match_profiling_id, k + 1, Len(order_match_profiling_id))
    /\ profilingwork' = IF k = 0 THEN "crashed" ELSE "result"
    /\ UNCHANGED <<profilingFrame, senddata, agent, sdk>>

ProfilingProduce ==
    /\ profilingwork = "result"
    /\ agent_result' = Append(agent_result, ProfilingResult(senddata))
    /\ profilingwork' = "count"
    /\ UNCHANGED <<profilingFrame, senddata, matchVars, agent, sdk>>

ProfilingCount ==
    /\ profilingwork = "count"
    /\ current_profiling_fn' = current_profiling_fn + 1
    /\ profilingwork' = "poll"
    /\ senddata' = NoData
    /\ UNCHANGED <<profilingFrame, agent_result, match_profiling,
                   order_match_profiling_id, agent, sdk>>

\* No record came for a minute: the expected frames are given up, however
\* long they have been expected.  The loop steps over an element after each one
\* it erases, so it gives up the first, the third and so on.  When it erases the
\* last one it increments the end of the map with m_match_mutex held, and does
\* not come back: libstdc++ walks in circles in the end node of an empty map, or
\* first over elements that are left, which it may still give up.
\* External: the SDK has nothing left to answer by then, unless mode.slow.
ProfilingSweep ==
    LET expected == order_match_profiling_id
        n == Len(expected) IN
    /\ profilingwork = "poll"
    /\ mode.slow \/ (sdk = <<>> /\ sendwork # "notify")
    /\ n > 0
    /\ GiveUp([i \in 1..(n - n \div 2) |-> expected[2 * i - 1]])
    /\ order_match_profiling_id' = [i \in 1..(n \div 2) |-> expected[2 * i]]
    /\ profilingwork' = IF n % 2 = 1 THEN "stuck" ELSE "poll"
    /\ UNCHANGED <<profilingFrame, senddata, agent, sdk>>

-----------------------------------------------------------------------------
(* StopAgent: each thread is told to end and joined, one after the other.  *)

stopFrame == <<mode, handlerVars, srcVars, finishVars, sendVars, recvVars,
               current_agent_result_fn, order_match_profiling_id,
               current_profiling_fn, readying, senddata, sdk>>

StopAgent ==
    /\ agent = "running"
    /\ agent' = "send_exit"
    /\ UNCHANGED <<stopFrame, agent_result, match_profiling, sendwork, recvwork,
                   profilingwork>>

SendExit ==
    /\ agent = "send_exit" /\ sendwork = "idle"
    /\ sendwork' = "ended"
    /\ agent' = "recv_exit"
    /\ UNCHANGED <<stopFrame, agent_result, match_profiling, recvwork, profilingwork>>

RecvExit ==
    /\ agent = "recv_exit" /\ recvwork = "idle"
    /\ recvwork' = "ended"
    /\ agent' = "profiling_exit"
    /\ UNCHANGED <<stopFrame, agent_result, match_profiling, sendwork, profilingwork>>

\* ProfilingWork leaves a result for each frame whose record did not come.
ProfilingExit ==
    /\ agent = "profiling_exit" /\ profilingwork \in {"poll", "ended"}
    /\ \E rest \in [1..Cardinality(match_profiling) -> match_profiling] :
          /\ \A i, j \in DOMAIN rest : i < j => rest[i].stamp < rest[j].stamp
          /\ agent_result' = IF profilingwork = "ended" THEN agent_result
                             ELSE agent_result \o [i \in DOMAIN rest |-> ProfilingResult(rest[i])]
    /\ profilingwork' = "ended"
    /\ agent' = "stopped"
    /\ UNCHANGED <<stopFrame, match_profiling, sendwork, recvwork>>

-----------------------------------------------------------------------------
SendWork == SendTake \/ SendRegister \/ SendNotify \/ SendRelease \/ SendResult
RecvWork == RecvTake \/ RecvCount
ProfilingWork ==
    \/ ProfilingMatch \/ ProfilingOrder \/ ProfilingProduce \/ ProfilingCount
    \/ ProfilingSweep
Stopping == SendExit \/ RecvExit \/ ProfilingExit
Produce == ProduceSecond \/ ProduceNothing

\* Agent steps that need no client.
AgentNext == Produce \/ SendWork \/ RecvWork \/ ProfilingWork \/ Stopping

Threads == {"idle", "ended"}

AgentTypeOK ==
    /\ mode \in Modes
    /\ handler \in {"none", "produce", "reply"}
    /\ data \in Pics \cup {0}
    /\ refused \in BOOLEAN
    /\ m_newsrc_datas \in Seq(Pics)
    /\ m_usedsrc_datas \subseteq Pics
    /\ current_cache_fn \in Nat
    /\ first_datas_full \in BOOLEAN
    /\ finish_add_all_datas \in BOOLEAN
    /\ finish_add_all_datas_2 \in BOOLEAN
    /\ send_list \in Seq(SendData)
    /\ {max_send_fn, current_send_fn} \subseteq Nat
    /\ {recv_list, max_recv_fn, current_recv_fn} \subseteq Nat
    /\ agent_result \in Seq([kind : {"profiling", "hand"}, id : Nat])
    /\ current_agent_result_fn \in Nat
    /\ match_profiling \subseteq SendData
    /\ order_match_profiling_id \in Seq(SendData)
    /\ current_profiling_fn \in Nat
    /\ sendwork \in {"register", "notify", "release", "result"} \cup Threads
    /\ readying \in SendData \cup {NoData}
    /\ recvwork \in {"count"} \cup Threads
    /\ profilingwork \in {"poll", "order", "result", "count", "stuck", "crashed", "ended"}
    /\ senddata \in SendData \cup {NoData}
    /\ agent \in {"running", "send_exit", "recv_exit", "profiling_exit", "stopped"}
    /\ sdk \in Seq(Nat)
=============================================================================
