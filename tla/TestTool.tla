------------------------------ MODULE TestTool ------------------------------
(***************************************************************************)
(* A test: the client of tool/test_tool/client with the agent of its       *)
(* server.  SendPic offers the pictures one after the other and waits for  *)
(* each answer; RecvResult polls for results; the main thread reports them *)
(* until the test is over, and then stops the agent.                       *)
(***************************************************************************)
EXTENDS StreamAgent

CONSTANT Unreadable   \* pictures GetNextPicData cannot read

ASSUME ToolAssumption == Unreadable \subseteq Pics

VARIABLES
    link,        \* external: does the connection stand?
    sendpic,     \* where SendPic is
    send_count,  \* pictures SendPic is done with
    recvresult,  \* where RecvResult is; "over" and "abort" are test_finish, abort_finish
    profiles,    \* the frames whose profiling result RecvResult has
    hands,       \* how many hand results it has
    results,     \* are any of them still in m_results_v2?
    main         \* the main thread: "report", then "over" or "failed"

clientVars == <<link, sendpic, send_count, recvresult, profiles, hands,
                results, main>>
vars == <<agentVars, clientVars>>

Init ==
    /\ AgentInit
    /\ link = TRUE
    /\ sendpic = "offer" /\ send_count = 0
    /\ recvresult = "poll" /\ profiles = {} /\ hands = 0 /\ results = FALSE
    /\ main = "report"

\* External: the connection breaks for good.
LinkDown ==
    /\ mode.breaks
    /\ link
    /\ link' = FALSE
    /\ UNCHANGED <<agentVars, sendpic, send_count, recvresult, profiles, hands,
                   results, main>>

-----------------------------------------------------------------------------
(* SendPic.                                                                *)

sendPicFrame == <<link, recvresult, profiles, hands, results, main>>

\* The next picture cannot be read and is skipped.
SkipPic ==
    /\ sendpic = "offer"
    /\ send_count + 1 \in Unreadable
    /\ send_count' = send_count + 1
    /\ UNCHANGED <<sendPicFrame, sendpic, agentVars>>

\* The next picture, or the end of the stream, is offered ...
OfferPic ==
    /\ sendpic = "offer" /\ link
    /\ send_count + 1 \in Pics \ Unreadable
    /\ AddPicture(send_count + 1)
    /\ sendpic' = "wait"
    /\ UNCHANGED <<sendPicFrame, send_count>>

OfferEof ==
    /\ sendpic = "offer" /\ link
    /\ send_count = Len(Times)
    /\ AddEof
    /\ sendpic' = "eof"
    /\ UNCHANGED <<sendPicFrame, send_count>>

AnsweredCounted ==
    /\ link
    /\ Reply
    /\ \/ sendpic = "wait" /\ sendpic' = "offer"
       \/ sendpic = "eof" /\ sendpic' = "done"
    /\ send_count' = IF refused THEN send_count ELSE send_count + 1
    /\ UNCHANGED sendPicFrame

\* ... until the agent accepts it.  Another error, which SendPic counts as
\* sent, needs a second client: a picture that can be read is never empty.
Answered ==
    /\ link
    /\ Reply
    /\ \/ sendpic = "wait" /\ refused /\ sendpic' = "offer" /\ send_count' = send_count
       \/ sendpic = "wait" /\ ~refused /\ sendpic' = "offer" /\ send_count' = send_count + 1
       \/ sendpic = "eof" /\ sendpic' = "done" /\ send_count' = send_count
    /\ UNCHANGED sendPicFrame

\* The call fails: SendPic ends.
SendAbort ==
    /\ ~link
    /\ sendpic # "done"
    /\ sendpic' = "done"
    /\ UNCHANGED <<sendPicFrame, send_count, agentVars>>

-----------------------------------------------------------------------------
(* RecvResult.                                                             *)

recvResultFrame == <<link, sendpic, send_count, main>>

\* A result is there and is kept for the main thread,
GetResult ==
    /\ recvresult = "poll" /\ link
    /\ PopResult
    /\ IF Head(agent_result).kind = "hand"
       THEN hands' = hands + 1 /\ profiles' = profiles
       ELSE hands' = hands /\ profiles' = profiles \cup {Head(agent_result).id}
    /\ results' = TRUE
    /\ UNCHANGED <<recvResultFrame, recvresult>>

\* or none is there,
GetNoResult ==
    /\ recvresult = "poll" /\ link
    /\ agent_result = <<>>
    /\ recvresult' = "check"
    /\ UNCHANGED <<recvResultFrame, profiles, hands, results, agentVars>>

\* which is the end if the test is over.
GetOver ==
    /\ recvresult = "check" /\ link
    /\ recvresult' = IF TestOver THEN "over" ELSE "poll"
    /\ UNCHANGED <<recvResultFrame, profiles, hands, results, agentVars>>

RecvAbort ==
    /\ ~link
    /\ recvresult \in {"poll", "check"}
    /\ recvresult' = "abort"
    /\ UNCHANGED <<recvResultFrame, profiles, hands, results, agentVars>>

-----------------------------------------------------------------------------
(* The main thread.                                                        *)

mainFrame == <<link, sendpic, send_count, recvresult, profiles, hands>>

\* GetReportResult looks at the results, and is called until there are none,
\* before it looks at the flags.
ReportResult ==
    /\ main = "report"
    /\ results
    /\ results' = FALSE
    /\ UNCHANGED <<mainFrame, main, agentVars>>

ReportEnd ==
    /\ main = "report"
    /\ ~results
    /\ recvresult \in {"over", "abort"}
    /\ main' = IF recvresult = "over" THEN "over" ELSE "failed"
    /\ UNCHANGED <<mainFrame, results, agentVars>>

\* WaitAndStop joins both threads; then StopSdk stops the agent, if it gets
\* there: over a broken connection the call fails, the client ends all the same
\* and the agent keeps running.
Stop ==
    /\ main # "report"
    /\ sendpic = "done"
    /\ link
    /\ StopAgent
    /\ UNCHANGED clientVars

-----------------------------------------------------------------------------
SendPic == SkipPic \/ OfferPic \/ OfferEof \/ Answered \/ SendAbort
RecvResult == GetResult \/ GetNoResult \/ GetOver \/ RecvAbort
Report == ReportResult \/ ReportEnd \/ Stop

AgentStep == AgentNext /\ UNCHANGED clientVars

Next == LinkDown \/ SendPic \/ RecvResult \/ Report \/ AgentStep

\* Every thread runs; nothing makes the connection break.
Fairness ==
    /\ WF_vars(SendPic)
    /\ WF_vars(RecvResult)
    /\ WF_vars(Report)
    /\ WF_vars(Produce /\ UNCHANGED clientVars)
    /\ WF_vars(SendWork /\ UNCHANGED clientVars)
    /\ WF_vars(RecvWork /\ UNCHANGED clientVars)
    /\ WF_vars(ProfilingWork /\ UNCHANGED clientVars)
    /\ WF_vars(Stopping /\ UNCHANGED clientVars)

Spec == Init /\ [][Next]_vars
FairSpec == Spec /\ Fairness

-----------------------------------------------------------------------------
(* Properties.                                                             *)

\* The members of the client and of StreamDataContrlAgent keep their types.
TestTypeOK ==
    /\ AgentTypeOK
    /\ link \in BOOLEAN
    /\ sendpic \in {"offer", "wait", "eof", "done"}
    /\ send_count \in 0..Len(Times)
    /\ recvresult \in {"poll", "check", "over", "abort"}
    /\ profiles \subseteq Nat
    /\ hands \in Nat
    /\ results \in BOOLEAN
    /\ main \in {"report", "over", "failed"}

\* What the main thread has reported when it takes the test for over is all
\* there is: one result for every frame that was sent, one for every query.
\* The counters GetAgentResult compares are incremented by three threads.
AllReported ==
    main = "over" =>
        /\ ~results
        /\ profiles = 0..(max_send_fn - 1)
        /\ hands = max_recv_fn

\* A simulated rate that does not leave out pictures.
KeepsUp ==
    mode.send = 0 \/ \A p \in Pics : Cardinality(InSecondOf(p)) <= mode.send

\* SendWork is still to release a picture of the cache.
Releasing == IF sendwork \in {"register", "notify", "release"} THEN 1 ELSE 0

\* DeleteUsedData gives up one picture per frame sent: that is enough to
\* empty the cache, and the count of the cached pictures is exact.
CacheReleased ==
    /\ current_cache_fn = Len(m_newsrc_datas) + Cardinality(m_usedsrc_datas)
    /\ KeepsUp => Cardinality(m_usedsrc_datas) <= Len(send_list) + Releasing

\* A record always matches a frame that is expected, in order: ProfilingWork
\* never reaches its writes to address 0 ("profiling results and the data sent
\* match one to one").  That is so at the pictures' own rate, with an SDK that
\* may lose frames but is never a minute late (see run sweep).
RecordsMatch == profilingwork # "crashed"

\* The test hands over one result for everything it queued, and is over only
\* when it has.
Promise == INSTANCE Exchange WITH
    owed <- max_send_fn + max_recv_fn,
    given <- current_agent_result_fn,
    closed <- finish_add_all_datas_2,
    over <- recvresult = "over"
PromiseKept == Promise!ExchangeSpec

\* The agent has stopped, or the connection that would carry StopSdk is broken.
Released == agent = "stopped" \/ ~link

\* Whatever is lost, the test comes to StopSdk and the agent stops.
AgentStops == <>Released

\* The test comes to an end: all threads of the client end, also when the
\* connection breaks in the middle, and the agent stops.  With records the SDK
\* must lose no frame: a lost one leaves the agent to the sweep of
\* ProfilingWork, which does not come back (run lost_end).
TestEnds ==
    (mode.profiling => ~mode.loses) =>
        <>(sendpic = "done" /\ main # "report" /\ Released)
=============================================================================
