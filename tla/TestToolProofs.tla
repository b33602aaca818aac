--------------------------- MODULE TestToolProofs ---------------------------
(***************************************************************************)
(* Proofs about modules StreamAgent and TestTool, for any stream of        *)
(* pictures, any cache, any simulated rates and a connection that may      *)
(* break at any time.                                                      *)
(***************************************************************************)
EXTENDS TestTool, FiniteSetTheorems, SequenceTheorems, WellFoundedInduction, TLAPS

-----------------------------------------------------------------------------
(* Pictures, and the ones that are nearest to a time.                      *)

\* A set of natural numbers has a least element.
LEMMA LeastNatural ==
  ASSUME NEW T \in SUBSET Nat, T # {}
  PROVE  \E x \in T : \A y \in T : x <= y
<1> DEFINE below(y) == {z \in T : z <= y}
<1>1. \A y \in T : below(y) \in FiniteSubsetsOf(Nat)
  <2> TAKE y \in T
  <2>1. y \in Nat /\ below(y) \in SUBSET Nat /\ \A z \in below(y) : z <= y
    OBVIOUS
  <2>2. IsFiniteSet(below(y))
    BY <2>1, FS_BoundedSetOfNaturals
  <2>3. QED BY <2>1, <2>2 DEF FiniteSubsetsOf
<1> DEFINE Q == {below(y) : y \in T}
<1>2. Q \subseteq FiniteSubsetsOf(Nat) /\ Q # {}
  BY <1>1
<1>3. PICK q \in Q : \A r \in Q : ~(<<r, q>> \in StrictSubsetOrdering(Nat))
  BY <1>2, FS_StrictSubsetOrderingWellFounded, WFMin
<1>4. PICK x \in T : q = below(x)
  OBVIOUS
<1>5. ASSUME NEW y \in T PROVE x <= y
  <2>1. x \in Nat /\ y \in Nat
    OBVIOUS
  <2>2. SUFFICES ASSUME y < x PROVE FALSE
    BY <2>1
  <2>3. \A z \in T : z <= y => z <= x
    BY <2>1, <2>2
  <2>4. x <= x /\ ~(x <= y)
    BY <2>1, <2>2
  <2>5. /\ below(y) \in SUBSET Nat /\ below(x) \in SUBSET Nat
        /\ below(y) \subseteq below(x) /\ below(y) # below(x)
    BY <2>3, <2>4, Zenon
  <2>6. <<below(y), below(x)>> \in StrictSubsetOrdering(Nat)
    BY <2>5 DEF StrictSubsetOrdering
  <2>7. QED BY <1>3, <1>4, <2>6
<1>6. QED BY <1>5

LEMMA PicsFinite == IsFiniteSet(Pics) /\ \A p \in Pics : p \in Nat \ {0}
<1>1. Len(Times) \in Nat
  BY AgentAssumption, LenProperties
<1>2. IsFiniteSet(1..Len(Times))
  BY <1>1, FS_Interval
<1>3. QED BY <1>1, <1>2 DEF Pics

LEMMA TimesNat == \A p \in Pics : Times[p] \in Nat
  BY AgentAssumption, ElementOfSeq DEF Pics

LEMMA FirstSecondBounds ==
  ASSUME m_newsrc_datas \in Seq(Pics)
  PROVE  /\ FirstSecond \in 0..Len(m_newsrc_datas)
         /\ m_newsrc_datas # <<>> => FirstSecond > 0
<1> DEFINE S == {i \in 1..Len(m_newsrc_datas) :
                    SecondOf(m_newsrc_datas[i]) = SecondOf(m_newsrc_datas[1])}
<1>1. Len(m_newsrc_datas) \in Nat
  BY LenProperties
<1>2. /\ IsFiniteSet(1..Len(m_newsrc_datas))
      /\ Cardinality(1..Len(m_newsrc_datas)) = Len(m_newsrc_datas)
  BY <1>1, FS_Interval
<1>3. IsFiniteSet(S) /\ Cardinality(S) <= Len(m_newsrc_datas)
  BY <1>2, FS_Subset
<1>4. Cardinality(S) \in Nat
  BY <1>3, FS_CardinalityType
<1>5. ASSUME m_newsrc_datas # <<>> PROVE Cardinality(S) # 0
  <2>1. 1 \in S
    BY <1>5, EmptySeq
  <2>2. QED BY <1>3, <2>1, FS_EmptySet
<1>6. QED BY <1>1, <1>3, <1>4, <1>5 DEF FirstSecond

LEMMA NearestIn ==
  ASSUME m_newsrc_datas \in Seq(Pics), NEW n \in 1..Len(m_newsrc_datas), NEW t \in Nat
  PROVE  Nearest(n, t) \in 1..n
<1> DEFINE d(i) == Distance(t, Times[m_newsrc_datas[i]])
<1>1. \A i \in 1..n : d(i) \in Nat
  <2> TAKE i \in 1..n
  <2>1. m_newsrc_datas[i] \in Pics
    BY ElementOfSeq, LenProperties
  <2>2. Times[m_newsrc_datas[i]] \in Nat
    BY <2>1, TimesNat
  <2>3. QED BY <2>2 DEF Distance
<1> HIDE DEF d
<1>2. n \in Nat /\ 1 \in 1..n
  BY LenProperties
<1>3. PICK x \in {d(i) : i \in 1..n} : \A y \in {d(i) : i \in 1..n} : x <= y
  BY <1>1, <1>2, LeastNatural
<1>4. {i \in 1..n : d(i) = x} # {} /\ {i \in 1..n : d(i) = x} \in SUBSET Nat
  BY <1>2, <1>3
<1>5. PICK i \in {j \in 1..n : d(j) = x} : \A j \in {k \in 1..n : d(k) = x} : i <= j
  BY <1>4, LeastNatural
<1>6. \A j \in 1..n : d(i) < d(j) \/ (d(i) = d(j) /\ i <= j)
  <2> TAKE j \in 1..n
  <2>1. d(i) \in Nat /\ d(j) \in Nat /\ d(i) = x /\ i \in Nat /\ j \in Nat
    BY <1>1, <1>5
  <2>2. x <= d(j)
    BY <1>3
  <2>3. d(j) = x => i <= j
    BY <1>5
  <2>4. QED BY <2>1, <2>2, <2>3
<1>7. \E k \in 1..n : \A j \in 1..n : d(k) < d(j) \/ (d(k) = d(j) /\ k <= j)
  BY <1>5, <1>6
<1>8. QED BY <1>7 DEF Nearest, d

-----------------------------------------------------------------------------
(* The invariants.                                                         *)

Busy == {"register", "notify", "release", "result"}

\* The types, by what an action changes together.
boolVars == <<refused, first_datas_full, finish_add_all_datas, finish_add_all_datas_2,
              link, results>>
cacheVars == <<handler, data, m_newsrc_datas, m_usedsrc_datas, current_cache_fn>>
queueVars == <<send_list, max_send_fn, current_send_fn, recv_list, max_recv_fn,
               current_recv_fn, agent_result, current_agent_result_fn>>
recordVars == <<match_profiling, order_match_profiling_id, current_profiling_fn,
                profilingwork, senddata, sdk>>
workVars == <<mode, sendwork, readying, recvwork, agent>>
toolVars == <<sendpic, send_count, recvresult, profiles, hands, main>>

BoolType ==
    /\ refused \in BOOLEAN
    /\ first_datas_full \in BOOLEAN
    /\ finish_add_all_datas \in BOOLEAN
    /\ finish_add_all_datas_2 \in BOOLEAN
    /\ link \in BOOLEAN
    /\ results \in BOOLEAN

CacheType ==
    /\ handler \in {"none", "produce", "reply"}
    /\ data \in Pics \cup {0}
    /\ m_newsrc_datas \in Seq(Pics)
    /\ m_usedsrc_datas \subseteq Pics
    /\ current_cache_fn \in Nat

Result == [kind : {"profiling", "hand"}, id : Nat]

QueueType ==
    /\ send_list \in Seq(SendData)
    /\ max_send_fn \in Nat /\ current_send_fn \in Nat
    /\ recv_list \in Nat /\ max_recv_fn \in Nat /\ current_recv_fn \in Nat
    /\ agent_result \in Seq(Result)
    /\ current_agent_result_fn \in Nat

RecordType ==
    /\ match_profiling \subseteq SendData
    /\ IsFiniteSet(match_profiling)
    /\ order_match_profiling_id \in Seq(SendData)
    /\ current_profiling_fn \in Nat
    /\ profilingwork \in {"poll", "order", "result", "count", "stuck", "crashed", "ended"}
    /\ senddata \in SendData \cup {NoData}
    /\ sdk \in Seq(Nat)

\* SendWork holds a frame while it is busy.
WorkType ==
    /\ mode \in Modes
    /\ sendwork \in {"register", "notify", "release", "result"} \cup Threads
    /\ readying \in SendData \cup {NoData}
    /\ sendwork \in Busy => readying \in SendData
    /\ recvwork \in {"count"} \cup Threads
    /\ agent \in {"running", "send_exit", "recv_exit", "profiling_exit", "stopped"}

\* A picture on offer is one.
ToolType ==
    /\ sendpic \in {"offer", "wait", "eof", "done"}
    /\ send_count \in 0..Len(Times)
    /\ sendpic = "wait" => send_count + 1 \in Pics
    /\ recvresult \in {"poll", "check", "over", "abort"}
    /\ profiles \subseteq Nat
    /\ hands \in Nat
    /\ main \in {"report", "over", "failed"}

TypeInv == BoolType /\ CacheType /\ QueueType /\ RecordType /\ WorkType /\ ToolType

\* The last picture the agent may have accepted.
Limit ==
    IF sendpic \in {"eof", "done"} THEN Len(Times)
    ELSE IF sendpic = "wait" /\ ~refused THEN send_count + 1
    ELSE send_count

\* The cache: the new pictures in order, above the used ones; of the picture
\* on offer the handler still has a reference.
SrcInv ==
    /\ current_cache_fn = Len(m_newsrc_datas) + Cardinality(m_usedsrc_datas)
    /\ \A i, j \in 1..Len(m_newsrc_datas) : i < j => m_newsrc_datas[i] < m_newsrc_datas[j]
    /\ \A p \in m_usedsrc_datas, i \in 1..Len(m_newsrc_datas) : p < m_newsrc_datas[i]
    /\ \A i \in 1..Len(m_newsrc_datas) : m_newsrc_datas[i] <= Limit
    /\ \A p \in m_usedsrc_datas : p <= Limit
    /\ data # 0 => /\ \A p \in m_usedsrc_datas : p < data
                   /\ \A i \in 1..(Len(m_newsrc_datas) - 1) : m_newsrc_datas[i] < data
    /\ finish_add_all_datas => data = 0 /\ sendpic \in {"eof", "done"}

\* Results that are neither queued nor waiting: of frames SendWork holds or
\* ProfilingWork expects.
Registering == IF sendwork = "register" THEN 1 ELSE 0
Producing == IF profilingwork = "result" THEN 1 ELSE 0
Sending == IF sendwork \in {"notify", "release", "result"} THEN 1 ELSE 0
Pending ==
    IF mode.profiling
    THEN Registering + Len(order_match_profiling_id) + Producing
    ELSE Sending

\* Nothing is lost or duplicated on its way from the queues to the client.
Conserved ==
    current_agent_result_fn + Len(agent_result) + Len(send_list) + Pending + recv_list
        = max_send_fn + max_recv_fn

\* Where the threads may be.
WorkInv ==
    /\ ~mode.profiling => profilingwork = "ended"
    /\ sendwork = "register" => mode.profiling
    /\ sendwork = "result" => ~mode.profiling

\* The agent is stopped after the test, which ends after the polls.
EndInv ==
    /\ agent # "running" => main # "report"
    /\ main # "report" => recvresult \in {"over", "abort"}

\* Nothing is queued once all is queued.
ClosedInv == finish_add_all_datas_2 => finish_add_all_datas /\ handler # "produce"

FlowInv ==
    /\ WorkInv
    /\ EndInv
    /\ ClosedInv
    /\ agent # "stopped" => Conserved

Before(d, e) == d.id < e.id /\ d.stamp < e.stamp

Sorted(s) == \A i, j \in 1..Len(s) : i < j => Before(s[i], s[j])

\* A frame of pictures that are used, sent under the picture's own time.
Old(d) ==
    /\ d.id < max_send_fn
    /\ d.frame <= Limit
    /\ d.stamp = Times[d.frame]
    /\ \A k \in 1..Len(m_newsrc_datas) : d.frame < m_newsrc_datas[k]

\* The frames whose record is expected, then the one about to be registered,
\* then those to be sent, in order.
OrderInv ==
    /\ Sorted(order_match_profiling_id)
    /\ Sorted(send_list)
    /\ \A i \in 1..Len(order_match_profiling_id) : Old(order_match_profiling_id[i])
    /\ \A j \in 1..Len(send_list) : Old(send_list[j])
    /\ \A i \in 1..Len(order_match_profiling_id), j \in 1..Len(send_list) :
          Before(order_match_profiling_id[i], send_list[j])
    /\ sendwork = "register" =>
          /\ Old(readying)
          /\ \A i \in 1..Len(order_match_profiling_id) : Before(order_match_profiling_id[i], readying)
          /\ \A j \in 1..Len(send_list) : Before(readying, send_list[j])

Expected == {order_match_profiling_id[i] : i \in 1..Len(order_match_profiling_id)}

\* The frame ProfilingWork has a record for and has not yet taken off the
\* expected ones.
Matched == IF profilingwork = "order" THEN {senddata} ELSE {}

\* The two collections of expected frames agree.
AgreeInv ==
    /\ match_profiling = Expected \ Matched
    /\ Matched \subseteq Expected

\* They do, and the SDK answers, in order, only records of frames that are
\* expected.
MatchInv ==
    /\ AgreeInv
    /\ \A k, l \in 1..Len(sdk) : k < l => sdk[k] < sdk[l]
    /\ \A k \in 1..Len(sdk) : \E m \in match_profiling : m.stamp = sdk[k]
    /\ \A d \in Matched, k \in 1..Len(sdk) : d.stamp < sdk[k]
    /\ sendwork = "notify" =>
          /\ readying \in match_profiling
          /\ \A k \in 1..Len(sdk) : sdk[k] < readying.stamp
          /\ \A d \in Matched : d.stamp < readying.stamp
    /\ profilingwork # "crashed"

RecordInv == mode.profiling => OrderInv /\ MatchInv

-----------------------------------------------------------------------------
(* Types.                                                                  *)

LEMMA TypesMean == TypeInv => TestTypeOK
  BY DEF TypeInv, TestTypeOK, AgentTypeOK, BoolType, CacheType, QueueType, Result, RecordType,
     WorkType, ToolType

\* A group that an action leaves alone keeps its types.
LEMMA GroupFrames ==
  /\ BoolType /\ UNCHANGED boolVars => BoolType'
  /\ CacheType /\ UNCHANGED cacheVars => CacheType'
  /\ QueueType /\ UNCHANGED queueVars => QueueType'
  /\ RecordType /\ UNCHANGED recordVars => RecordType'
  /\ WorkType /\ UNCHANGED workVars => WorkType'
  /\ ToolType /\ UNCHANGED toolVars => ToolType'
<1>1. BoolType /\ UNCHANGED boolVars => BoolType'
  BY DEF BoolType, boolVars
<1>2. CacheType /\ UNCHANGED cacheVars => CacheType'
  BY DEF CacheType, cacheVars
<1>3. QueueType /\ UNCHANGED queueVars => QueueType'
  BY DEF QueueType, queueVars
<1>4. RecordType /\ UNCHANGED recordVars => RecordType'
  BY DEF RecordType, recordVars
<1>5. WorkType /\ UNCHANGED workVars => WorkType'
  BY DEF WorkType, workVars
<1>6. ToolType /\ UNCHANGED toolVars => ToolType'
  BY DEF ToolType, toolVars
<1>7. QED BY <1>1, <1>2, <1>3, <1>4, <1>5, <1>6

LEMMA ModeFacts ==
  ASSUME mode \in Modes
  PROVE  /\ mode.send \in Nat /\ mode.recv \in Nat
         /\ mode.profiling \in BOOLEAN /\ mode.slow \in BOOLEAN
  BY AgentAssumption

LEMMA SecondNat == \A p \in Pics : SecondOf(p) \in Nat
<1> TAKE p \in Pics
<1>1. Times[p] \in Nat /\ SecondLen \in Nat /\ SecondLen > 0
  BY TimesNat, AgentAssumption
<1>2. QED BY <1>1 DEF SecondOf

\* A function on 1..n whose values are in S is a sequence of S.
LEMMA SeqOfFunction ==
  ASSUME NEW S, NEW n \in Nat, NEW f \in [1..n -> S]
  PROVE  f \in Seq(S) /\ Len(f) = n /\ \A i \in 1..n : f[i] \in S
  OBVIOUS

LEMMA SimulatedFacts ==
  ASSUME TypeInv, SecondReady
  PROVE  /\ FirstSecond \in 1..Len(m_newsrc_datas)
         /\ Simulated(FirstSecond) \in Seq(SendData)
         /\ Len(Simulated(FirstSecond)) = IF mode.send = 0 THEN FirstSecond ELSE mode.send
         /\ mode.send = 0 => \A i \in 1..FirstSecond :
              Simulated(FirstSecond)[i] =
                  [id |-> max_send_fn + i - 1, frame |-> m_newsrc_datas[i],
                   stamp |-> Times[m_newsrc_datas[i]]]
<1> DEFINE n == FirstSecond
<1>1. /\ m_newsrc_datas \in Seq(Pics) /\ m_newsrc_datas # <<>> /\ max_send_fn \in Nat
      /\ mode.send \in Nat
  BY ModeFacts DEF TypeInv, CacheType, QueueType, WorkType, SecondReady
<1>2. Len(m_newsrc_datas) \in Nat
  BY <1>1, LenProperties
<1>3. n \in 1..Len(m_newsrc_datas) /\ n \in Nat
  BY <1>1, <1>2, FirstSecondBounds
<1> HIDE DEF n
<1>4. \A i \in 1..n : m_newsrc_datas[i] \in Pics /\ Times[m_newsrc_datas[i]] \in Nat
  <2> TAKE i \in 1..n
  <2>1. i \in 1..Len(m_newsrc_datas)
    BY <1>2, <1>3
  <2>2. QED BY <1>1, <2>1, ElementOfSeq, TimesNat
<1>5. CASE mode.send = 0
  <2> DEFINE e(i) == [id |-> max_send_fn + i - 1, frame |-> m_newsrc_datas[i],
                      stamp |-> Times[m_newsrc_datas[i]]]
  <2>1. Simulated(n) = [i \in 1..n |-> e(i)]
    BY <1>5 DEF Simulated
  <2>2. \A i \in 1..n : e(i) \in SendData
    BY <1>1, <1>3, <1>4 DEF SendData
  <2>3. \A i \in 1..n : Simulated(n)[i] = e(i)
    BY <2>1
  <2> HIDE DEF e
  <2>4. Simulated(n) \in [1..n -> SendData]
    BY <2>1, <2>2
  <2>5. Simulated(n) \in Seq(SendData) /\ Len(Simulated(n)) = n
    BY <1>3, <2>4, SeqOfFunction
  <2>6. QED BY <1>3, <1>5, <2>3, <2>5 DEF n, e
<1>6. CASE mode.send # 0
  <2> DEFINE t(i) == SecondOf(m_newsrc_datas[1]) * SecondLen
                        + ((i - 1) * SecondLen) \div mode.send
             e(i) == [id |-> max_send_fn + i - 1,
                      frame |-> m_newsrc_datas[Nearest(n, t(i))], stamp |-> t(i)]
             f == [i \in 1..mode.send |-> e(i)]
  <2>1. Simulated(n) = f
    BY <1>6 DEF Simulated
  <2>2. \A i \in 1..mode.send : t(i) \in Nat
    <3> TAKE i \in 1..mode.send
    <3>1. SecondLen \in Nat /\ SecondOf(m_newsrc_datas[1]) \in Nat
      BY <1>3, <1>4, SecondNat, AgentAssumption
    <3>2. i - 1 \in Nat
      BY <1>1
    <3>3. SecondOf(m_newsrc_datas[1]) * SecondLen \in Nat /\ (i - 1) * SecondLen \in Nat
      BY <3>1, <3>2
    <3>4. ((i - 1) * SecondLen) \div mode.send \in Nat
      BY <1>1, <1>6, <3>3
    <3>5. QED BY <3>3, <3>4
  <2> HIDE DEF t
  <2>3. \A i \in 1..mode.send : Nearest(n, t(i)) \in 1..n
    BY <1>1, <1>3, <2>2, NearestIn
  <2>4. \A i \in 1..mode.send : e(i) \in SendData
    <3> TAKE i \in 1..mode.send
    <3>1. max_send_fn + i - 1 \in Nat
      BY <1>1
    <3>2. m_newsrc_datas[Nearest(n, t(i))] \in Pics
      BY <1>4, <2>3
    <3>3. QED BY <2>2, <3>1, <3>2 DEF SendData
  <2> HIDE DEF e
  <2>5. f \in [1..mode.send -> SendData]
    BY <2>4
  <2>6. f \in Seq(SendData) /\ Len(f) = mode.send
    BY <1>1, <2>5, SeqOfFunction
  <2>7. QED BY <1>3, <1>6, <2>1, <2>6 DEF n
<1>7. QED BY <1>5, <1>6

LEMMA ResultType ==
  /\ \A d \in SendData \cup {NoData} : ProfilingResult(d) \in Result
  /\ HandResult \in Result
  BY DEF ProfilingResult, HandResult, SendData, NoData, Result

LEMMA LostType ==
  ASSUME match_profiling \subseteq SendData, NEW e
  PROVE  LostResult(e) \in Result
<1> DEFINE found == {m \in match_profiling : m.stamp = e.stamp}
<1>1. (IF found = {} THEN NoData ELSE CHOOSE m \in found : TRUE) \in SendData \cup {NoData}
  OBVIOUS
<1>2. QED BY <1>1, ResultType DEF LostResult

LEMMA GiveUpFacts ==
  ASSUME TypeInv, NEW lost \in Seq(SendData), GiveUp(lost)
  PROVE  /\ agent_result' \in Seq(Result)
         /\ Len(agent_result') = Len(agent_result) + Len(lost)
         /\ match_profiling' \subseteq match_profiling
         /\ IsFiniteSet(match_profiling')
         /\ current_profiling_fn' \in Nat
<1> DEFINE f == [i \in 1..Len(lost) |-> LostResult(lost[i])]
<1>1. /\ agent_result \in Seq(Result) /\ match_profiling \subseteq SendData
      /\ current_profiling_fn \in Nat /\ Len(lost) \in Nat
  BY LenProperties DEF TypeInv, QueueType, RecordType
<1>2. f \in [1..Len(lost) -> Result]
  BY <1>1, LostType
<1>3. f \in Seq(Result) /\ Len(f) = Len(lost)
  BY <1>1, <1>2, SeqOfFunction
<1>4. agent_result' = agent_result \o f
  BY DEF GiveUp
<1> HIDE DEF f
<1>5. agent_result' \in Seq(Result) /\ Len(agent_result') = Len(agent_result) + Len(lost)
  BY <1>1, <1>3, <1>4, ConcatProperties
<1>6. match_profiling' \subseteq match_profiling
  BY DEF GiveUp
<1>7. IsFiniteSet(match_profiling')
  BY <1>6, FS_Subset DEF TypeInv, RecordType
<1>8. QED BY <1>1, <1>5, <1>6, <1>7 DEF GiveUp

\* Every second expected frame, as the sweep leaves or takes them.
LEMMA SweepFacts ==
  ASSUME NEW S, NEW s \in Seq(S), NEW n, n = Len(s)
  PROVE  /\ n \in Nat /\ n \div 2 \in Nat /\ n - n \div 2 \in Nat
         /\ [i \in 1..(n - n \div 2) |-> s[2 * i - 1]] \in Seq(S)
         /\ Len([i \in 1..(n - n \div 2) |-> s[2 * i - 1]]) = n - n \div 2
         /\ [i \in 1..(n \div 2) |-> s[2 * i]] \in Seq(S)
         /\ Len([i \in 1..(n \div 2) |-> s[2 * i]]) = n \div 2
<1>1. n \in Nat
  BY LenProperties
<1>2. n \div 2 \in Nat /\ 2 * (n \div 2) <= n /\ n < 2 * (n \div 2) + 2
  BY <1>1
<1>3. n - n \div 2 \in Nat
  BY <1>1, <1>2
<1>4. \A i \in 1..(n - n \div 2) : 2 * i - 1 \in 1..n
  BY <1>1, <1>2, <1>3
<1>5. \A i \in 1..(n \div 2) : 2 * i \in 1..n
  BY <1>1, <1>2
<1>6. [i \in 1..(n - n \div 2) |-> s[2 * i - 1]] \in [1..(n - n \div 2) -> S]
  BY <1>4, ElementOfSeq
<1>7. [i \in 1..(n \div 2) |-> s[2 * i]] \in [1..(n \div 2) -> S]
  BY <1>5, ElementOfSeq
<1>8. /\ [i \in 1..(n - n \div 2) |-> s[2 * i - 1]] \in Seq(S)
      /\ Len([i \in 1..(n - n \div 2) |-> s[2 * i - 1]]) = n - n \div 2
  BY <1>3, <1>6, SeqOfFunction
<1>9. /\ [i \in 1..(n \div 2) |-> s[2 * i]] \in Seq(S)
      /\ Len([i \in 1..(n \div 2) |-> s[2 * i]]) = n \div 2
  BY <1>2, <1>7, SeqOfFunction
<1>10. QED BY <1>1, <1>2, <1>3, <1>8, <1>9

\* The expected frames before and after the k-th.
LEMMA SplitFacts ==
  ASSUME NEW S, NEW s \in Seq(S), NEW k \in 0..Len(s)
  PROVE  /\ SubSeq(s, 1, k - 1) \in Seq(S)
         /\ Len(SubSeq(s, 1, k - 1)) = IF k = 0 THEN 0 ELSE k - 1
         /\ \A i \in 1..(k - 1) : SubSeq(s, 1, k - 1)[i] = s[i]
         /\ SubSeq(s, k + 1, Len(s)) \in Seq(S)
         /\ Len(SubSeq(s, k + 1, Len(s))) = Len(s) - k
         /\ \A i \in 1..(Len(s) - k) : SubSeq(s, k + 1, Len(s))[i] = s[i + k]
<1>1. Len(s) \in Nat /\ k \in Nat /\ k <= Len(s)
  BY LenProperties
<1>2. \A i \in 1..Len(s) : s[i] \in S
  BY ElementOfSeq
<1>3. (\A i \in 1..(k - 1) : s[i] \in S) /\ (\A i \in (k + 1)..Len(s) : s[i] \in S)
  BY <1>1, <1>2
<1>4. /\ SubSeq(s, 1, k - 1) \in Seq(S)
      /\ Len(SubSeq(s, 1, k - 1)) = IF 1 <= k - 1 THEN (k - 1) - 1 + 1 ELSE 0
      /\ \A i \in 1..((k - 1) - 1 + 1) : SubSeq(s, 1, k - 1)[i] = s[1 + i - 1]
  BY <1>1, <1>3, SubSeqProperties
<1>5. /\ SubSeq(s, k + 1, Len(s)) \in Seq(S)
      /\ Len(SubSeq(s, k + 1, Len(s))) = IF k + 1 <= Len(s) THEN Len(s) - (k + 1) + 1 ELSE 0
      /\ \A i \in 1..(Len(s) - (k + 1) + 1) :
            SubSeq(s, k + 1, Len(s))[i] = s[(k + 1) + i - 1]
  BY <1>1, <1>3, SubSeqProperties
<1>6. Len(SubSeq(s, 1, k - 1)) = IF k = 0 THEN 0 ELSE k - 1
  BY <1>1, <1>4
<1>7. Len(SubSeq(s, k + 1, Len(s))) = Len(s) - k
  BY <1>1, <1>5
<1>8. \A i \in 1..(k - 1) : SubSeq(s, 1, k - 1)[i] = s[i]
  BY <1>1, <1>4
<1>9. \A i \in 1..(Len(s) - k) : SubSeq(s, k + 1, Len(s))[i] = s[i + k]
  BY <1>1, <1>5
<1>10. QED BY <1>4, <1>5, <1>6, <1>7, <1>8, <1>9

LEMMA PositionFacts ==
  ASSUME TypeInv
  PROVE  /\ Position \in 0..Len(order_match_profiling_id)
         /\ Position # 0 => order_match_profiling_id[Position].id = senddata.id
         /\ (\E i \in 1..Len(order_match_profiling_id) :
                order_match_profiling_id[i].id = senddata.id) => Position # 0
<1> DEFINE at == {i \in 1..Len(order_match_profiling_id) :
                     order_match_profiling_id[i].id = senddata.id}
<1>1. Len(order_match_profiling_id) \in Nat
  BY LenProperties DEF TypeInv, RecordType
<1>2. at # {} => (CHOOSE i \in at : TRUE) \in at
  OBVIOUS
<1>3. Position = IF at = {} THEN 0 ELSE CHOOSE i \in at : TRUE
  BY DEF Position
<1>4. QED BY <1>1, <1>2, <1>3

LEMMA InitTypes == Init => TypeInv
<1> SUFFICES ASSUME Init PROVE TypeInv
  OBVIOUS
<1>1. Len(Times) \in Nat
  BY AgentAssumption, LenProperties
<1>2. BoolType
  BY DEF Init, AgentInit, BoolType
<1>3. CacheType /\ QueueType /\ WorkType
  BY DEF Init, AgentInit, CacheType, QueueType, WorkType, Threads, Busy
<1>4. RecordType
  BY FS_EmptySet DEF Init, AgentInit, RecordType
<1>5. ToolType
  BY <1>1 DEF Init, ToolType
<1>6. QED BY <1>2, <1>3, <1>4, <1>5 DEF TypeInv

\* What each action leaves alone.
LEMMA ActionFrames ==
  /\ LinkDown => UNCHANGED <<cacheVars, queueVars, recordVars, workVars, toolVars>>
  /\ SkipPic => UNCHANGED <<boolVars, cacheVars, queueVars, recordVars, workVars>>
  /\ OfferPic => UNCHANGED <<queueVars, recordVars, workVars>>
  /\ OfferEof => UNCHANGED <<queueVars, recordVars, workVars>>
  /\ Answered => UNCHANGED <<queueVars, recordVars, workVars>>
  /\ SendAbort => UNCHANGED <<boolVars, cacheVars, queueVars, recordVars, workVars>>
  /\ GetResult => UNCHANGED <<cacheVars, recordVars, workVars>>
  /\ GetNoResult => UNCHANGED <<boolVars, cacheVars, queueVars, recordVars, workVars>>
  /\ GetOver => UNCHANGED <<boolVars, cacheVars, queueVars, recordVars, workVars>>
  /\ RecvAbort => UNCHANGED <<boolVars, cacheVars, queueVars, recordVars, workVars>>
  /\ ReportResult => UNCHANGED <<cacheVars, queueVars, recordVars, workVars, toolVars>>
  /\ ReportEnd => UNCHANGED <<boolVars, cacheVars, queueVars, recordVars, workVars>>
  /\ Stop => UNCHANGED <<boolVars, cacheVars, queueVars, recordVars, toolVars>>
  /\ ProduceSecond /\ UNCHANGED clientVars => UNCHANGED <<boolVars, recordVars, workVars, toolVars>>
  /\ ProduceNothing /\ UNCHANGED clientVars => UNCHANGED <<queueVars, recordVars, workVars, toolVars>>
  /\ SendTake /\ UNCHANGED clientVars => UNCHANGED <<boolVars, cacheVars, recordVars, toolVars>>
  /\ SendRegister /\ UNCHANGED clientVars => UNCHANGED <<boolVars, cacheVars, queueVars, toolVars>>
  /\ SendNotify /\ UNCHANGED clientVars => UNCHANGED <<boolVars, cacheVars, queueVars, toolVars>>
  /\ SendRelease /\ UNCHANGED clientVars => UNCHANGED <<boolVars, recordVars, toolVars>>
  /\ SendResult /\ UNCHANGED clientVars => UNCHANGED <<boolVars, cacheVars, recordVars, toolVars>>
  /\ RecvTake /\ UNCHANGED clientVars => UNCHANGED <<boolVars, cacheVars, recordVars, toolVars>>
  /\ RecvCount /\ UNCHANGED clientVars => UNCHANGED <<boolVars, cacheVars, recordVars, toolVars>>
  /\ ProfilingMatch /\ UNCHANGED clientVars => UNCHANGED <<boolVars, cacheVars, queueVars, workVars, toolVars>>
  /\ ProfilingOrder /\ UNCHANGED clientVars => UNCHANGED <<boolVars, cacheVars, workVars, toolVars>>
  /\ ProfilingProduce /\ UNCHANGED clientVars => UNCHANGED <<boolVars, cacheVars, workVars, toolVars>>
  /\ ProfilingCount /\ UNCHANGED clientVars => UNCHANGED <<boolVars, cacheVars, queueVars, workVars, toolVars>>
  /\ ProfilingSweep /\ UNCHANGED clientVars => UNCHANGED <<boolVars, cacheVars, workVars, toolVars>>
  /\ SendExit /\ UNCHANGED clientVars => UNCHANGED <<boolVars, cacheVars, queueVars, recordVars, toolVars>>
  /\ RecvExit /\ UNCHANGED clientVars => UNCHANGED <<boolVars, cacheVars, queueVars, recordVars, toolVars>>
  /\ ProfilingExit /\ UNCHANGED clientVars => UNCHANGED <<boolVars, cacheVars, toolVars>>
<1> USE DEF boolVars, cacheVars, queueVars, recordVars, workVars, toolVars, handlerVars,
        srcVars, finishVars, sendVars, recvVars, resultVars, matchVars, sendWorkVars, profilingVars
<1>1. LinkDown => UNCHANGED <<cacheVars, queueVars, recordVars, workVars, toolVars>>
  BY DEF LinkDown, agentVars
<1>2. SkipPic => UNCHANGED <<boolVars, cacheVars, queueVars, recordVars, workVars>>
  BY DEF SkipPic, sendPicFrame, agentVars
<1>3. OfferPic => UNCHANGED <<queueVars, recordVars, workVars>>
  BY DEF OfferPic, AddPicture, addFrame, sendPicFrame
<1>4. OfferEof => UNCHANGED <<queueVars, recordVars, workVars>>
  BY DEF OfferEof, AddEof, addFrame, sendPicFrame
<1>5. Answered => UNCHANGED <<queueVars, recordVars, workVars>>
  BY DEF Answered, Reply, sendPicFrame
<1>6. SendAbort => UNCHANGED <<boolVars, cacheVars, queueVars, recordVars, workVars>>
  BY DEF SendAbort, sendPicFrame, agentVars
<1>7. GetResult => UNCHANGED <<cacheVars, recordVars, workVars>>
  BY DEF GetResult, PopResult, recvResultFrame
<1>8. GetNoResult => UNCHANGED <<boolVars, cacheVars, queueVars, recordVars, workVars>>
  BY DEF GetNoResult, recvResultFrame, agentVars
<1>9. GetOver => UNCHANGED <<boolVars, cacheVars, queueVars, recordVars, workVars>>
  BY DEF GetOver, recvResultFrame, agentVars
<1>10. RecvAbort => UNCHANGED <<boolVars, cacheVars, queueVars, recordVars, workVars>>
  BY DEF RecvAbort, recvResultFrame, agentVars
<1>11. ReportResult => UNCHANGED <<cacheVars, queueVars, recordVars, workVars, toolVars>>
  BY DEF ReportResult, mainFrame, agentVars
<1>12. ReportEnd => UNCHANGED <<boolVars, cacheVars, queueVars, recordVars, workVars>>
  BY DEF ReportEnd, mainFrame, agentVars
<1>13. Stop => UNCHANGED <<boolVars, cacheVars, queueVars, recordVars, toolVars>>
  BY DEF Stop, StopAgent, stopFrame, clientVars
<1>14. ProduceSecond /\ UNCHANGED clientVars => UNCHANGED <<boolVars, recordVars, workVars, toolVars>>
  BY DEF ProduceSecond, produceFrame, clientVars
<1>15. ProduceNothing /\ UNCHANGED clientVars => UNCHANGED <<queueVars, recordVars, workVars, toolVars>>
  BY DEF ProduceNothing, produceFrame, clientVars
<1>16. SendTake /\ UNCHANGED clientVars => UNCHANGED <<boolVars, cacheVars, recordVars, toolVars>>
  BY DEF SendTake, sendFrame, clientVars
<1>17. SendRegister /\ UNCHANGED clientVars => UNCHANGED <<boolVars, cacheVars, queueVars, toolVars>>
  BY DEF SendRegister, sendFrame, clientVars
<1>18. SendNotify /\ UNCHANGED clientVars => UNCHANGED <<boolVars, cacheVars, queueVars, toolVars>>
  BY DEF SendNotify, sendFrame, clientVars
<1>19. SendRelease /\ UNCHANGED clientVars => UNCHANGED <<boolVars, recordVars, toolVars>>
  BY DEF SendRelease, sendFrame, clientVars
<1>20. SendResult /\ UNCHANGED clientVars => UNCHANGED <<boolVars, cacheVars, recordVars, toolVars>>
  BY DEF SendResult, sendFrame, clientVars
<1>21. RecvTake /\ UNCHANGED clientVars => UNCHANGED <<boolVars, cacheVars, recordVars, toolVars>>
  BY DEF RecvTake, recvFrame, clientVars
<1>22. RecvCount /\ UNCHANGED clientVars => UNCHANGED <<boolVars, cacheVars, recordVars, toolVars>>
  BY DEF RecvCount, recvFrame, clientVars
<1>23. ProfilingMatch /\ UNCHANGED clientVars => UNCHANGED <<boolVars, cacheVars, queueVars, workVars, toolVars>>
  BY DEF ProfilingMatch, profilingFrame, clientVars
<1>24. ProfilingOrder /\ UNCHANGED clientVars => UNCHANGED <<boolVars, cacheVars, workVars, toolVars>>
  BY DEF ProfilingOrder, profilingFrame, clientVars
<1>25. ProfilingProduce /\ UNCHANGED clientVars => UNCHANGED <<boolVars, cacheVars, workVars, toolVars>>
  BY DEF ProfilingProduce, profilingFrame, clientVars
<1>26. ProfilingCount /\ UNCHANGED clientVars => UNCHANGED <<boolVars, cacheVars, queueVars, workVars, toolVars>>
  BY DEF ProfilingCount, profilingFrame, clientVars
<1>27. ProfilingSweep /\ UNCHANGED clientVars => UNCHANGED <<boolVars, cacheVars, workVars, toolVars>>
  BY DEF ProfilingSweep, profilingFrame, clientVars
<1>28. SendExit /\ UNCHANGED clientVars => UNCHANGED <<boolVars, cacheVars, queueVars, recordVars, toolVars>>
  BY DEF SendExit, stopFrame, clientVars
<1>29. RecvExit /\ UNCHANGED clientVars => UNCHANGED <<boolVars, cacheVars, queueVars, recordVars, toolVars>>
  BY DEF RecvExit, stopFrame, clientVars
<1>30. ProfilingExit /\ UNCHANGED clientVars => UNCHANGED <<boolVars, cacheVars, toolVars>>
  BY DEF ProfilingExit, stopFrame, clientVars
<1>31. QED
  BY <1>1, <1>2, <1>3, <1>4, <1>5, <1>6, <1>7, <1>8, <1>9, <1>10, <1>11, <1>12, <1>13,
     <1>14, <1>15, <1>16, <1>17, <1>18, <1>19, <1>20, <1>21, <1>22, <1>23, <1>24, <1>25,
     <1>26, <1>27, <1>28, <1>29, <1>30

LEMMA TypeStep == TypeInv /\ SrcInv /\ [Next]_vars => TypeInv'
<1> SUFFICES ASSUME TypeInv, SrcInv, [Next]_vars PROVE TypeInv'
  OBVIOUS
<1>0. Len(Times) \in Nat /\ Pics = 1..Len(Times)
  BY AgentAssumption, LenProperties DEF Pics
<1> USE GroupFrames, ActionFrames DEF TypeInv
<1>1. CASE UNCHANGED vars
  <2>1. UNCHANGED <<boolVars, cacheVars, queueVars, recordVars, workVars, toolVars>>
    BY <1>1 DEF vars, agentVars, clientVars, handlerVars, srcVars, finishVars, sendVars,
       recvVars, resultVars, matchVars, sendWorkVars, profilingVars, boolVars, cacheVars,
       queueVars, recordVars, workVars, toolVars
  <2>2. QED BY <2>1
<1>2. CASE LinkDown
  <2>1. BoolType'
    BY <1>2, Zenon DEF LinkDown, agentVars, finishVars, handlerVars, BoolType
  <2>2. QED BY <1>2, <2>1
<1>3. CASE SkipPic
  <2>1. send_count' \in 0..Len(Times)
    BY <1>0, <1>3, ToolAssumption DEF SkipPic, ToolType
  <2>2. ToolType'
    BY <1>3, <2>1 DEF SkipPic, sendPicFrame, ToolType
  <2>3. QED BY <1>3, <2>2
<1>4. CASE OfferPic
  <2>1. m_newsrc_datas' \in Seq(Pics)
    BY <1>4, AppendProperties DEF OfferPic, AddPicture, CacheType
  <2>2. CacheType'
    BY <1>4, <2>1 DEF OfferPic, AddPicture, addFrame, CacheType
  <2>3. BoolType'
    <3>1. refused' \in BOOLEAN /\ first_datas_full' \in BOOLEAN
      <4>1. /\ refused' = (current_cache_fn >= MaxCache)
            /\ first_datas_full' = (first_datas_full \/ current_cache_fn' = MaxCache)
        BY <1>4 DEF OfferPic, AddPicture
      <4>2. refused' \in BOOLEAN
        BY <4>1, AgentAssumption, SMT DEF CacheType
      <4>3. first_datas_full' \in BOOLEAN
        BY <4>1, Zenon
      <4>4. QED BY <4>2, <4>3
    <3>2. UNCHANGED <<finish_add_all_datas, finish_add_all_datas_2, link, results>>
      BY <1>4 DEF OfferPic, AddPicture, addFrame, sendPicFrame
    <3>3. QED BY <3>1, <3>2, Zenon DEF BoolType
  <2>4. ToolType'
    BY <1>4 DEF OfferPic, sendPicFrame, ToolType
  <2>5. QED BY <1>4, <2>2, <2>3, <2>4
<1>5. CASE OfferEof
  <2>1. CacheType'
    BY <1>5 DEF OfferEof, AddEof, addFrame, CacheType
  <2>2. BoolType'
    BY <1>5, Zenon DEF OfferEof, AddEof, addFrame, sendPicFrame, BoolType
  <2>3. ToolType'
    BY <1>5 DEF OfferEof, sendPicFrame, ToolType
  <2>4. QED BY <1>5, <2>1, <2>2, <2>3
<1>6. CASE Answered
  <2>1. CacheType'
    BY <1>6 DEF Answered, Reply, srcVars, CacheType
  <2>2. BoolType'
    BY <1>6, Zenon DEF Answered, Reply, finishVars, sendPicFrame, BoolType
  <2>3. send_count' \in 0..Len(Times) /\ sendpic' \in {"offer", "done"}
    BY <1>0, <1>6 DEF Answered, ToolType
  <2>4. ToolType'
    BY <1>6, <2>3 DEF Answered, sendPicFrame, ToolType
  <2>5. QED BY <1>6, <2>1, <2>2, <2>4
<1>7. CASE SendAbort
  <2>1. ToolType'
    BY <1>7 DEF SendAbort, sendPicFrame, ToolType
  <2>2. QED BY <1>7, <2>1
<1>8. CASE GetResult
  <2>1. agent_result' \in Seq(Result) /\ Head(agent_result) \in Result
    BY <1>8, HeadTailProperties DEF GetResult, PopResult, QueueType
  <2>2. QueueType'
    BY <1>8, <2>1 DEF GetResult, PopResult, sendVars, recvVars, QueueType
  <2>3. Head(agent_result).id \in Nat
    BY <2>1 DEF Result
  <2>4. profiles' \subseteq Nat /\ hands' \in Nat
    <3>1. profiles \subseteq Nat /\ hands \in Nat
      BY DEF ToolType
    <3>2. \/ hands' = hands + 1 /\ profiles' = profiles
          \/ hands' = hands /\ profiles' = profiles \cup {Head(agent_result).id}
      BY <1>8 DEF GetResult
    <3>3. profiles' \subseteq Nat
      BY <2>3, <3>1, <3>2, Zenon
    <3>4. hands' \in Nat
      BY <3>1, <3>2
    <3>5. QED BY <3>3, <3>4
  <2>5. ToolType'
    BY <1>8, <2>4 DEF GetResult, recvResultFrame, ToolType
  <2>6. BoolType'
    BY <1>8, Zenon DEF GetResult, PopResult, handlerVars, finishVars, recvResultFrame, BoolType
  <2>7. QED BY <1>8, <2>2, <2>5, <2>6
<1>9. CASE GetNoResult \/ GetOver \/ RecvAbort
  <2>1. ToolType'
    BY <1>9 DEF GetNoResult, GetOver, RecvAbort, recvResultFrame, ToolType
  <2>2. QED BY <1>9, <2>1
<1>10. CASE ReportResult
  <2>1. BoolType'
    BY <1>10, Zenon DEF ReportResult, mainFrame, agentVars, handlerVars, finishVars, BoolType
  <2>2. QED BY <1>10, <2>1
<1>11. CASE ReportEnd
  <2>1. ToolType'
    BY <1>11 DEF ReportEnd, mainFrame, ToolType
  <2>2. QED BY <1>11, <2>1
<1>12. CASE Stop
  <2>1. WorkType'
    BY <1>12 DEF Stop, StopAgent, stopFrame, WorkType
  <2>2. QED BY <1>12, <2>1
<1>13. CASE ProduceSecond /\ UNCHANGED clientVars
  <2> DEFINE n == FirstSecond
             sends == Simulated(n)
             q == IF mode.recv = 0 THEN n ELSE mode.recv
  <2>1. n \in 1..Len(m_newsrc_datas) /\ sends \in Seq(SendData)
    BY <1>13, SimulatedFacts DEF ProduceSecond
  <2>2. Len(m_newsrc_datas) \in Nat /\ Len(sends) \in Nat
    BY <2>1, LenProperties DEF CacheType
  <2>3. q \in Nat
    BY <2>1, <2>2, ModeFacts DEF WorkType
  <2>4. /\ send_list' = send_list \o sends
        /\ max_send_fn' = max_send_fn + Len(sends)
        /\ m_newsrc_datas' = SubSeq(m_newsrc_datas, n + 1, Len(m_newsrc_datas))
        /\ m_usedsrc_datas' = m_usedsrc_datas \cup {m_newsrc_datas[i] : i \in 1..n}
        /\ recv_list' = recv_list + q
        /\ max_recv_fn' = max_recv_fn + q
    BY <1>13 DEF ProduceSecond
  <2> HIDE DEF n, sends, q
  <2>5. send_list' \in Seq(SendData)
    BY <2>1, <2>4, ConcatProperties DEF QueueType
  <2>6. max_send_fn' \in Nat /\ recv_list' \in Nat /\ max_recv_fn' \in Nat
    BY <2>2, <2>3, <2>4 DEF QueueType
  <2>7. QueueType'
    BY <1>13, <2>5, <2>6 DEF ProduceSecond, produceFrame, resultVars, QueueType
  <2>8. m_newsrc_datas' \in Seq(Pics)
    BY <2>1, <2>2, <2>4, SplitFacts DEF CacheType
  <2>9. m_usedsrc_datas' \subseteq Pics
    <3>1. \A i \in 1..n : m_newsrc_datas[i] \in Pics
      BY <2>1, <2>2, ElementOfSeq DEF CacheType
    <3>2. QED BY <2>4, <3>1 DEF CacheType
  <2>10. CacheType'
    BY <1>13, <2>8, <2>9 DEF ProduceSecond, produceFrame, CacheType
  <2>11. QED BY <1>13, <2>7, <2>10
<1>14. CASE ProduceNothing /\ UNCHANGED clientVars
  <2>1. BoolType'
    BY <1>14, Zenon DEF ProduceNothing, produceFrame, clientVars, BoolType
  <2>2. CacheType'
    BY <1>14 DEF ProduceNothing, produceFrame, CacheType
  <2>3. QED BY <1>14, <2>1, <2>2
<1>15. CASE SendTake /\ UNCHANGED clientVars
  <2>1. readying' \in SendData /\ send_list' \in Seq(SendData)
    BY <1>15, HeadTailProperties DEF SendTake, QueueType
  <2>2. QueueType'
    BY <1>15, <2>1 DEF SendTake, sendFrame, recvVars, QueueType
  <2>3. WorkType'
    BY <1>15, <2>1 DEF SendTake, sendFrame, WorkType, Busy
  <2>4. QED BY <1>15, <2>2, <2>3
<1>16. CASE SendRegister /\ UNCHANGED clientVars
  <2>1. readying \in SendData
    BY <1>16 DEF SendRegister, WorkType, Busy
  <2>2. match_profiling' \subseteq SendData /\ order_match_profiling_id' \in Seq(SendData)
    BY <1>16, <2>1, AppendProperties DEF SendRegister, RecordType
  <2>3. IsFiniteSet(match_profiling')
    <3>1. IsFiniteSet({m \in match_profiling : m.stamp # readying.stamp})
      BY FS_Subset DEF RecordType
    <3>2. QED BY <1>16, <3>1, FS_AddElement DEF SendRegister
  <2>4. RecordType'
    BY <1>16, <2>2, <2>3 DEF SendRegister, sendFrame, profilingVars, RecordType
  <2>5. WorkType'
    BY <1>16, <2>1 DEF SendRegister, sendFrame, WorkType, Busy
  <2>6. QED BY <1>16, <2>4, <2>5
<1>17. CASE SendNotify /\ UNCHANGED clientVars
  <2>1. readying \in SendData
    BY <1>17 DEF SendNotify, WorkType, Busy
  <2>2. Times[readying.frame] \in Nat
    BY <2>1, TimesNat DEF SendData
  <2>3. sdk' \in Seq(Nat)
    BY <1>17, <2>2, AppendProperties DEF SendNotify, RecordType
  <2>4. RecordType'
    BY <1>17, <2>3 DEF SendNotify, sendFrame, matchVars, profilingVars, RecordType
  <2>5. WorkType'
    BY <1>17, <2>1 DEF SendNotify, sendFrame, WorkType, Busy
  <2>6. QED BY <1>17, <2>4, <2>5
<1>18. CASE SendRelease /\ UNCHANGED clientVars
  <2>1. m_usedsrc_datas' \subseteq Pics /\ current_cache_fn' \in Nat
    <3>1. CASE UNCHANGED <<m_usedsrc_datas, current_cache_fn>>
      BY <3>1 DEF CacheType
    <3>2. CASE \E p \in Unreferenced : /\ m_usedsrc_datas' = m_usedsrc_datas \ {p}
                                       /\ current_cache_fn' = current_cache_fn - 1
      <4>1. m_usedsrc_datas # {} /\ m_usedsrc_datas' \subseteq Pics
        BY <3>2 DEF Unreferenced, CacheType
      <4>2. IsFiniteSet(m_usedsrc_datas)
        BY PicsFinite, FS_Subset DEF CacheType
      <4>3. Cardinality(m_usedsrc_datas) \in Nat \ {0}
        BY <4>1, <4>2, FS_EmptySet, FS_CardinalityType
      <4>4. Len(m_newsrc_datas) \in Nat
        BY LenProperties DEF CacheType
      <4>5. current_cache_fn = Len(m_newsrc_datas) + Cardinality(m_usedsrc_datas)
        BY DEF SrcInv
      <4>6. current_cache_fn - 1 \in Nat
        BY <4>3, <4>4, <4>5
      <4>7. QED BY <3>2, <4>1, <4>6
    <3>3. QED BY <1>18, <3>1, <3>2 DEF SendRelease
  <2>2. CacheType'
    BY <1>18, <2>1 DEF SendRelease, sendFrame, handlerVars, CacheType
  <2>3. QueueType'
    BY <1>18 DEF SendRelease, sendFrame, recvVars, QueueType
  <2>4. readying \in SendData
    BY <1>18 DEF SendRelease, WorkType, Busy
  <2>5. WorkType'
    BY <1>18, <2>4 DEF SendRelease, sendFrame, WorkType, Busy, Threads
  <2>6. QED BY <1>18, <2>2, <2>3, <2>5
<1>19. CASE SendResult /\ UNCHANGED clientVars
  <2>1. agent_result' \in Seq(Result)
    BY <1>19, ResultType, AppendProperties DEF SendResult, WorkType, QueueType
  <2>2. QueueType'
    BY <1>19, <2>1 DEF SendResult, sendFrame, recvVars, QueueType
  <2>3. WorkType'
    BY <1>19 DEF SendResult, sendFrame, WorkType, Busy, Threads
  <2>4. QED BY <1>19, <2>2, <2>3
<1>20. CASE RecvTake /\ UNCHANGED clientVars
  <2>1. agent_result' \in Seq(Result) /\ recv_list' \in Nat
    BY <1>20, ResultType, AppendProperties DEF RecvTake, QueueType
  <2>2. QueueType'
    BY <1>20, <2>1 DEF RecvTake, recvFrame, sendVars, QueueType
  <2>3. WorkType'
    BY <1>20 DEF RecvTake, recvFrame, sendWorkVars, WorkType
  <2>4. QED BY <1>20, <2>2, <2>3
<1>21. CASE RecvCount /\ UNCHANGED clientVars
  <2>1. QueueType'
    BY <1>21 DEF RecvCount, recvFrame, sendVars, QueueType
  <2>2. WorkType'
    BY <1>21 DEF RecvCount, recvFrame, sendWorkVars, WorkType, Threads
  <2>3. QED BY <1>21, <2>1, <2>2
<1>22. CASE ProfilingMatch /\ UNCHANGED clientVars
  <2>1. sdk' \in Seq(Nat)
    BY <1>22, HeadTailProperties DEF ProfilingMatch, RecordType
  <2>2. senddata' \in SendData \cup {NoData} /\ match_profiling' \subseteq SendData
    BY <1>22 DEF ProfilingMatch, RecordType
  <2>3. IsFiniteSet(match_profiling')
    BY <1>22, FS_Difference DEF ProfilingMatch, RecordType
  <2>4. RecordType'
    BY <1>22, <2>1, <2>2, <2>3 DEF ProfilingMatch, RecordType
  <2>5. QED BY <1>22, <2>4
<1>23. CASE ProfilingOrder /\ UNCHANGED clientVars
  <2>1. Position \in 0..Len(order_match_profiling_id)
    BY PositionFacts
  <2>2. /\ SubSeq(order_match_profiling_id, 1, Position - 1) \in Seq(SendData)
        /\ order_match_profiling_id' \in Seq(SendData)
    BY <1>23, <2>1, SplitFacts DEF ProfilingOrder, RecordType
  <2>3. GiveUp(SubSeq(order_match_profiling_id, 1, Position - 1))
    BY <1>23 DEF ProfilingOrder
  <2>4. /\ agent_result' \in Seq(Result) /\ match_profiling' \subseteq match_profiling
        /\ current_profiling_fn' \in Nat /\ IsFiniteSet(match_profiling')
    BY <2>2, <2>3, GiveUpFacts
  <2>5. QueueType'
    BY <1>23, <2>4 DEF ProfilingOrder, profilingFrame, sendVars, recvVars, QueueType
  <2>6. RecordType'
    BY <1>23, <2>2, <2>4 DEF ProfilingOrder, RecordType
  <2>7. QED BY <1>23, <2>5, <2>6
<1>24. CASE ProfilingProduce /\ UNCHANGED clientVars
  <2>1. agent_result' \in Seq(Result)
    BY <1>24, ResultType, AppendProperties DEF ProfilingProduce, RecordType, QueueType
  <2>2. QueueType'
    BY <1>24, <2>1 DEF ProfilingProduce, profilingFrame, sendVars, recvVars, QueueType
  <2>3. RecordType'
    BY <1>24 DEF ProfilingProduce, matchVars, RecordType
  <2>4. QED BY <1>24, <2>2, <2>3
<1>25. CASE ProfilingCount /\ UNCHANGED clientVars
  <2>1. RecordType'
    BY <1>25 DEF ProfilingCount, RecordType
  <2>2. QED BY <1>25, <2>1
<1>26. CASE ProfilingSweep /\ UNCHANGED clientVars
  <2> DEFINE n == Len(order_match_profiling_id)
             lost == [i \in 1..(n - n \div 2) |-> order_match_profiling_id[2 * i - 1]]
  <2>1. lost \in Seq(SendData) /\ order_match_profiling_id' \in Seq(SendData)
    BY <1>26, SweepFacts DEF ProfilingSweep, RecordType
  <2>2. GiveUp(lost)
    BY <1>26 DEF ProfilingSweep
  <2> HIDE DEF lost
  <2>3. /\ agent_result' \in Seq(Result) /\ match_profiling' \subseteq match_profiling
        /\ current_profiling_fn' \in Nat /\ IsFiniteSet(match_profiling')
    BY <2>1, <2>2, GiveUpFacts
  <2>4. profilingwork' \in {"stuck", "poll"} /\ UNCHANGED <<senddata, sdk>>
    BY <1>26 DEF ProfilingSweep
  <2>5. QueueType'
    BY <1>26, <2>3 DEF ProfilingSweep, profilingFrame, sendVars, recvVars, QueueType
  <2>6. RecordType'
    BY <2>1, <2>3, <2>4 DEF RecordType
  <2>7. QED BY <1>26, <2>5, <2>6
<1>27. CASE SendExit /\ UNCHANGED clientVars
  <2>1. WorkType'
    BY <1>27 DEF SendExit, stopFrame, WorkType, Busy, Threads
  <2>2. QED BY <1>27, <2>1
<1>28. CASE RecvExit /\ UNCHANGED clientVars
  <2>1. WorkType'
    BY <1>28 DEF RecvExit, stopFrame, WorkType, Threads
  <2>2. QED BY <1>28, <2>1
<1>29. CASE ProfilingExit /\ UNCHANGED clientVars
  <2>1. agent_result' \in Seq(Result)
    <3>1. PICK rest \in [1..Cardinality(match_profiling) -> match_profiling] :
             agent_result' = IF profilingwork = "ended" THEN agent_result
                             ELSE agent_result \o [i \in DOMAIN rest |-> ProfilingResult(rest[i])]
      BY <1>29 DEF ProfilingExit
    <3> DEFINE c == Cardinality(match_profiling)
               f == [i \in DOMAIN rest |-> ProfilingResult(rest[i])]
    <3>2. c \in Nat
      BY FS_CardinalityType DEF RecordType
    <3>3. f \in [1..c -> Result]
      <4>1. \A i \in 1..c : rest[i] \in SendData
        BY DEF RecordType
      <4>2. \A i \in 1..c : ProfilingResult(rest[i]) \in Result
        BY <4>1, ResultType
      <4>3. QED BY <4>2
    <3>4. f \in Seq(Result)
      BY <3>2, <3>3, SeqOfFunction
    <3> HIDE DEF f
    <3>5. agent_result \in Seq(Result) /\ agent_result \o f \in Seq(Result)
      BY <3>4, ConcatProperties DEF QueueType
    <3>6. QED BY <3>1, <3>5 DEF f
  <2>2. QueueType'
    BY <1>29, <2>1 DEF ProfilingExit, stopFrame, sendVars, recvVars, QueueType
  <2>3. RecordType'
    BY <1>29 DEF ProfilingExit, stopFrame, RecordType
  <2>4. WorkType'
    BY <1>29 DEF ProfilingExit, stopFrame, WorkType
  <2>5. QED BY <1>29, <2>2, <2>3, <2>4
<1>30. QED
  BY <1>1, <1>2, <1>3, <1>4, <1>5, <1>6, <1>7, <1>8, <1>9, <1>10, <1>11, <1>12, <1>13,
     <1>14, <1>15, <1>16, <1>17, <1>18, <1>19, <1>20, <1>21, <1>22, <1>23, <1>24, <1>25,
     <1>26, <1>27, <1>28, <1>29
     DEF Next, SendPic, RecvResult, Report, AgentStep, AgentNext, Produce, SendWork,
         RecvWork, ProfilingWork, Stopping
-----------------------------------------------------------------------------
(* The cache.                                                              *)

LEMMA InitSrc == Init => SrcInv
<1> SUFFICES ASSUME Init PROVE SrcInv
  OBVIOUS
<1>1. m_newsrc_datas = <<>> /\ Len(m_newsrc_datas) = 0 /\ m_usedsrc_datas = {}
  BY EmptySeq DEF Init, AgentInit
<1>2. \A i \in 1..Len(m_newsrc_datas) : FALSE
  BY <1>1
<1>3. current_cache_fn = 0 /\ data = 0 /\ finish_add_all_datas = FALSE
  BY DEF Init, AgentInit
<1>4. Cardinality(m_usedsrc_datas) = 0
  BY <1>1, FS_EmptySet
<1>5. QED BY <1>1, <1>2, <1>3, <1>4 DEF SrcInv

\* The first n new pictures are n pictures, and none of them is used.
LEMMA UseCount ==
  ASSUME TypeInv, SrcInv, NEW n \in 0..Len(m_newsrc_datas)
  PROVE  /\ IsFiniteSet({m_newsrc_datas[i] : i \in 1..n})
         /\ Cardinality({m_newsrc_datas[i] : i \in 1..n}) = n
         /\ IsFiniteSet(m_usedsrc_datas)
         /\ Cardinality(m_usedsrc_datas \cup {m_newsrc_datas[i] : i \in 1..n})
               = Cardinality(m_usedsrc_datas) + n
<1> DEFINE T == {m_newsrc_datas[i] : i \in 1..n}
           f == [i \in 1..n |-> m_newsrc_datas[i]]
<1>1. Len(m_newsrc_datas) \in Nat /\ n \in Nat /\ n <= Len(m_newsrc_datas)
  BY LenProperties DEF TypeInv, CacheType
<1>2. \A i \in 1..n : m_newsrc_datas[i] \in Nat /\ i \in 1..Len(m_newsrc_datas)
  BY <1>1, ElementOfSeq, PicsFinite DEF TypeInv, CacheType
<1>3. \A i, j \in 1..n : m_newsrc_datas[i] = m_newsrc_datas[j] => i = j
  <2> SUFFICES ASSUME NEW i \in 1..n, NEW j \in 1..n, i # j
               PROVE  m_newsrc_datas[i] # m_newsrc_datas[j]
    OBVIOUS
  <2>1. i < j \/ j < i
    BY <1>1
  <2>2. m_newsrc_datas[i] < m_newsrc_datas[j] \/ m_newsrc_datas[j] < m_newsrc_datas[i]
    BY <1>2, <2>1 DEF SrcInv
  <2>3. QED BY <1>2, <2>2
<1>4. f \in Bijection(1..n, T)
  BY <1>3 DEF Bijection, Injection, Surjection, IsInjective
<1>5. IsFiniteSet(1..n) /\ Cardinality(1..n) = n
  BY <1>1, FS_Interval
<1>6. IsFiniteSet(T) /\ Cardinality(T) = n
  BY <1>4, <1>5, FS_Bijection DEF ExistsBijection
<1>7. IsFiniteSet(m_usedsrc_datas)
  BY PicsFinite, FS_Subset DEF TypeInv, CacheType
<1>8. m_usedsrc_datas \cap T = {}
  <2> SUFFICES ASSUME NEW i \in 1..n, m_newsrc_datas[i] \in m_usedsrc_datas PROVE FALSE
    OBVIOUS
  <2>1. m_newsrc_datas[i] < m_newsrc_datas[i]
    BY <1>2 DEF SrcInv
  <2>2. QED BY <1>2, <2>1
<1> HIDE DEF T, f
<1>9. Cardinality(m_usedsrc_datas \cup T) = Cardinality(m_usedsrc_datas) + n - 0
  <2>1. Cardinality(m_usedsrc_datas \cap T) = 0
    BY <1>8, FS_EmptySet
  <2>2. Cardinality(m_usedsrc_datas \cup T) =
           Cardinality(m_usedsrc_datas) + Cardinality(T) - Cardinality(m_usedsrc_datas \cap T)
    BY <1>6, <1>7, FS_Union
  <2>3. QED BY <1>6, <2>1, <2>2
<1>10. Cardinality(m_usedsrc_datas) \in Nat
  BY <1>7, FS_CardinalityType
<1>11. QED BY <1>1, <1>6, <1>7, <1>9, <1>10 DEF T

srcInvVars == <<data, refused, m_newsrc_datas, m_usedsrc_datas, current_cache_fn,
                finish_add_all_datas, sendpic, send_count>>

LEMMA SrcFrame == SrcInv /\ UNCHANGED srcInvVars => SrcInv'
  BY DEF SrcInv, Limit, srcInvVars

LEMMA LimitType == TypeInv => Limit \in 0..Len(Times) /\ Len(Times) \in Nat
<1>1. Len(Times) \in Nat
  BY AgentAssumption, LenProperties
<1>2. QED BY <1>1 DEF TypeInv, ToolType, Limit, Pics

LEMMA SrcNat ==
  ASSUME TypeInv
  PROVE  /\ Len(m_newsrc_datas) \in Nat
         /\ \A i \in 1..Len(m_newsrc_datas) : m_newsrc_datas[i] \in Nat \ {0}
         /\ \A p \in m_usedsrc_datas : p \in Nat \ {0}
         /\ IsFiniteSet(m_usedsrc_datas) /\ Cardinality(m_usedsrc_datas) \in Nat
<1>1. m_newsrc_datas \in Seq(Pics) /\ m_usedsrc_datas \subseteq Pics
  BY DEF TypeInv, CacheType
<1>2. Len(m_newsrc_datas) \in Nat /\ \A i \in 1..Len(m_newsrc_datas) : m_newsrc_datas[i] \in Pics
  BY <1>1, LenProperties, ElementOfSeq
<1>3. IsFiniteSet(m_usedsrc_datas)
  BY <1>1, PicsFinite, FS_Subset
<1>4. QED BY <1>1, <1>2, <1>3, PicsFinite, FS_CardinalityType

\* A step that leaves the cache alone and lets the client go on.
LEMMA SrcMoves ==
  ASSUME TypeInv, SrcInv, Limit' \in Nat, Limit <= Limit',
         UNCHANGED <<m_newsrc_datas, m_usedsrc_datas, current_cache_fn>>,
         data' \in {0, data},
         finish_add_all_datas' => data' = 0 /\ sendpic' \in {"eof", "done"}
  PROVE  SrcInv'
<1>1. Limit \in Nat
  BY LimitType
<1>2. /\ \A i \in 1..Len(m_newsrc_datas) : m_newsrc_datas[i] <= Limit'
      /\ \A p \in m_usedsrc_datas : p <= Limit'
  BY <1>1, SrcNat DEF SrcInv
<1>3. QED BY <1>2 DEF SrcInv

LEMMA SrcOffer == TypeInv /\ SrcInv /\ OfferPic => SrcInv'
<1> SUFFICES ASSUME TypeInv, SrcInv, OfferPic PROVE SrcInv'
  OBVIOUS
<1> DEFINE p == send_count + 1
           L == Len(m_newsrc_datas)
<1>1. send_count \in Nat /\ Limit = send_count /\ p \in Pics
  BY LimitType DEF TypeInv, ToolType, OfferPic, Limit
<1>2. finish_add_all_datas' = finish_add_all_datas /\ ~finish_add_all_datas
  BY DEF OfferPic, AddPicture, SrcInv
<1>3. L \in Nat /\ (\A i \in 1..L : m_newsrc_datas[i] \in Nat /\ m_newsrc_datas[i] < p)
      /\ (\A q \in m_usedsrc_datas : q \in Nat /\ q < p)
  BY <1>1, SrcNat DEF SrcInv
<1>4. /\ data' = p /\ m_usedsrc_datas' = m_usedsrc_datas
      /\ send_count' = send_count /\ sendpic' = "wait"
  BY DEF OfferPic, AddPicture, addFrame
<1>5. CASE refused'
  <2>1. m_newsrc_datas' = m_newsrc_datas /\ current_cache_fn' = current_cache_fn
    BY <1>5 DEF OfferPic, AddPicture
  <2>2. Limit' = Limit
    BY <1>1, <1>4, <1>5 DEF Limit
  <2>3. \A i \in 1..(L - 1) : m_newsrc_datas[i] < p
    BY <1>3
  <2>4. QED BY <1>2, <1>3, <1>4, <2>1, <2>2, <2>3 DEF SrcInv
<1>6. CASE ~refused'
  <2>1. m_newsrc_datas' = Append(m_newsrc_datas, p) /\ current_cache_fn' = current_cache_fn + 1
    BY <1>6 DEF OfferPic, AddPicture
  <2>2. Limit' = p
    BY <1>4, <1>6 DEF Limit
  <2>3. /\ Len(m_newsrc_datas') = L + 1
        /\ \A i \in 1..L : m_newsrc_datas'[i] = m_newsrc_datas[i]
        /\ m_newsrc_datas'[L + 1] = p
    BY <1>1, <2>1, AppendProperties DEF TypeInv, CacheType
  <2>4. current_cache_fn' = Len(m_newsrc_datas') + Cardinality(m_usedsrc_datas')
    BY <1>3, <1>4, <2>1, <2>3, SrcNat DEF SrcInv
  <2>5. \A i, j \in 1..(L + 1) : i < j => m_newsrc_datas'[i] < m_newsrc_datas'[j]
    <3> TAKE i, j \in 1..(L + 1)
    <3> HAVE i < j
    <3>1. i \in 1..L /\ (j \in 1..L \/ j = L + 1)
      BY <1>3
    <3>2. QED BY <1>3, <2>3, <3>1 DEF SrcInv
  <2>6. \A q \in m_usedsrc_datas', i \in 1..(L + 1) : q < m_newsrc_datas'[i]
    <3> TAKE q \in m_usedsrc_datas', i \in 1..(L + 1)
    <3>1. i \in 1..L \/ i = L + 1
      BY <1>3
    <3>2. QED BY <1>3, <1>4, <2>3, <3>1 DEF SrcInv
  <2>7. \A i \in 1..(L + 1) : m_newsrc_datas'[i] <= p
    <3> TAKE i \in 1..(L + 1)
    <3>1. i \in 1..L \/ i = L + 1
      BY <1>3
    <3>2. QED BY <1>1, <1>3, <2>3, <3>1
  <2>8. \A i \in 1..(Len(m_newsrc_datas') - 1) : m_newsrc_datas'[i] < p
    BY <1>3, <2>3
  <2>9. \A q \in m_usedsrc_datas' : q <= p /\ q < p
    BY <1>1, <1>3, <1>4
  <2>10. QED BY <1>2, <1>4, <2>2, <2>3, <2>4, <2>5, <2>6, <2>7, <2>8, <2>9 DEF SrcInv
<1>7. QED BY <1>5, <1>6

LEMMA SrcProduce == TypeInv /\ SrcInv /\ ProduceSecond /\ UNCHANGED clientVars => SrcInv'
<1> SUFFICES ASSUME TypeInv, SrcInv, ProduceSecond, UNCHANGED clientVars PROVE SrcInv'
  OBVIOUS
<1> DEFINE n == FirstSecond
           L == Len(m_newsrc_datas)
           T == {m_newsrc_datas[i] : i \in 1..n}
<1>1. n \in 1..L /\ L \in Nat
  BY SimulatedFacts, SrcNat DEF ProduceSecond
<1>2. /\ m_newsrc_datas' = SubSeq(m_newsrc_datas, n + 1, L)
      /\ m_usedsrc_datas' = m_usedsrc_datas \cup T
      /\ UNCHANGED <<data, refused, current_cache_fn, finish_add_all_datas>>
  BY DEF ProduceSecond, produceFrame
<1>3. finish_add_all_datas \/ n < L
  BY DEF ProduceSecond, SecondReady
<1>4. UNCHANGED Limit /\ UNCHANGED sendpic
  BY <1>2 DEF Limit, clientVars
<1> HIDE DEF n
<1>5. /\ Len(m_newsrc_datas') = L - n
      /\ \A i \in 1..(L - n) : m_newsrc_datas'[i] = m_newsrc_datas[i + n]
  BY <1>1, <1>2, SplitFacts DEF TypeInv, CacheType
<1>6. current_cache_fn' = Len(m_newsrc_datas') + Cardinality(m_usedsrc_datas')
  <2>1. Cardinality(m_usedsrc_datas \cup T) = Cardinality(m_usedsrc_datas) + n
    <3>1. n \in 0..L
      BY <1>1
    <3>2. QED BY <3>1, UseCount, Zenon
  <2>2. current_cache_fn = L + Cardinality(m_usedsrc_datas) /\ Cardinality(m_usedsrc_datas) \in Nat
    BY SrcNat DEF SrcInv
  <2>3. QED BY <1>1, <1>2, <1>5, <2>1, <2>2
<1>7. \A i \in 1..(L - n) : i + n \in 1..L
  BY <1>1
<1>8. \A i, j \in 1..(L - n) : i < j => m_newsrc_datas'[i] < m_newsrc_datas'[j]
  BY <1>1, <1>5, <1>7 DEF SrcInv
<1>9. \A p \in m_usedsrc_datas', i \in 1..(L - n) : p < m_newsrc_datas'[i]
  <2> TAKE p \in m_usedsrc_datas', i \in 1..(L - n)
  <2>1. CASE p \in m_usedsrc_datas
    BY <1>5, <1>7, <2>1 DEF SrcInv
  <2>2. CASE \E j \in 1..n : p = m_newsrc_datas[j]
    <3>1. PICK j \in 1..n : p = m_newsrc_datas[j]
      BY <2>2
    <3>2. j \in 1..L /\ j < i + n
      BY <1>1
    <3>3. QED BY <1>5, <1>7, <3>1, <3>2 DEF SrcInv
  <2>3. QED BY <1>2, <2>1, <2>2
<1>10. \A i \in 1..(L - n) : m_newsrc_datas'[i] <= Limit
  BY <1>5, <1>7 DEF SrcInv
<1>11. \A p \in m_usedsrc_datas' : p <= Limit
  <2>1. \A i \in 1..n : i \in 1..L
    BY <1>1
  <2>2. QED BY <1>2, <2>1 DEF SrcInv
<1>12. ASSUME data # 0
       PROVE  /\ \A p \in m_usedsrc_datas' : p < data
              /\ \A i \in 1..(L - n - 1) : m_newsrc_datas'[i] < data
  <2>1. n < L
    BY <1>3, <1>12 DEF SrcInv
  <2>2. (\A i \in 1..n : i \in 1..(L - 1)) /\ (\A i \in 1..(L - n - 1) : i + n \in 1..(L - 1) /\ i \in 1..(L - n))
    BY <1>1, <2>1
  <2>3. \A i \in 1..(L - 1) : m_newsrc_datas[i] < data
    BY <1>12 DEF SrcInv
  <2>4. \A p \in m_usedsrc_datas : p < data
    BY <1>12 DEF SrcInv
  <2>5. QED BY <1>2, <1>5, <2>2, <2>3, <2>4
<1>13. QED
  BY <1>2, <1>4, <1>5, <1>6, <1>8, <1>9, <1>10, <1>11, <1>12 DEF SrcInv

LEMMA SrcRelease == TypeInv /\ SrcInv /\ SendRelease /\ UNCHANGED clientVars => SrcInv'
<1> SUFFICES ASSUME TypeInv, SrcInv, SendRelease, UNCHANGED clientVars PROVE SrcInv'
  OBVIOUS
<1>1. UNCHANGED <<data, refused, m_newsrc_datas, finish_add_all_datas, sendpic, send_count>>
  BY DEF SendRelease, sendFrame, handlerVars, finishVars, clientVars
<1>2. UNCHANGED Limit
  BY <1>1 DEF Limit
<1>3. CASE UNCHANGED <<m_usedsrc_datas, current_cache_fn>>
  BY <1>1, <1>3, SrcFrame DEF srcInvVars
<1>4. CASE \E p \in Unreferenced : /\ m_usedsrc_datas' = m_usedsrc_datas \ {p}
                                   /\ current_cache_fn' = current_cache_fn - 1
  <2>1. PICK p \in m_usedsrc_datas : /\ m_usedsrc_datas' = m_usedsrc_datas \ {p}
                                     /\ current_cache_fn' = current_cache_fn - 1
    BY <1>4 DEF Unreferenced
  <2>2. Cardinality(m_usedsrc_datas') = Cardinality(m_usedsrc_datas) - 1
    BY <2>1, SrcNat, FS_RemoveElement
  <2>3. current_cache_fn' = Len(m_newsrc_datas') + Cardinality(m_usedsrc_datas')
    BY <1>1, <2>1, <2>2, SrcNat DEF SrcInv
  <2>4. m_usedsrc_datas' \subseteq m_usedsrc_datas
    BY <2>1
  <2>5. QED BY <1>1, <1>2, <2>3, <2>4 DEF SrcInv
<1>5. QED BY <1>3, <1>4 DEF SendRelease

LEMMA SrcStep == TypeInv /\ SrcInv /\ [Next]_vars => SrcInv'
<1> SUFFICES ASSUME TypeInv, SrcInv, [Next]_vars PROVE SrcInv'
  OBVIOUS
<1>0. Limit \in 0..Len(Times) /\ Len(Times) \in Nat /\ send_count \in 0..Len(Times)
  BY LimitType DEF TypeInv, ToolType
<1>1. CASE SkipPic
  <2>1. UNCHANGED <<m_newsrc_datas, m_usedsrc_datas, current_cache_fn, data, finish_add_all_datas>>
    BY <1>1 DEF SkipPic, agentVars, handlerVars, srcVars, finishVars
  <2>2. Limit = send_count /\ Limit' = send_count + 1 /\ sendpic' = sendpic
    BY <1>1 DEF SkipPic, Limit
  <2>3. QED BY <1>0, <2>1, <2>2, SrcMoves DEF SrcInv
<1>2. CASE OfferPic
  BY <1>2, SrcOffer
<1>3. CASE OfferEof
  <2>1. UNCHANGED <<m_newsrc_datas, m_usedsrc_datas, current_cache_fn>> /\ data' = 0
    BY <1>3 DEF OfferEof, AddEof, addFrame
  <2>2. Limit = Len(Times) /\ Limit' = Len(Times) /\ sendpic' = "eof"
    BY <1>3 DEF OfferEof, Limit
  <2>3. QED BY <1>0, <2>1, <2>2, SrcMoves
<1>4. CASE Answered
  <2>1. /\ UNCHANGED <<m_newsrc_datas, m_usedsrc_datas, current_cache_fn, finish_add_all_datas>>
        /\ data' = 0
    BY <1>4 DEF Answered, Reply, srcVars, finishVars
  <2>2. Limit' = Limit
    BY <1>4 DEF Answered, Limit
  <2>3. finish_add_all_datas => sendpic' \in {"eof", "done"}
    BY <1>4 DEF Answered, SrcInv
  <2>4. QED BY <1>0, <2>1, <2>2, <2>3, SrcMoves
<1>5. CASE SendAbort
  <2>1. UNCHANGED <<m_newsrc_datas, m_usedsrc_datas, current_cache_fn, data, finish_add_all_datas>>
    BY <1>5 DEF SendAbort, agentVars, handlerVars, srcVars, finishVars
  <2>2. Limit' = Len(Times) /\ sendpic' = "done"
    BY <1>5 DEF SendAbort, Limit
  <2>3. QED BY <1>0, <2>1, <2>2, SrcMoves DEF SrcInv
<1>6. CASE ProduceSecond /\ UNCHANGED clientVars
  BY <1>6, SrcProduce
<1>7. CASE SendRelease /\ UNCHANGED clientVars
  BY <1>7, SrcRelease
<1>8. CASE UNCHANGED srcInvVars
  BY <1>8, SrcFrame
<1> USE DEF srcInvVars, handlerVars, srcVars, finishVars
<1>9. CASE LinkDown \/ GetResult \/ GetNoResult \/ GetOver \/ RecvAbort
  BY <1>8, <1>9 DEF LinkDown, GetResult, GetNoResult, GetOver, RecvAbort, PopResult, agentVars,
     recvResultFrame
<1>10. CASE ReportResult \/ ReportEnd \/ Stop
  BY <1>8, <1>10 DEF ReportResult, ReportEnd, Stop, StopAgent, mainFrame, stopFrame, agentVars,
     clientVars
<1>11. CASE (ProduceNothing \/ SendTake \/ SendRegister \/ SendNotify \/ SendResult)
            /\ UNCHANGED clientVars
  BY <1>8, <1>11 DEF ProduceNothing, SendTake, SendRegister, SendNotify, SendResult,
     produceFrame, sendFrame, clientVars
<1>12. CASE (RecvWork \/ ProfilingWork) /\ UNCHANGED clientVars
  BY <1>8, <1>12 DEF RecvWork, RecvTake, RecvCount, ProfilingWork, ProfilingMatch,
     ProfilingOrder, ProfilingProduce, ProfilingCount, ProfilingSweep, recvFrame,
     profilingFrame, clientVars
<1>13. CASE Stopping /\ UNCHANGED clientVars
  BY <1>8, <1>13 DEF Stopping, SendExit, RecvExit, ProfilingExit, stopFrame, clientVars
<1>14. CASE UNCHANGED vars
  BY <1>8, <1>14 DEF vars, agentVars, clientVars
<1>15. QED
  BY <1>1, <1>2, <1>3, <1>4, <1>5, <1>6, <1>7, <1>9, <1>10, <1>11, <1>12, <1>13, <1>14
     DEF Next, SendPic, RecvResult, Report, AgentStep, AgentNext, Produce, SendWork

\* The members of the client and of the agent keep their types, whatever the
\* pictures, the rates and the breaks of the connection are: AddAgentData's
\* indices, the record's position and the count of the cache stay in range.
THEOREM TestTypes == Spec => []TestTypeOK
<1>1. Init => TypeInv /\ SrcInv
  BY InitTypes, InitSrc
<1>2. TypeInv /\ SrcInv /\ [Next]_vars => (TypeInv /\ SrcInv)'
  BY TypeStep, SrcStep
<1>3. TypeInv /\ SrcInv => TestTypeOK
  BY TypesMean
<1>4. QED BY <1>1, <1>2, <1>3, PTL DEF Spec

-----------------------------------------------------------------------------
(* The flow of results.                                                    *)

LEMMA InitFlow == Init => FlowInv
<1> SUFFICES ASSUME Init PROVE FlowInv
  OBVIOUS
<1>1. /\ send_list = <<>> /\ agent_result = <<>> /\ order_match_profiling_id = <<>>
      /\ max_send_fn = 0 /\ max_recv_fn = 0 /\ recv_list = 0 /\ current_agent_result_fn = 0
      /\ sendwork = "idle" /\ agent = "running"
      /\ profilingwork = IF mode.profiling THEN "poll" ELSE "ended"
      /\ finish_add_all_datas_2 = FALSE
  BY DEF Init, AgentInit
<1>2. Len(send_list) = 0 /\ Len(agent_result) = 0 /\ Len(order_match_profiling_id) = 0
  BY <1>1, EmptySeq
<1>3. Pending = 0
  BY <1>1, <1>2 DEF Pending, Registering, Producing, Sending
<1>4. Conserved
  BY <1>1, <1>2, <1>3 DEF Conserved
<1>5. main = "report"
  BY DEF Init
<1>6. QED BY <1>1, <1>4, <1>5 DEF FlowInv, WorkInv, EndInv, ClosedInv

flowVars == <<mode, send_list, max_send_fn, recv_list, max_recv_fn, agent_result,
              current_agent_result_fn, order_match_profiling_id>>

LEMMA FlowTypes ==
  ASSUME TypeInv
  PROVE  /\ Len(send_list) \in Nat /\ Len(agent_result) \in Nat
         /\ Len(order_match_profiling_id) \in Nat
         /\ max_send_fn \in Nat /\ max_recv_fn \in Nat /\ recv_list \in Nat
         /\ current_agent_result_fn \in Nat
         /\ Pending \in Nat /\ mode.profiling \in BOOLEAN
<1>1. /\ Len(send_list) \in Nat /\ Len(agent_result) \in Nat
      /\ Len(order_match_profiling_id) \in Nat
      /\ max_send_fn \in Nat /\ max_recv_fn \in Nat /\ recv_list \in Nat
      /\ current_agent_result_fn \in Nat
  BY LenProperties DEF TypeInv, QueueType, RecordType
<1>2. mode.profiling \in BOOLEAN
  BY ModeFacts DEF TypeInv, WorkType
<1>3. Pending \in Nat
  <2>1. Registering \in Nat /\ Producing \in Nat /\ Sending \in Nat
    BY DEF Registering, Producing, Sending
  <2>2. QED BY <1>1, <2>1 DEF Pending
<1>4. QED BY <1>1, <1>2, <1>3

LEMMA ConservedClient ==
  ASSUME TypeInv, Conserved, LinkDown \/ SendPic \/ RecvResult \/ Report
  PROVE  Conserved'
<1>1. CASE GetResult
  <2>1. /\ current_agent_result_fn' = current_agent_result_fn + 1
        /\ Len(agent_result') = Len(agent_result) - 1
    BY <1>1, HeadTailProperties DEF GetResult, PopResult, TypeInv, QueueType
  <2>2. UNCHANGED <<send_list, max_send_fn, recv_list, max_recv_fn, Pending>>
    BY <1>1 DEF GetResult, PopResult, sendVars, recvVars, matchVars, sendWorkVars, profilingVars,
      
       Pending, Registering, Producing, Sending
  <2>3. QED BY <2>1, <2>2, FlowTypes DEF Conserved
<1>2. CASE ~GetResult
  <2>1. UNCHANGED <<queueVars, recordVars>>
    BY <1>2, ActionFrames DEF SendPic, RecvResult, Report
  <2>2. UNCHANGED mode /\ UNCHANGED sendwork
    BY <1>2, ActionFrames DEF SendPic, RecvResult, Report, Stop, StopAgent, stopFrame, workVars
  <2>3. UNCHANGED Pending
    BY <2>1, <2>2 DEF recordVars,
       Pending, Registering, Producing, Sending
  <2>4. QED BY <2>1, <2>3 DEF queueVars, Conserved
<1>3. QED BY <1>1, <1>2

LEMMA ConservedSend ==
  ASSUME TypeInv, FlowInv, Conserved, Produce \/ SendWork, UNCHANGED clientVars
  PROVE  Conserved'
<1> USE FlowTypes
<1>1. CASE ProduceSecond
  <2> DEFINE sends == Simulated(FirstSecond)
             q == IF mode.recv = 0 THEN FirstSecond ELSE mode.recv
  <2>1. /\ send_list' = send_list \o sends /\ max_send_fn' = max_send_fn + Len(sends)
        /\ recv_list' = recv_list + q /\ max_recv_fn' = max_recv_fn + q
    BY <1>1 DEF ProduceSecond
  <2>2. sends \in Seq(SendData) /\ FirstSecond \in 1..Len(m_newsrc_datas)
    BY <1>1, SimulatedFacts DEF ProduceSecond
  <2>3. q \in Nat
    BY <2>2, ModeFacts, SrcNat DEF TypeInv, WorkType
  <2> HIDE DEF sends, q
  <2>4. Len(send_list') = Len(send_list) + Len(sends) /\ Len(sends) \in Nat
    BY <2>1, <2>2, ConcatProperties, LenProperties DEF TypeInv, QueueType
  <2>5. UNCHANGED <<agent_result, current_agent_result_fn, mode, sendwork, profilingwork,
                    order_match_profiling_id>>
    BY <1>1 DEF ProduceSecond, produceFrame, resultVars, matchVars, sendWorkVars, profilingVars
  <2>6. UNCHANGED Pending
    BY <2>5 DEF Pending, Registering, Producing, Sending
  <2> DEFINE l == Len(sends)
  <2>7. /\ Len(send_list') = Len(send_list) + l /\ max_send_fn' = max_send_fn + l /\ l \in Nat
        /\ recv_list' = recv_list + q /\ max_recv_fn' = max_recv_fn + q /\ q \in Nat
        /\ agent_result' = agent_result /\ current_agent_result_fn' = current_agent_result_fn
    BY <2>1, <2>3, <2>4, <2>5
  <2> HIDE DEF l
  <2>8. current_agent_result_fn + Len(agent_result) + (Len(send_list) + l) + Pending + (recv_list + q)
           = (max_send_fn + l) + (max_recv_fn + q)
    <3>1. l \in Nat /\ q \in Nat
      BY <2>7
    <3>2. /\ Len(send_list) \in Nat /\ Len(agent_result) \in Nat
          /\ max_send_fn \in Nat /\ max_recv_fn \in Nat /\ recv_list \in Nat
          /\ current_agent_result_fn \in Nat /\ Pending \in Nat
      OBVIOUS
    <3>3. current_agent_result_fn + Len(agent_result) + Len(send_list) + Pending + recv_list
             = max_send_fn + max_recv_fn
      BY DEF Conserved
    <3>4. QED BY ONLY <3>1, <3>2, <3>3
  <2>9. QED BY <2>6, <2>7, <2>8, Zenon DEF Conserved
<1>2. CASE ProduceNothing
  <2>1. UNCHANGED <<flowVars, sendwork, profilingwork>>
    BY <1>2 DEF ProduceNothing, produceFrame, flowVars, resultVars, matchVars, sendWorkVars,
       profilingVars
  <2>2. QED BY <2>1 DEF flowVars, Conserved,
       Pending, Registering, Producing, Sending
<1>3. CASE SendTake
  <2>1. Len(send_list') = Len(send_list) - 1 /\ Len(send_list) > 0
    BY <1>3, HeadTailProperties, EmptySeq DEF SendTake, TypeInv, QueueType
  <2>2. Pending' = Pending + 1
    <3>1. /\ UNCHANGED <<mode, order_match_profiling_id, profilingwork>> /\ sendwork = "idle"
          /\ sendwork' = IF mode.profiling THEN "register" ELSE "notify"
      BY <1>3 DEF SendTake, sendFrame, matchVars, profilingVars
    <3>2. /\ Registering = 0 /\ Sending = 0 /\ Producing' = Producing /\ Producing \in Nat
          /\ mode.profiling => Registering' = 1
          /\ ~mode.profiling => Sending' = 1
      BY <3>1 DEF Registering, Sending, Producing
    <3>3. QED BY <3>1, <3>2 DEF Pending
  <2>3. UNCHANGED <<agent_result, current_agent_result_fn, max_send_fn, recv_list, max_recv_fn>>
    BY <1>3 DEF SendTake, sendFrame, recvVars
  <2>4. QED BY <2>1, <2>2, <2>3 DEF Conserved
<1>4. CASE SendRegister
  <2>1. mode.profiling
    BY <1>4 DEF SendRegister, FlowInv, WorkInv
  <2>2. Len(order_match_profiling_id') = Len(order_match_profiling_id) + 1
    BY <1>4, AppendProperties DEF SendRegister, TypeInv, RecordType, WorkType, Busy
  <2>3. Pending' = Pending
    BY <1>4, <2>1, <2>2 DEF SendRegister, sendFrame, profilingVars,
       Pending, Registering, Producing, Sending
  <2>4. UNCHANGED <<send_list, agent_result, current_agent_result_fn, max_send_fn, recv_list,
                    max_recv_fn>>
    BY <1>4 DEF SendRegister, sendFrame, recvVars
  <2>5. QED BY <2>3, <2>4 DEF Conserved
<1>5. CASE SendNotify
  <2>1. Pending' = Pending
    BY <1>5 DEF SendNotify, sendFrame, matchVars, profilingVars,
       Pending, Registering, Producing, Sending
  <2>2. UNCHANGED <<send_list, agent_result, current_agent_result_fn, max_send_fn, recv_list,
                    max_recv_fn>>
    BY <1>5 DEF SendNotify, sendFrame, recvVars
  <2>3. QED BY <2>1, <2>2 DEF Conserved
<1>6. CASE SendRelease
  <2>1. Pending' = Pending
    BY <1>6 DEF SendRelease, sendFrame, matchVars, profilingVars,
       Pending, Registering, Producing, Sending
  <2>2. UNCHANGED <<send_list, agent_result, current_agent_result_fn, max_send_fn, recv_list,
                    max_recv_fn>>
    BY <1>6 DEF SendRelease, sendFrame, recvVars
  <2>3. QED BY <2>1, <2>2 DEF Conserved
<1>7. CASE SendResult
  <2>1. ~mode.profiling
    BY <1>7 DEF SendResult, FlowInv, WorkInv
  <2>2. Len(agent_result') = Len(agent_result) + 1
    BY <1>7, ResultType, AppendProperties DEF SendResult, TypeInv, WorkType, QueueType
  <2>3. Pending' = Pending - 1
    BY <1>7, <2>1 DEF SendResult, sendFrame, matchVars, profilingVars,
       Pending, Registering, Producing, Sending
  <2>4. UNCHANGED <<send_list, current_agent_result_fn, max_send_fn, recv_list, max_recv_fn>>
    BY <1>7 DEF SendResult, sendFrame, recvVars
  <2>5. QED BY <2>2, <2>3, <2>4 DEF Conserved
<1>8. QED BY <1>1, <1>2, <1>3, <1>4, <1>5, <1>6, <1>7 DEF Produce, SendWork

LEMMA ConservedRecv ==
  ASSUME TypeInv, FlowInv, Conserved, RecvWork \/ ProfilingWork, UNCHANGED clientVars
  PROVE  Conserved'
<1> USE FlowTypes
<1>1. CASE RecvTake
  <2>1. Len(agent_result') = Len(agent_result) + 1
    BY <1>1, ResultType, AppendProperties DEF RecvTake, TypeInv, QueueType
  <2>2. UNCHANGED <<send_list, max_send_fn, max_recv_fn, current_agent_result_fn, Pending>>
    BY <1>1 DEF RecvTake, recvFrame, sendVars, matchVars, sendWorkVars, profilingVars,
       Pending, Registering, Producing, Sending
  <2>3. recv_list' = recv_list - 1
    BY <1>1 DEF RecvTake
  <2>4. QED BY <2>1, <2>2, <2>3 DEF Conserved
<1>2. CASE RecvCount
  <2>1. UNCHANGED <<flowVars, sendwork, profilingwork>>
    BY <1>2 DEF RecvCount, recvFrame, flowVars, sendVars, matchVars, sendWorkVars, profilingVars
  <2>2. QED BY <2>1 DEF flowVars, Conserved,
       Pending, Registering, Producing, Sending
<1>3. CASE ProfilingMatch
  <2>1. UNCHANGED <<flowVars, sendwork>>
    BY <1>3 DEF ProfilingMatch, profilingFrame, flowVars, sendVars, recvVars, sendWorkVars
  <2>2. profilingwork # "result" /\ profilingwork' # "result"
    BY <1>3 DEF ProfilingMatch
  <2>3. QED BY <2>1, <2>2 DEF flowVars, Conserved,
       Pending, Registering, Producing, Sending
<1>4. CASE ProfilingOrder
  <2> DEFINE k == Position
             L == Len(order_match_profiling_id)
  <2>1. k \in 0..L
    BY PositionFacts
  <2>2. /\ SubSeq(order_match_profiling_id, 1, k - 1) \in Seq(SendData)
        /\ Len(SubSeq(order_match_profiling_id, 1, k - 1)) = IF k = 0 THEN 0 ELSE k - 1
        /\ Len(SubSeq(order_match_profiling_id, k + 1, L)) = L - k
    BY <2>1, SplitFacts DEF TypeInv, RecordType
  <2>3. /\ GiveUp(SubSeq(order_match_profiling_id, 1, k - 1))
        /\ order_match_profiling_id' = SubSeq(order_match_profiling_id, k + 1, L)
        /\ profilingwork = "order"
        /\ profilingwork' = IF k = 0 THEN "crashed" ELSE "result"
        /\ UNCHANGED <<mode, sendwork, send_list, max_send_fn, recv_list, max_recv_fn,
                       current_agent_result_fn>>
    BY <1>4 DEF ProfilingOrder, profilingFrame, sendVars, recvVars, sendWorkVars
  <2> HIDE DEF k
  <2>4. Len(agent_result') = Len(agent_result) + (IF k = 0 THEN 0 ELSE k - 1)
    BY <2>2, <2>3, GiveUpFacts
  <2>5. mode.profiling
    BY <2>3 DEF FlowInv, WorkInv
  <2>6. Pending' = Pending - (IF k = 0 THEN 0 ELSE k - 1)
    <3>1. /\ Producing = 0 /\ Producing' = IF k = 0 THEN 0 ELSE 1
          /\ Registering' = Registering /\ Registering \in Nat
      BY <2>3 DEF Producing, Registering
    <3>2. Pending = Registering + L + 0 /\ Pending' = Registering + (L - k) + Producing'
      BY <2>2, <2>3, <2>5, <3>1 DEF Pending
    <3>3. CASE k = 0
      BY <3>1, <3>2, <3>3
    <3>4. CASE k # 0
      BY <2>1, <3>1, <3>2, <3>4
    <3>5. QED BY <3>3, <3>4
  <2>7. CASE k = 0
    BY <2>3, <2>4, <2>6, <2>7 DEF Conserved
  <2>8. CASE k # 0
    <3>1. k \in Nat /\ Len(agent_result') = Len(agent_result) + (k - 1)
          /\ Pending' = Pending - (k - 1)
      BY <2>1, <2>4, <2>6, <2>8
    <3>2. Len(agent_result) \in Nat /\ Pending \in Nat
      BY FlowTypes
    <3>3. Len(agent_result') + Pending' = Len(agent_result) + Pending
      BY <3>1, <3>2
    <3>4. Len(agent_result') \in Int /\ Pending' \in Int
      BY <3>1, <3>2
    <3>5. /\ current_agent_result_fn \in Nat /\ Len(send_list) \in Nat /\ recv_list \in Nat
      BY FlowTypes
    <3>6. current_agent_result_fn + Len(agent_result) + Len(send_list) + Pending + recv_list
             = max_send_fn + max_recv_fn
      BY DEF Conserved
    <3>7. current_agent_result_fn + Len(agent_result') + Len(send_list) + Pending' + recv_list
             = max_send_fn + max_recv_fn
      BY ONLY <3>2, <3>3, <3>4, <3>5, <3>6
    <3>8. UNCHANGED <<send_list, max_send_fn, recv_list, max_recv_fn, current_agent_result_fn>>
      BY <2>3
    <3>9. QED BY <3>7, <3>8 DEF Conserved
  <2>9. QED BY <2>7, <2>8
<1>5. CASE ProfilingProduce
  <2>1. mode.profiling
    BY <1>5 DEF ProfilingProduce, FlowInv, WorkInv
  <2>2. Len(agent_result') = Len(agent_result) + 1
    BY <1>5, ResultType, AppendProperties DEF ProfilingProduce, TypeInv, RecordType, QueueType
  <2>3. Pending' = Pending - 1
    BY <1>5, <2>1 DEF ProfilingProduce, profilingFrame, matchVars, sendWorkVars,
       Pending, Registering, Producing, Sending
  <2>4. UNCHANGED <<send_list, current_agent_result_fn, max_send_fn, recv_list, max_recv_fn>>
    BY <1>5 DEF ProfilingProduce, profilingFrame, sendVars, recvVars
  <2>5. QED BY <2>2, <2>3, <2>4 DEF Conserved
<1>6. CASE ProfilingCount
  <2>1. UNCHANGED <<flowVars, sendwork>>
    BY <1>6 DEF ProfilingCount, profilingFrame, flowVars, sendVars, recvVars, sendWorkVars
  <2>2. profilingwork # "result" /\ profilingwork' # "result"
    BY <1>6 DEF ProfilingCount
  <2>3. QED BY <2>1, <2>2 DEF flowVars, Conserved,
       Pending, Registering, Producing, Sending
<1>7. CASE ProfilingSweep
  <2> DEFINE n == Len(order_match_profiling_id)
             lost == [i \in 1..(n - n \div 2) |-> order_match_profiling_id[2 * i - 1]]
             kept == [i \in 1..(n \div 2) |-> order_match_profiling_id[2 * i]]
  <2>1. /\ lost \in Seq(SendData) /\ Len(lost) = n - n \div 2
        /\ Len(kept) = n \div 2 /\ n \div 2 \in Nat
    BY SweepFacts DEF TypeInv, RecordType
  <2>2. /\ GiveUp(lost) /\ order_match_profiling_id' = kept
        /\ profilingwork = "poll" /\ profilingwork' \in {"stuck", "poll"}
        /\ UNCHANGED <<mode, sendwork, send_list, max_send_fn, recv_list, max_recv_fn,
                       current_agent_result_fn>>
    BY <1>7 DEF ProfilingSweep, profilingFrame, sendVars, recvVars, sendWorkVars
  <2> HIDE DEF lost, kept
  <2>3. Len(agent_result') = Len(agent_result) + (n - n \div 2)
    BY <2>1, <2>2, GiveUpFacts
  <2>4. mode.profiling
    BY <2>2 DEF FlowInv, WorkInv
  <2>5. Pending' = Pending - (n - n \div 2)
    <3>1. /\ Producing = 0 /\ Producing' = 0
          /\ Registering' = Registering /\ Registering \in Nat
      BY <2>2 DEF Producing, Registering
    <3>2. Pending = Registering + n + 0 /\ Pending' = Registering + n \div 2 + 0
      BY <2>1, <2>2, <2>4, <3>1 DEF Pending
    <3>3. QED BY <2>1, <3>1, <3>2
  <2> DEFINE h == n \div 2
  <2>6. h \in Nat /\ Len(agent_result') = Len(agent_result) + (n - h) /\ Pending' = Pending - (n - h)
    BY <2>1, <2>3, <2>5
  <2> HIDE DEF h
  <2>7. QED BY <2>2, <2>6 DEF Conserved
<1>8. QED BY <1>1, <1>2, <1>3, <1>4, <1>5, <1>6, <1>7 DEF RecvWork, ProfilingWork

LEMMA ConservedStep ==
  ASSUME TypeInv, FlowInv, [Next]_vars, agent' # "stopped"
  PROVE  Conserved'
<1>1. CASE UNCHANGED vars
  <2>1. UNCHANGED <<flowVars, sendwork, profilingwork, agent>>
    BY <1>1 DEF vars, agentVars, flowVars, sendVars, recvVars, resultVars, matchVars, sendWorkVars,
       profilingVars
  <2>2. QED BY <2>1 DEF flowVars, FlowInv, Conserved, Pending, Registering, Producing, Sending
<1>2. CASE LinkDown \/ SendPic \/ RecvResult \/ Report
  <2>1. agent # "stopped"
    BY <1>2, ActionFrames DEF SendPic, RecvResult, Report, workVars, Stop, StopAgent
  <2>2. QED BY <1>2, <2>1, ConservedClient DEF FlowInv
<1>3. CASE (Produce \/ SendWork) /\ UNCHANGED clientVars
  <2>1. agent # "stopped"
    BY <1>3 DEF Produce, ProduceSecond, ProduceNothing, produceFrame, SendWork, SendTake,
       SendRegister, SendNotify, SendRelease, SendResult, sendFrame
  <2>2. QED BY <1>3, <2>1, ConservedSend DEF FlowInv
<1>4. CASE (RecvWork \/ ProfilingWork) /\ UNCHANGED clientVars
  <2>1. agent # "stopped"
    BY <1>4 DEF RecvWork, RecvTake, RecvCount, recvFrame, ProfilingWork, ProfilingMatch,
       ProfilingOrder, ProfilingProduce, ProfilingCount, ProfilingSweep
  <2>2. QED BY <1>4, <2>1, ConservedRecv DEF FlowInv
<1>5. CASE Stopping /\ UNCHANGED clientVars
  <2>1. SendExit \/ RecvExit
    BY <1>5 DEF Stopping, ProfilingExit
  <2>2. UNCHANGED <<flowVars, profilingwork>> /\ agent # "stopped"
    BY <2>1 DEF SendExit, RecvExit, stopFrame, flowVars, sendVars, recvVars
  <2>3. UNCHANGED sendwork \/ (sendwork = "idle" /\ sendwork' = "ended")
    BY <2>1 DEF SendExit, RecvExit
  <2>4. UNCHANGED Pending
    BY <2>2, <2>3 DEF flowVars, Pending, Registering, Producing, Sending
  <2>5. QED BY <2>2, <2>4 DEF flowVars, FlowInv, Conserved
<1>6. QED
  BY <1>1, <1>2, <1>3, <1>4, <1>5 DEF Next, AgentStep, AgentNext

LEMMA WorkStep == TypeInv /\ WorkInv /\ [Next]_vars => WorkInv'
<1> SUFFICES ASSUME TypeInv, WorkInv, [Next]_vars PROVE WorkInv'
  OBVIOUS
<1>0. CASE UNCHANGED <<mode, profilingwork, sendwork>>
  BY <1>0 DEF WorkInv
<1>1. CASE UNCHANGED vars
  BY <1>0, <1>1 DEF vars, agentVars, sendWorkVars, profilingVars
<1>2. CASE LinkDown \/ SendPic \/ RecvResult \/ Report
  <2>1. UNCHANGED recordVars
    BY <1>2, ActionFrames DEF SendPic, RecvResult, Report
  <2>2. UNCHANGED mode /\ UNCHANGED sendwork
    BY <1>2, ActionFrames DEF SendPic, RecvResult, Report, Stop, StopAgent, stopFrame, workVars
  <2>3. QED BY <1>0, <2>1, <2>2 DEF recordVars
<1>3. CASE Produce \/ RecvWork
  BY <1>0, <1>3 DEF Produce, ProduceSecond, ProduceNothing, produceFrame, RecvWork, RecvTake,
     RecvCount, recvFrame, sendWorkVars, profilingVars
<1>4. CASE SendWork
  BY <1>4 DEF SendWork, SendTake, SendRegister, SendNotify, SendRelease, SendResult, sendFrame,
     profilingVars, WorkInv
<1>5. CASE ProfilingWork
  BY <1>5 DEF ProfilingWork, ProfilingMatch, ProfilingOrder, ProfilingProduce, ProfilingCount,
     ProfilingSweep, profilingFrame, sendWorkVars, WorkInv
<1>6. CASE Stopping
  BY <1>6 DEF Stopping, SendExit, RecvExit, ProfilingExit, stopFrame, WorkInv
<1>7. QED
  BY <1>1, <1>2, <1>3, <1>4, <1>5, <1>6 DEF Next, AgentStep, AgentNext

LEMMA EndStep == EndInv /\ [Next]_vars => EndInv'
<1> SUFFICES ASSUME EndInv, [Next]_vars PROVE EndInv'
  OBVIOUS
<1>0. CASE UNCHANGED <<agent, main, recvresult>>
  BY <1>0 DEF EndInv
<1>1. CASE UNCHANGED vars
  BY <1>0, <1>1 DEF vars, agentVars, clientVars
<1>2. CASE LinkDown \/ SkipPic \/ OfferPic \/ OfferEof \/ Answered \/ SendAbort
  BY <1>0, <1>2 DEF LinkDown, SkipPic, OfferPic, AddPicture, OfferEof, AddEof, addFrame, Answered,
     Reply, SendAbort, sendPicFrame, agentVars
<1>3. CASE GetResult \/ GetNoResult \/ GetOver \/ RecvAbort
  BY <1>3 DEF GetResult, PopResult, GetNoResult, GetOver, RecvAbort, recvResultFrame, agentVars,
     EndInv
<1>4. CASE ReportResult \/ ReportEnd \/ Stop
  BY <1>4 DEF ReportResult, ReportEnd, Stop, mainFrame, agentVars, clientVars, EndInv
<1>5. CASE AgentStep
  <2>1. UNCHANGED <<main, recvresult>>
    BY <1>5 DEF AgentStep, clientVars
  <2>2. CASE Stopping
    BY <2>1, <2>2 DEF Stopping, SendExit, RecvExit, ProfilingExit, EndInv
  <2>3. CASE Produce \/ SendWork
    BY <1>0, <2>1, <2>3 DEF Produce, ProduceSecond, ProduceNothing, produceFrame, SendWork,
       SendTake, SendRegister, SendNotify, SendRelease, SendResult, sendFrame
  <2>4. CASE RecvWork \/ ProfilingWork
    BY <1>0, <2>1, <2>4 DEF RecvWork, RecvTake, RecvCount, recvFrame, ProfilingWork,
       ProfilingMatch, ProfilingOrder, ProfilingProduce, ProfilingCount, ProfilingSweep
  <2>5. QED BY <1>5, <2>2, <2>3, <2>4 DEF AgentStep, AgentNext
<1>6. QED
  BY <1>1, <1>2, <1>3, <1>4, <1>5 DEF Next, SendPic, RecvResult, Report

LEMMA ClosedStep == TypeInv /\ SrcInv /\ ClosedInv /\ [Next]_vars => ClosedInv'
<1> SUFFICES ASSUME TypeInv, SrcInv, ClosedInv, [Next]_vars PROVE ClosedInv'
  OBVIOUS
<1>0. CASE UNCHANGED <<finish_add_all_datas_2, finish_add_all_datas, handler>>
  BY <1>0 DEF ClosedInv
<1>1. CASE UNCHANGED vars
  BY <1>0, <1>1 DEF vars, agentVars, finishVars, handlerVars
<1>2. CASE OfferPic \/ OfferEof
  <2>1. ~finish_add_all_datas
    BY <1>2 DEF OfferPic, OfferEof, SrcInv
  <2>2. UNCHANGED finish_add_all_datas_2
    BY <1>2 DEF OfferPic, AddPicture, OfferEof, AddEof, addFrame
  <2>3. QED BY <2>1, <2>2 DEF ClosedInv
<1>3. CASE LinkDown \/ SkipPic \/ SendAbort \/ GetResult \/ GetNoResult \/ GetOver \/ RecvAbort
  BY <1>0, <1>3 DEF LinkDown, SkipPic, SendAbort, GetResult, PopResult, GetNoResult, GetOver,
     RecvAbort, agentVars, finishVars, handlerVars
<1>4. CASE Answered
  BY <1>4 DEF Answered, Reply, finishVars, ClosedInv
<1>5. CASE ReportResult \/ ReportEnd \/ Stop
  BY <1>0, <1>5 DEF ReportResult, ReportEnd, Stop, StopAgent, stopFrame, agentVars, finishVars,
     handlerVars
<1>6. CASE Produce
  <2>1. CASE ProduceSecond
    BY <1>0, <2>1 DEF ProduceSecond, produceFrame
  <2>2. CASE ProduceNothing
    <3>1. /\ handler' # "produce" /\ finish_add_all_datas' = finish_add_all_datas
          /\ finish_add_all_datas_2' = finish_add_all_datas
      BY <2>2 DEF ProduceNothing, produceFrame
    <3>2. QED BY <3>1, Zenon DEF ClosedInv
  <2>3. QED BY <1>6, <2>1, <2>2 DEF Produce
<1>7. CASE SendWork
  BY <1>0, <1>7 DEF SendWork, SendTake, SendRegister, SendNotify, SendRelease, SendResult,
     sendFrame, finishVars, handlerVars
<1>8. CASE RecvWork \/ ProfilingWork
  BY <1>0, <1>8 DEF RecvWork, RecvTake, RecvCount, recvFrame, ProfilingWork, ProfilingMatch,
     ProfilingOrder, ProfilingProduce, ProfilingCount, ProfilingSweep, profilingFrame,
     finishVars, handlerVars
<1>9. CASE Stopping
  BY <1>0, <1>9 DEF Stopping, SendExit, RecvExit, ProfilingExit, stopFrame, finishVars,
     handlerVars
<1>10. QED
  BY <1>1, <1>2, <1>3, <1>4, <1>5, <1>6, <1>7, <1>8, <1>9
     DEF Next, SendPic, RecvResult, Report, AgentStep, AgentNext

LEMMA FlowStep == TypeInv /\ SrcInv /\ FlowInv /\ [Next]_vars => FlowInv'
  BY ConservedStep, WorkStep, EndStep, ClosedStep DEF FlowInv

\* What the polls of the client see.
LEMMA PromiseStep ==
  ASSUME TypeInv, SrcInv, FlowInv, Next
  PROVE  [Promise!ExchangeNext]_(Promise!exchangeVars)
<1> DEFINE owed == max_send_fn + max_recv_fn
           over == recvresult = "over"
<1> USE DEF Promise!ExchangeNext, Promise!exchangeVars
<1>0. CASE UNCHANGED <<max_send_fn, max_recv_fn, current_agent_result_fn,
                       finish_add_all_datas_2, over>>
  BY <1>0
<1>1. CASE GetResult
  <2>1. /\ recvresult = "poll" /\ agent_result # <<>>
        /\ current_agent_result_fn' = current_agent_result_fn + 1
        /\ UNCHANGED <<max_send_fn, max_recv_fn, finish_add_all_datas_2, recvresult>>
    BY <1>1 DEF GetResult, PopResult, sendVars, recvVars, finishVars
  <2>2. agent = "running" /\ Conserved
    BY <2>1 DEF FlowInv, EndInv
  <2>3. Len(agent_result) > 0
    BY <2>1, FlowTypes, EmptySeq DEF TypeInv, QueueType
  <2>4. current_agent_result_fn < owed
    BY <2>2, <2>3, FlowTypes DEF Conserved
  <2>5. QED BY <2>1, <2>4 DEF Promise!Give
<1>2. CASE GetOver
  <2>1. UNCHANGED <<max_send_fn, max_recv_fn, current_agent_result_fn, finish_add_all_datas_2>>
    BY <1>2 DEF GetOver, agentVars, sendVars, recvVars, resultVars, finishVars
  <2>2. CASE TestOver
    <3>1. /\ finish_add_all_datas_2 /\ owed = current_agent_result_fn
          /\ recvresult' = "over"
      BY <1>2, <2>2 DEF GetOver, TestOver
    <3>2. QED BY <2>1, <3>1 DEF Promise!Finish
  <2>3. CASE ~TestOver
    <3>1. recvresult = "check" /\ recvresult' = "poll"
      BY <1>2, <2>3 DEF GetOver
    <3>2. QED BY <1>0, <2>1, <3>1
  <2>4. QED BY <2>2, <2>3
<1>3. CASE ProduceSecond /\ UNCHANGED clientVars
  <2> DEFINE l == Len(Simulated(FirstSecond))
             q == IF mode.recv = 0 THEN FirstSecond ELSE mode.recv
  <2>1. /\ max_send_fn' = max_send_fn + l /\ max_recv_fn' = max_recv_fn + q
        /\ handler = "produce"
        /\ UNCHANGED <<current_agent_result_fn, finish_add_all_datas_2, recvresult>>
    BY <1>3 DEF ProduceSecond, produceFrame, resultVars, clientVars
  <2>2. l \in Nat /\ FirstSecond \in 1..Len(m_newsrc_datas)
    BY <1>3, SimulatedFacts, LenProperties DEF ProduceSecond
  <2>3. q \in Nat
    BY <2>2, ModeFacts, SrcNat DEF TypeInv, WorkType
  <2> HIDE DEF l, q
  <2>4. owed' \in Nat /\ owed' >= owed
    <3>1. max_send_fn' = max_send_fn + l /\ max_recv_fn' = max_recv_fn + q
      BY <2>1
    <3>2. max_send_fn \in Nat /\ max_recv_fn \in Nat
      BY FlowTypes
    <3>3. l \in Nat /\ q \in Nat
      BY <2>2, <2>3
    <3>4. QED BY ONLY <3>1, <3>2, <3>3
  <2>5. ~finish_add_all_datas_2
    BY <2>1 DEF FlowInv, ClosedInv
  <2>6. QED BY <2>1, <2>4, <2>5 DEF Promise!Queue
<1>4. CASE ProduceNothing /\ UNCHANGED clientVars
  <2>1. /\ finish_add_all_datas_2' = finish_add_all_datas /\ handler = "produce"
        /\ UNCHANGED <<max_send_fn, max_recv_fn, current_agent_result_fn, recvresult>>
    BY <1>4 DEF ProduceNothing, produceFrame, resultVars, clientVars
  <2>2. ~finish_add_all_datas_2 /\ finish_add_all_datas \in BOOLEAN
        /\ finish_add_all_datas_2 \in BOOLEAN
    BY <2>1 DEF FlowInv, ClosedInv, TypeInv, BoolType
  <2>3. CASE finish_add_all_datas = TRUE
    BY <2>1, <2>3 DEF Promise!Close
  <2>4. CASE finish_add_all_datas = FALSE
    <3>1. finish_add_all_datas_2' = finish_add_all_datas_2
      BY <2>1, <2>2, <2>4
    <3>2. QED BY <1>0, <2>1, <3>1
  <2>5. QED BY <2>2, <2>3, <2>4
<1>5. CASE LinkDown \/ SkipPic \/ OfferPic \/ OfferEof \/ Answered \/ SendAbort
  BY <1>0, <1>5 DEF LinkDown, SkipPic, OfferPic, AddPicture, OfferEof, AddEof, addFrame, Answered,
     Reply, SendAbort, sendPicFrame, agentVars, sendVars, recvVars, resultVars, finishVars
<1>6. CASE GetNoResult \/ RecvAbort
  <2>1. UNCHANGED <<max_send_fn, max_recv_fn, current_agent_result_fn, finish_add_all_datas_2>>
    BY <1>6 DEF GetNoResult, RecvAbort, agentVars, sendVars, recvVars, resultVars, finishVars
  <2>2. ~over /\ ~over'
    BY <1>6 DEF GetNoResult, RecvAbort
  <2>3. QED BY <1>0, <2>1, <2>2
<1>7. CASE ReportResult \/ ReportEnd \/ Stop
  BY <1>0, <1>7 DEF ReportResult, ReportEnd, Stop, StopAgent, stopFrame, mainFrame, clientVars,
     agentVars, sendVars, recvVars, resultVars, finishVars
<1>8. CASE (SendWork \/ RecvWork \/ ProfilingWork \/ Stopping) /\ UNCHANGED clientVars
  <2>1. UNCHANGED recvresult
    BY <1>8 DEF clientVars
  <2>2. CASE SendWork
    BY <1>0, <2>1, <2>2 DEF SendWork, SendTake, SendRegister, SendNotify, SendRelease,
       SendResult, sendFrame, recvVars, finishVars
  <2>3. CASE RecvWork
    BY <1>0, <2>1, <2>3 DEF RecvWork, RecvTake, RecvCount, recvFrame, sendVars, finishVars
  <2>4. CASE ProfilingWork
    BY <1>0, <2>1, <2>4 DEF ProfilingWork, ProfilingMatch, ProfilingOrder, ProfilingProduce,
       ProfilingCount, ProfilingSweep, profilingFrame, sendVars, recvVars, finishVars
  <2>5. CASE Stopping
    BY <1>0, <2>1, <2>5 DEF Stopping, SendExit, RecvExit, ProfilingExit, stopFrame, sendVars,
       recvVars, finishVars
  <2>6. QED BY <1>8, <2>2, <2>3, <2>4, <2>5
<1>9. QED
  BY <1>1, <1>2, <1>3, <1>4, <1>5, <1>6, <1>7, <1>8
     DEF Next, SendPic, RecvResult, Report, AgentStep, AgentNext, Produce

\* The test implements its promise: a result is handed over for everything
\* that was queued and for nothing else, and GetAgentResult says that the test
\* is over only when all is queued and all is handed over, though it compares
\* counters that three threads increment without a lock.
THEOREM KeepsPromise == Spec => PromiseKept
<1> DEFINE Inv == TypeInv /\ SrcInv /\ FlowInv
<1>1. Init => Inv
  BY InitTypes, InitSrc, InitFlow
<1>2. Inv /\ [Next]_vars => Inv'
  BY TypeStep, SrcStep, FlowStep
<1>3. Init => Promise!ExchangeInit
  BY DEF Init, AgentInit, Promise!ExchangeInit
<1>4. Inv /\ [Next]_vars => [Promise!ExchangeNext]_(Promise!exchangeVars)
  <2>1. CASE Next
    BY <2>1, PromiseStep
  <2>2. CASE UNCHANGED vars
    BY <2>2 DEF vars, agentVars, clientVars, sendVars, recvVars, resultVars, finishVars,
       Promise!exchangeVars
  <2>3. QED BY <2>1, <2>2
<1> HIDE DEF Inv
<1>5. QED BY <1>1, <1>2, <1>3, <1>4, PTL DEF Spec, PromiseKept, Promise!ExchangeSpec

-----------------------------------------------------------------------------
(* The cache is given back.                                                *)

KeepInv == KeepsUp => Cardinality(m_usedsrc_datas) <= Len(send_list) + Releasing

\* A rate that keeps up sends as many frames for a second as it has pictures.
LEMMA KeepsUpSends ==
  ASSUME TypeInv, SrcInv, SecondReady, KeepsUp
  PROVE  /\ FirstSecond \in Nat
         /\ FirstSecond <= Len(Simulated(FirstSecond))
<1> DEFINE S == {i \in 1..Len(m_newsrc_datas) :
                    SecondOf(m_newsrc_datas[i]) = SecondOf(m_newsrc_datas[1])}
           p == m_newsrc_datas[1]
           f == [i \in S |-> m_newsrc_datas[i]]
<1>1. FirstSecond \in 1..Len(m_newsrc_datas) /\ Len(m_newsrc_datas) \in Nat /\ FirstSecond \in Nat
  BY SimulatedFacts, SrcNat
<1>2. CASE mode.send = 0
  BY <1>1, <1>2, SimulatedFacts
<1>3. CASE mode.send # 0
  <2>1. Len(Simulated(FirstSecond)) = mode.send
    BY <1>3, SimulatedFacts
  <2>2. \A i \in 1..Len(m_newsrc_datas) : m_newsrc_datas[i] \in Pics /\ m_newsrc_datas[i] \in Nat
    BY ElementOfSeq, PicsFinite DEF TypeInv, CacheType
  <2>3. p \in Pics
    BY <1>1, <2>2
  <2>4. \A i, j \in S : m_newsrc_datas[i] = m_newsrc_datas[j] => i = j
    <3> SUFFICES ASSUME NEW i \in S, NEW j \in S, i # j
                 PROVE  m_newsrc_datas[i] # m_newsrc_datas[j]
      OBVIOUS
    <3>1. i < j \/ j < i
      BY <1>1
    <3>2. m_newsrc_datas[i] < m_newsrc_datas[j] \/ m_newsrc_datas[j] < m_newsrc_datas[i]
      BY <3>1 DEF SrcInv
    <3>3. QED BY <2>2, <3>2
  <2>5. \A i \in S : m_newsrc_datas[i] \in InSecondOf(p)
    BY <2>2 DEF InSecondOf
  <2>6. f \in Injection(S, InSecondOf(p))
    BY <2>4, <2>5 DEF Injection, IsInjective
  <2>7. IsFiniteSet(InSecondOf(p))
    BY PicsFinite, FS_Subset DEF InSecondOf
  <2> HIDE DEF S, f
  <2>8. Cardinality(S) <= Cardinality(InSecondOf(p))
    BY <2>6, <2>7, FS_Injection
  <2>9. Cardinality(S) = FirstSecond
    BY DEF S, FirstSecond
  <2>10. Cardinality(InSecondOf(p)) <= mode.send /\ Cardinality(InSecondOf(p)) \in Nat
    BY <1>3, <2>3, <2>7, FS_CardinalityType DEF KeepsUp
  <2>11. mode.send \in Nat
    BY ModeFacts DEF TypeInv, WorkType
  <2>12. QED BY <1>1, <2>1, <2>8, <2>9, <2>10, <2>11
<1>4. QED BY <1>2, <1>3

\* When DeleteUsedData finds no picture to give up, a frame of every used
\* picture is still to be sent.
LEMMA AllReferenced ==
  ASSUME TypeInv, SrcInv, Unreferenced = {}
  PROVE  Cardinality(m_usedsrc_datas) <= Len(send_list)
<1> DEFINE D == 1..Len(send_list)
           T == {send_list[i].frame : i \in D}
           f == [i \in D |-> send_list[i].frame]
<1>1. m_usedsrc_datas \subseteq T
  <2> SUFFICES ASSUME NEW p \in m_usedsrc_datas PROVE p \in T
    OBVIOUS
  <2>1. p \in Nat \ {0}
    BY SrcNat
  <2>2. data \in Nat
    BY PicsFinite DEF TypeInv, CacheType
  <2>3. p # data
    BY <2>1, <2>2 DEF SrcInv
  <2>4. \E i \in D : send_list[i].frame = p
    BY <2>3 DEF Unreferenced
  <2>5. QED BY <2>4
<1>2. f \in Surjection(D, T)
  BY DEF Surjection
<1>3. IsFiniteSet(D) /\ Cardinality(D) = Len(send_list) /\ Len(send_list) \in Nat
  <2>1. Len(send_list) \in Nat
    BY FlowTypes
  <2>2. /\ IsFiniteSet(1..Len(send_list))
        /\ Cardinality(1..Len(send_list)) = IF 1 > Len(send_list) THEN 0 ELSE Len(send_list) - 1 + 1
    BY <2>1, FS_Interval, 1 \in Int, Len(send_list) \in Int
  <2>3. QED BY <2>1, <2>2
<1> HIDE DEF D, T, f
<1>4. IsFiniteSet(T) /\ Cardinality(T) <= Cardinality(D)
  BY <1>2, <1>3, FS_Surjection
<1>5. Cardinality(m_usedsrc_datas) <= Cardinality(T)
  BY <1>1, <1>4, FS_Subset
<1>6. QED BY <1>3, <1>4, <1>5, SrcNat, FS_CardinalityType

LEMMA KeepStep == TypeInv /\ SrcInv /\ KeepInv /\ [Next]_vars => KeepInv'
<1> SUFFICES ASSUME TypeInv, SrcInv, KeepInv, [Next]_vars PROVE KeepInv'
  OBVIOUS
<1> DEFINE used == Cardinality(m_usedsrc_datas)
<1>0. CASE UNCHANGED <<mode, m_usedsrc_datas, send_list, sendwork>>
  BY <1>0 DEF KeepInv, KeepsUp, Releasing
<1>1. used \in Nat /\ Len(send_list) \in Nat
  BY SrcNat, FlowTypes
<1>2. CASE UNCHANGED vars
  BY <1>0, <1>2 DEF vars, agentVars, srcVars, sendVars, sendWorkVars
<1>3. CASE LinkDown \/ SendPic \/ RecvResult \/ Report
  <2>1. UNCHANGED <<mode, sendwork>>
    BY <1>3, ActionFrames DEF SendPic, RecvResult, Report, Stop, StopAgent, stopFrame, workVars
  <2>2. UNCHANGED <<m_usedsrc_datas, send_list>>
    BY <1>3 DEF LinkDown, SendPic, SkipPic, OfferPic, AddPicture, OfferEof, AddEof, addFrame,
       Answered, Reply, SendAbort, RecvResult, GetResult, PopResult, GetNoResult, GetOver,
       RecvAbort, Report, ReportResult, ReportEnd, Stop, StopAgent, stopFrame, agentVars,
       srcVars, sendVars
  <2>3. QED BY <1>0, <2>1, <2>2
<1>4. CASE ProduceSecond
  <2> DEFINE n == FirstSecond
             l == Len(Simulated(FirstSecond))
  <2>1. UNCHANGED <<mode, sendwork>>
    BY <1>4 DEF ProduceSecond, produceFrame, sendWorkVars
  <2>2. UNCHANGED <<KeepsUp, Releasing>>
    BY <2>1 DEF KeepsUp, Releasing
  <2>3. SecondReady /\ n \in 0..Len(m_newsrc_datas)
    BY <1>4, SimulatedFacts DEF ProduceSecond
  <2>4. Cardinality(m_usedsrc_datas') = used + n
    <3>1. m_usedsrc_datas' = m_usedsrc_datas \cup {m_newsrc_datas[i] : i \in 1..n}
      BY <1>4 DEF ProduceSecond
    <3>2. QED BY <2>3, <3>1, UseCount, Zenon
  <2>5. Len(send_list') = Len(send_list) + l /\ l \in Nat
    BY <1>4, <2>3, SimulatedFacts, ConcatProperties, LenProperties
       DEF ProduceSecond, TypeInv, QueueType
  <2>6. KeepsUp => n \in Nat /\ n <= l
    BY <2>3, KeepsUpSends
  <2>7. Releasing \in Nat
    BY DEF Releasing
  <2> HIDE DEF n, l, used
  <2>8. KeepsUp => used + n <= (Len(send_list) + l) + Releasing
    <3> SUFFICES ASSUME KeepsUp PROVE used + n <= (Len(send_list) + l) + Releasing
      OBVIOUS
    <3>1. used <= Len(send_list) + Releasing
      BY DEF KeepInv, used
    <3>2. n \in Nat /\ n <= l /\ l \in Nat
      BY <2>5, <2>6
    <3>3. QED BY ONLY <1>1, <2>7, <3>1, <3>2
  <2>9. QED BY <2>2, <2>4, <2>5, <2>8 DEF KeepInv
<1>5. CASE SendTake
  <2>1. Len(send_list') = Len(send_list) - 1
    BY <1>5, HeadTailProperties DEF SendTake, TypeInv, QueueType
  <2>2. UNCHANGED <<mode, m_usedsrc_datas>> /\ Releasing = 0 /\ Releasing' = 1
    BY <1>5 DEF SendTake, sendFrame, Releasing
  <2>3. QED BY <1>1, <2>1, <2>2 DEF KeepInv, KeepsUp
<1>6. CASE SendRegister \/ SendNotify \/ SendResult
  <2>1. UNCHANGED <<mode, m_usedsrc_datas, send_list, Releasing>>
    BY <1>6 DEF SendRegister, SendNotify, SendResult, sendFrame, Releasing
  <2>2. QED BY <2>1 DEF KeepInv, KeepsUp
<1>7. CASE SendRelease
  <2>1. UNCHANGED <<mode, send_list>> /\ Releasing = 1 /\ Releasing' = 0
    BY <1>7 DEF SendRelease, sendFrame, Releasing
  <2>2. CASE Unreferenced = {}
    <3>1. UNCHANGED m_usedsrc_datas
      BY <1>7, <2>2 DEF SendRelease
    <3>2. QED BY <1>1, <2>1, <2>2, <3>1, AllReferenced DEF KeepInv
  <2>3. CASE Unreferenced # {}
    <3>1. PICK p \in m_usedsrc_datas : m_usedsrc_datas' = m_usedsrc_datas \ {p}
      BY <1>7, <2>3 DEF SendRelease, Unreferenced
    <3>2. Cardinality(m_usedsrc_datas') = used - 1
      BY <3>1, SrcNat, FS_RemoveElement
    <3>3. QED BY <1>1, <2>1, <3>2 DEF KeepInv, KeepsUp
  <2>4. QED BY <2>2, <2>3
<1>8. CASE ProduceNothing \/ RecvWork \/ ProfilingWork
  BY <1>0, <1>8 DEF ProduceNothing, produceFrame, RecvWork, RecvTake, RecvCount, recvFrame,
     ProfilingWork, ProfilingMatch, ProfilingOrder, ProfilingProduce, ProfilingCount,
     ProfilingSweep, profilingFrame, srcVars, sendVars, sendWorkVars
<1>9. CASE Stopping
  <2>1. UNCHANGED <<mode, m_usedsrc_datas, send_list, Releasing>>
    BY <1>9 DEF Stopping, SendExit, RecvExit, ProfilingExit, stopFrame, srcVars, sendVars,
       Releasing
  <2>2. QED BY <2>1 DEF KeepInv, KeepsUp
<1>10. QED
  BY <1>2, <1>3, <1>4, <1>5, <1>6, <1>7, <1>8, <1>9
     DEF Next, AgentStep, AgentNext, Produce, SendWork

\* At a rate that leaves out no picture, giving up one picture per frame sent
\* is enough: the used pictures never outnumber the frames still to be sent,
\* so that the cache is empty when they are sent; and the count AddAgentData
\* compares with the capacity is the number of pictures in the cache.
THEOREM CacheGivenBack == Spec => []CacheReleased
<1> DEFINE Inv == TypeInv /\ SrcInv /\ KeepInv
<1>1. Init => Inv
  <2> SUFFICES ASSUME Init PROVE KeepInv
    BY InitTypes, InitSrc
  <2>1. Cardinality(m_usedsrc_datas) = 0
    BY FS_EmptySet DEF Init, AgentInit
  <2>2. Len(send_list) \in Nat /\ Releasing \in Nat
    BY InitTypes, FlowTypes DEF Releasing
  <2>3. QED BY <2>1, <2>2 DEF KeepInv
<1>2. Inv /\ [Next]_vars => Inv'
  BY TypeStep, SrcStep, KeepStep
<1>3. Inv => CacheReleased
  BY DEF SrcInv, KeepInv, CacheReleased
<1> HIDE DEF Inv
<1>4. QED BY <1>1, <1>2, <1>3, PTL DEF Spec

-----------------------------------------------------------------------------
(* Records and frames.                                                     *)

LEMMA OrderTypes ==
  ASSUME TypeInv
  PROVE  /\ Len(order_match_profiling_id) \in Nat /\ Len(send_list) \in Nat
         /\ \A i \in 1..Len(order_match_profiling_id) : order_match_profiling_id[i] \in SendData
         /\ \A i \in 1..Len(send_list) : send_list[i] \in SendData
         /\ \A d \in SendData : d.id \in Nat /\ d.stamp \in Nat /\ d.frame \in Nat
                                /\ d.frame \in Pics
<1>1. order_match_profiling_id \in Seq(SendData) /\ send_list \in Seq(SendData)
  BY DEF TypeInv, RecordType, QueueType
<1>2. \A d \in SendData : d.id \in Nat /\ d.stamp \in Nat /\ d.frame \in Nat /\ d.frame \in Pics
  BY PicsFinite DEF SendData
<1>3. QED BY <1>1, <1>2, LenProperties, ElementOfSeq

\* d is a frame of used pictures after the step.
OldNext(d) ==
    /\ d.id < max_send_fn'
    /\ d.frame <= Limit'
    /\ d.stamp = Times[d.frame]
    /\ \A k \in 1..Len(m_newsrc_datas') : d.frame < m_newsrc_datas'[k]

\* A frame of used pictures stays one.
LEMMA OldStays ==
  ASSUME TypeInv, SrcInv, [Next]_vars, NEW d \in SendData, Old(d)
  PROVE  OldNext(d)
<1>0. /\ d.id \in Nat /\ d.frame \in Nat /\ max_send_fn \in Nat
      /\ Limit \in Nat /\ Limit <= Len(Times) /\ Len(Times) \in Nat
  BY OrderTypes, FlowTypes, LimitType
<1>1. CASE UNCHANGED <<max_send_fn, m_newsrc_datas>> /\ Limit' \in Nat /\ Limit <= Limit'
  BY <1>0, <1>1 DEF Old, OldNext
<1>2. CASE OfferPic
  <2>1. /\ Limit = send_count /\ send_count \in Nat /\ Limit' \in {Limit, Limit + 1}
        /\ m_newsrc_datas' \in {m_newsrc_datas, Append(m_newsrc_datas, send_count + 1)}
        /\ max_send_fn' = max_send_fn
    BY <1>0, <1>2 DEF OfferPic, AddPicture, addFrame, sendVars, Limit
  <2>2. CASE m_newsrc_datas' = m_newsrc_datas
    BY <1>0, <2>1, <2>2 DEF Old, OldNext
  <2>3. CASE m_newsrc_datas' = Append(m_newsrc_datas, send_count + 1)
    <3> DEFINE L == Len(m_newsrc_datas)
    <3>1. /\ Len(m_newsrc_datas') = L + 1 /\ L \in Nat
          /\ \A k \in 1..L : m_newsrc_datas'[k] = m_newsrc_datas[k]
          /\ m_newsrc_datas'[L + 1] = send_count + 1
      BY <1>2, <2>3, AppendProperties, SrcNat DEF OfferPic, TypeInv, CacheType
    <3>2. \A k \in 1..(L + 1) : d.frame < m_newsrc_datas'[k]
      <4> TAKE k \in 1..(L + 1)
      <4>1. k \in 1..L \/ k = L + 1
        BY <3>1
      <4>2. d.frame <= send_count
        BY <2>1 DEF Old, OldNext
      <4>3. QED BY <1>0, <2>1, <3>1, <4>1, <4>2 DEF Old, OldNext
    <3>3. d.frame <= Limit'
      BY <1>0, <2>1 DEF Old, OldNext
    <3>4. QED BY <2>1, <3>1, <3>2, <3>3 DEF Old, OldNext
  <2>4. QED BY <2>1, <2>2, <2>3
<1>3. CASE ProduceSecond /\ UNCHANGED clientVars
  <2> DEFINE n == FirstSecond
             L == Len(m_newsrc_datas)
             l == Len(Simulated(FirstSecond))
  <2>1. n \in 1..L /\ L \in Nat /\ l \in Nat
    BY <1>3, SimulatedFacts, SrcNat, LenProperties DEF ProduceSecond
  <2>2. /\ m_newsrc_datas' = SubSeq(m_newsrc_datas, n + 1, L)
        /\ max_send_fn' = max_send_fn + l
        /\ UNCHANGED <<refused, sendpic, send_count>>
    BY <1>3 DEF ProduceSecond, produceFrame, clientVars
  <2> HIDE DEF n, l
  <2>3. /\ Len(m_newsrc_datas') = L - n
        /\ \A i \in 1..(L - n) : m_newsrc_datas'[i] = m_newsrc_datas[i + n]
    BY <2>1, <2>2, SplitFacts DEF TypeInv, CacheType
  <2>4. \A i \in 1..(L - n) : i + n \in 1..L
    BY <2>1
  <2>5. \A i \in 1..(L - n) : d.frame < m_newsrc_datas'[i]
    BY <2>3, <2>4 DEF Old, OldNext
  <2>6. Limit' = Limit
    BY <2>2 DEF Limit
  <2>7. d.id < max_send_fn'
    BY <1>0, <2>1, <2>2 DEF Old, OldNext
  <2>8. QED BY <2>3, <2>5, <2>6, <2>7 DEF Old, OldNext
<1>4. CASE SkipPic \/ OfferEof \/ Answered \/ SendAbort
  <2>1. UNCHANGED <<max_send_fn, m_newsrc_datas>>
    BY <1>4 DEF SkipPic, OfferEof, AddEof, addFrame, Answered, Reply, SendAbort, agentVars,
       srcVars, sendVars
  <2>2. Limit' \in Nat /\ Limit <= Limit'
    <3>1. CASE SkipPic
      BY <1>0, <3>1 DEF SkipPic, Limit
    <3>2. CASE OfferEof
      BY <1>0, <3>2 DEF OfferEof, Limit
    <3>3. CASE Answered
      BY <1>0, <3>3 DEF Answered, Limit
    <3>4. CASE SendAbort
      BY <1>0, <3>4 DEF SendAbort, Limit
    <3>5. QED BY <1>4, <3>1, <3>2, <3>3, <3>4
  <2>3. QED BY <1>1, <2>1, <2>2
<1>5. CASE UNCHANGED <<max_send_fn, m_newsrc_datas, refused, sendpic, send_count>>
  <2>1. Limit' = Limit
    BY <1>5 DEF Limit
  <2>2. QED BY <1>0, <1>1, <1>5, <2>1
<1> USE DEF srcVars, handlerVars, sendVars
<1>6. CASE LinkDown \/ RecvResult \/ Report
  BY <1>5, <1>6 DEF LinkDown, RecvResult, GetResult, PopResult, GetNoResult, GetOver, RecvAbort,
     recvResultFrame, Report, ReportResult, ReportEnd, mainFrame, Stop, StopAgent, stopFrame,
     agentVars, clientVars
<1>7. CASE (ProduceNothing \/ SendWork) /\ UNCHANGED clientVars
  BY <1>5, <1>7 DEF ProduceNothing, produceFrame, SendWork, SendTake, SendRegister, SendNotify,
     SendRelease, SendResult, sendFrame, clientVars
<1>8. CASE (RecvWork \/ ProfilingWork) /\ UNCHANGED clientVars
  BY <1>5, <1>8 DEF RecvWork, RecvTake, RecvCount, recvFrame, ProfilingWork, ProfilingMatch,
     ProfilingOrder, ProfilingProduce, ProfilingCount, ProfilingSweep, profilingFrame, clientVars
<1>9. CASE Stopping /\ UNCHANGED clientVars
  BY <1>5, <1>9 DEF Stopping, SendExit, RecvExit, ProfilingExit, stopFrame, clientVars
<1>10. CASE UNCHANGED vars
  BY <1>5, <1>10 DEF vars, agentVars, clientVars
<1>11. QED
  BY <1>2, <1>3, <1>4, <1>6, <1>7, <1>8, <1>9, <1>10
     DEF Next, SendPic, AgentStep, AgentNext, Produce

\* The frames that are left of the expected ones are in order.
LEMMA OrderShrinks ==
  ASSUME TypeInv, SrcInv, OrderInv, [Next]_vars, UNCHANGED send_list,
         sendwork' = "register" => sendwork = "register" /\ readying' = readying,
         NEW g \in [1..Len(order_match_profiling_id') -> 1..Len(order_match_profiling_id)],
         Len(order_match_profiling_id') \in Nat,
         \A i, j \in 1..Len(order_match_profiling_id') : i < j => g[i] < g[j],
         \A i \in 1..Len(order_match_profiling_id') :
            order_match_profiling_id'[i] = order_match_profiling_id[g[i]]
  PROVE  OrderInv'
<1> DEFINE O == order_match_profiling_id
           S == send_list
<1>1. Sorted(O')
  BY DEF OrderInv, Sorted
<1>2. Sorted(S')
  BY DEF OrderInv, Sorted
<1>3. \A i \in 1..Len(O') : OldNext(O'[i])
  <2> TAKE i \in 1..Len(O')
  <2>1. O'[i] = O[g[i]] /\ g[i] \in 1..Len(O)
    OBVIOUS
  <2>2. O[g[i]] \in SendData /\ Old(O[g[i]])
    BY <2>1, OrderTypes DEF OrderInv
  <2>3. QED BY <2>1, <2>2, OldStays
<1>4. \A j \in 1..Len(S') : OldNext(S'[j])
  BY OrderTypes, OldStays DEF OrderInv
<1>5. \A i \in 1..Len(O'), j \in 1..Len(S') : Before(O'[i], S'[j])
  BY DEF OrderInv
<1>6. ASSUME sendwork' = "register"
      PROVE  /\ OldNext(readying')
             /\ \A i \in 1..Len(O') : Before(O'[i], readying')
             /\ \A j \in 1..Len(S') : Before(readying', S'[j])
  <2>1. sendwork = "register" /\ readying' = readying /\ readying \in SendData
    BY <1>6 DEF TypeInv, WorkType, Busy
  <2>2. OldNext(readying)
    BY <2>1, OldStays DEF OrderInv
  <2>3. QED BY <2>1, <2>2 DEF OrderInv
<1>7. QED BY <1>1, <1>2, <1>3, <1>4, <1>5, <1>6 DEF OrderInv, Old, OldNext, Sorted, Before

LEMMA OrderTake ==
  ASSUME TypeInv, SrcInv, OrderInv, mode.profiling, [Next]_vars, SendTake
  PROVE  OrderInv'
<1> DEFINE O == order_match_profiling_id
           S == send_list
<1>1. /\ S # <<>> /\ readying' = Head(S) /\ S' = Tail(S) /\ O' = O
      /\ sendwork' = "register"
  BY DEF SendTake, matchVars
<1>2. /\ Len(S) \in Nat /\ Len(S) > 0 /\ readying' = S[1] /\ Len(S') = Len(S) - 1
      /\ \A j \in 1..(Len(S) - 1) : S'[j] = S[j + 1]
  <2>1. S \in Seq(SendData)
    BY DEF TypeInv, QueueType
  <2>2. QED BY <1>1, <2>1, HeadTailProperties, EmptySeq, LenProperties
<1>3. \A j \in 1..(Len(S) - 1) : j + 1 \in 1..Len(S)
  BY <1>2
<1>4. 1 \in 1..Len(S) /\ \A j \in 1..(Len(S) - 1) : 1 < j + 1
  BY <1>2
<1>5. \A j \in 1..Len(S) : OldNext(S[j])
  BY OrderTypes, OldStays DEF OrderInv
<1>6. \A i \in 1..Len(O) : OldNext(O[i])
  BY OrderTypes, OldStays DEF OrderInv
<1>7. Sorted(S')
  BY <1>2, <1>3 DEF OrderInv, Sorted
<1>8. \A j \in 1..Len(S') : Before(readying', S'[j]) /\ OldNext(S'[j])
  BY <1>2, <1>3, <1>4, <1>5 DEF OrderInv, Sorted
<1>9. OldNext(readying') /\ \A i \in 1..Len(O) : Before(O[i], readying')
  BY <1>2, <1>4, <1>5 DEF OrderInv
<1>10. \A i \in 1..Len(O), j \in 1..Len(S') : Before(O[i], S'[j])
  BY <1>2, <1>3 DEF OrderInv
<1>11. Sorted(O)
  BY DEF OrderInv
<1>12. QED
  BY <1>1, <1>6, <1>7, <1>8, <1>9, <1>10, <1>11 DEF OrderInv, Old, OldNext, Sorted, Before

LEMMA OrderRegister ==
  ASSUME TypeInv, SrcInv, OrderInv, [Next]_vars, SendRegister
  PROVE  OrderInv'
<1> DEFINE O == order_match_profiling_id
           S == send_list
           L == Len(O)
<1>1. /\ O' = Append(O, readying) /\ S' = S /\ sendwork = "register" /\ sendwork' = "notify"
      /\ readying \in SendData /\ O \in Seq(SendData)
  BY DEF SendRegister, TypeInv, WorkType, Busy, RecordType
<1>2. /\ Len(O') = L + 1 /\ L \in Nat /\ O'[L + 1] = readying
      /\ \A i \in 1..L : O'[i] = O[i]
  BY <1>1, AppendProperties, LenProperties
<1>3. \A i \in 1..(L + 1) : i \in 1..L \/ i = L + 1
  BY <1>2
<1>4. \A i \in 1..(L + 1) : OldNext(O'[i])
  BY <1>1, <1>2, <1>3, OrderTypes, OldStays DEF OrderInv
<1>5. \A j \in 1..Len(S) : OldNext(S[j])
  BY OrderTypes, OldStays DEF OrderInv
<1>6. \A i \in 1..(L + 1), j \in 1..Len(S) : Before(O'[i], S[j])
  BY <1>1, <1>2, <1>3 DEF OrderInv
<1>7. \A i, j \in 1..(L + 1) : i < j => Before(O'[i], O'[j])
  <2> TAKE i, j \in 1..(L + 1)
  <2> HAVE i < j
  <2>1. i \in 1..L
    BY <1>2
  <2>2. CASE j = L + 1
    BY <1>1, <1>2, <2>1, <2>2 DEF OrderInv
  <2>3. CASE j \in 1..L
    BY <1>2, <2>1, <2>3 DEF OrderInv, Sorted
  <2>4. QED BY <1>3, <2>2, <2>3
<1>8. Sorted(S)
  BY DEF OrderInv
<1>9. QED
  BY <1>1, <1>2, <1>4, <1>5, <1>6, <1>7, <1>8 DEF OrderInv, Old, OldNext, Sorted, Before

LEMMA OrderProduce ==
  ASSUME TypeInv, SrcInv, OrderInv, mode.send = 0, [Next]_vars, ProduceSecond,
         UNCHANGED clientVars
  PROVE  OrderInv'
<1> DEFINE O == order_match_profiling_id
           S == send_list
           n == FirstSecond
           D == Simulated(FirstSecond)
           L == Len(m_newsrc_datas)
           e(i) == [id |-> max_send_fn + i - 1, frame |-> m_newsrc_datas[i],
                    stamp |-> Times[m_newsrc_datas[i]]]
<1>1. /\ n \in 1..L /\ L \in Nat /\ D \in Seq(SendData) /\ Len(D) = n
      /\ \A i \in 1..n : D[i] = e(i)
  BY SimulatedFacts, SrcNat DEF ProduceSecond
<1>2. /\ S' = S \o D /\ max_send_fn' = max_send_fn + Len(D) /\ O' = O
      /\ m_newsrc_datas' = SubSeq(m_newsrc_datas, n + 1, L)
      /\ UNCHANGED <<sendwork, readying, refused, sendpic, send_count>>
  BY DEF ProduceSecond, produceFrame, matchVars, sendWorkVars, clientVars
<1>3. /\ max_send_fn \in Nat /\ S \in Seq(SendData) /\ Limit' = Limit
      /\ \A i \in 1..L : m_newsrc_datas[i] \in Pics /\ m_newsrc_datas[i] \in Nat
  <2>1. Limit' = Limit
    BY <1>2 DEF Limit
  <2>2. m_newsrc_datas \in Seq(Pics) /\ max_send_fn \in Nat /\ S \in Seq(SendData)
    BY DEF TypeInv, CacheType, QueueType
  <2>3. QED BY <2>1, <2>2, ElementOfSeq, PicsFinite
<1> HIDE DEF n, D
<1>4. /\ Len(m_newsrc_datas') = L - n
      /\ \A i \in 1..(L - n) : m_newsrc_datas'[i] = m_newsrc_datas[i + n]
  BY <1>1, <1>2, SplitFacts DEF TypeInv, CacheType
<1>5. /\ Len(S') = Len(S) + n /\ Len(S) \in Nat
      /\ \A j \in 1..Len(S) : S'[j] = S[j]
      /\ \A i \in 1..n : S'[Len(S) + i] = D[i]
  <2>1. /\ Len(S) \in Nat /\ n \in Nat /\ Len(S \o D) = Len(S) + Len(D)
        /\ \A i \in 1..(Len(S) + Len(D)) :
              (S \o D)[i] = IF i <= Len(S) THEN S[i] ELSE D[i - Len(S)]
    BY <1>1, <1>3, ConcatProperties, LenProperties
  <2>2. \A i \in 1..n : /\ Len(S) + i \in 1..(Len(S) + n) /\ ~(Len(S) + i <= Len(S))
                       /\ Len(S) + i - Len(S) = i
    BY <2>1
  <2>3. \A j \in 1..Len(S) : j \in 1..(Len(S) + n) /\ j <= Len(S)
    BY <2>1
  <2> HIDE DEF S
  <2>4. QED BY <1>1, <1>2, <2>1, <2>2, <2>3
<1>6. \A i \in 1..n : /\ D[i].id = max_send_fn + i - 1 /\ D[i].frame = m_newsrc_datas[i]
                      /\ D[i].stamp = Times[m_newsrc_datas[i]]
                      /\ i \in 1..L /\ i \in Nat
  BY <1>1
<1> HIDE DEF e
<1>7. \A i \in 1..n : OldNext(D[i])
  <2> TAKE i \in 1..n
  <2>1. D[i].id < max_send_fn'
    <3>1. D[i].id = max_send_fn + i - 1 /\ i \in Nat
      BY <1>6
    <3>2. max_send_fn' = max_send_fn + n /\ n \in Nat /\ i <= n
      BY <1>1, <1>2
    <3>3. QED BY <1>3, <3>1, <3>2
  <2>2. D[i].frame <= Limit'
    BY <1>3, <1>6 DEF SrcInv
  <2>3. \A k \in 1..(L - n) : D[i].frame < m_newsrc_datas'[k]
    <3> TAKE k \in 1..(L - n)
    <3>1. k + n \in 1..L /\ i < k + n
      BY <1>1
    <3>2. QED BY <1>4, <1>6, <3>1 DEF SrcInv
  <2>4. QED BY <1>4, <1>6, <2>1, <2>2, <2>3 DEF OldNext
<1>8. \A d \in SendData : \A i \in 1..n : Old(d) => Before(d, D[i])
  <2> SUFFICES ASSUME NEW d \in SendData, NEW i \in 1..n, Old(d) PROVE Before(d, D[i])
    OBVIOUS
  <2>1. d.id \in Nat /\ d.frame \in Pics
    BY OrderTypes
  <2>2. d.id < D[i].id
    BY <1>3, <1>6, <2>1 DEF Old
  <2>3. d.frame < m_newsrc_datas[i] /\ d.stamp = Times[d.frame]
    BY <1>6 DEF Old
  <2>4. Times[d.frame] < Times[m_newsrc_datas[i]]
    BY <1>3, <1>6, <2>1, <2>3, AgentAssumption
  <2>5. QED BY <1>6, <2>2, <2>3, <2>4 DEF Before
<1>9. \A i, j \in 1..n : i < j => Before(D[i], D[j])
  <2> TAKE i, j \in 1..n
  <2> HAVE i < j
  <2>1. D[i].id < D[j].id
    BY <1>3, <1>6
  <2>2. m_newsrc_datas[i] < m_newsrc_datas[j]
    BY <1>6 DEF SrcInv
  <2>3. Times[m_newsrc_datas[i]] < Times[m_newsrc_datas[j]]
    BY <1>3, <1>6, <2>2, AgentAssumption
  <2>4. QED BY <1>6, <2>1, <2>3 DEF Before
<1>10. \A j \in 1..Len(S') : \/ j \in 1..Len(S) /\ S'[j] = S[j]
                             \/ \E i \in 1..n : j = Len(S) + i /\ S'[j] = D[i]
  <2> TAKE j \in 1..Len(S')
  <2>1. j \in 1..Len(S) \/ (j - Len(S) \in 1..n /\ j = Len(S) + (j - Len(S)))
    BY <1>1, <1>5
  <2>2. QED BY <1>5, <2>1
<1>11. \A j \in 1..Len(S') : OldNext(S'[j])
  <2>1. \A j \in 1..Len(S) : OldNext(S[j])
    BY OrderTypes, OldStays DEF OrderInv
  <2>2. QED BY <1>7, <1>10, <2>1
<1>12. \A i \in 1..Len(O) : OldNext(O[i])
  BY OrderTypes, OldStays DEF OrderInv
<1>13. \A d \in SendData :
          Old(d) /\ (\A j \in 1..Len(S) : Before(d, S[j])) => \A j \in 1..Len(S') : Before(d, S'[j])
  BY <1>8, <1>10
<1>14. \A i \in 1..Len(O), j \in 1..Len(S') : Before(O[i], S'[j])
  BY <1>13, OrderTypes DEF OrderInv
<1>15. \A i, j \in 1..Len(S') : i < j => Before(S'[i], S'[j])
  <2> TAKE i, j \in 1..Len(S')
  <2> HAVE i < j
  <2>1. CASE i \in 1..Len(S) /\ j \in 1..Len(S)
    BY <1>5, <2>1 DEF OrderInv, Sorted
  <2>2. CASE i \in 1..Len(S) /\ j \notin 1..Len(S)
    <3>1. PICK k \in 1..n : S'[j] = D[k]
      BY <1>10, <2>2
    <3>2. S[i] \in SendData /\ Old(S[i]) /\ S'[i] = S[i]
      BY <1>5, <2>2, OrderTypes DEF OrderInv
    <3>3. QED BY <1>8, <3>1, <3>2
  <2>3. CASE i \notin 1..Len(S)
    <3>1. PICK k \in 1..n : i = Len(S) + k /\ S'[i] = D[k]
      BY <1>10, <2>3
    <3>2. j \notin 1..Len(S)
      BY <1>5, <3>1
    <3>3. PICK l \in 1..n : j = Len(S) + l /\ S'[j] = D[l]
      BY <1>10, <3>2
    <3>4. k < l
      BY <1>5, <3>1, <3>3
    <3>5. QED BY <1>9, <3>1, <3>3, <3>4
  <2>4. QED BY <2>1, <2>2, <2>3
<1>16. ASSUME sendwork = "register"
       PROVE  /\ OldNext(readying) /\ \A i \in 1..Len(O) : Before(O[i], readying)
              /\ \A j \in 1..Len(S') : Before(readying, S'[j])
  <2>1. readying \in SendData
    BY <1>16 DEF TypeInv, WorkType, Busy
  <2>2. /\ Old(readying) /\ \A i \in 1..Len(O) : Before(O[i], readying)
        /\ \A j \in 1..Len(S) : Before(readying, S[j])
    BY <1>16 DEF OrderInv
  <2>3. QED BY <1>13, <2>1, <2>2, OldStays
<1>17. Sorted(O)
  BY DEF OrderInv
<1>18. UNCHANGED <<order_match_profiling_id, sendwork, readying>>
  BY <1>2
<1>19. QED
  BY <1>11, <1>12, <1>14, <1>15, <1>16, <1>17, <1>18 DEF OrderInv, Old, OldNext, Sorted, Before

\* Records are wanted at the pictures' own rate only ...
OwnRate == \A m \in Modes : m.profiling => m.send = 0

\* ... and come within a minute.
RecordModes == \A m \in Modes : m.profiling => m.send = 0 /\ ~m.slow

LEMMA OrderStep ==
  ASSUME OwnRate, TypeInv, SrcInv, OrderInv, mode.profiling, [Next]_vars
  PROVE  OrderInv'
<1> DEFINE O == order_match_profiling_id
           id == [i \in 1..Len(O) |-> i]
<1>0. mode.send = 0 /\ Len(O) \in Nat
  BY OrderTypes DEF OwnRate, TypeInv, WorkType
<1>1. CASE SendTake
  BY <1>1, OrderTake
<1>2. CASE SendRegister
  BY <1>2, OrderRegister
<1>3. CASE ProduceSecond /\ UNCHANGED clientVars
  BY <1>0, <1>3, OrderProduce
<1>4. CASE ProfilingOrder
  <2> DEFINE k == Position
             g == [i \in 1..(Len(O) - k) |-> i + k]
  <2>1. k \in 0..Len(O)
    BY PositionFacts
  <2>2. /\ O' = SubSeq(O, k + 1, Len(O)) /\ UNCHANGED <<send_list, sendwork, readying>>
    BY <1>4 DEF ProfilingOrder, profilingFrame, sendVars, sendWorkVars
  <2> HIDE DEF k
  <2>3. Len(O') = Len(O) - k /\ \A i \in 1..(Len(O) - k) : O'[i] = O[i + k]
    BY <2>1, <2>2, SplitFacts DEF TypeInv, RecordType
  <2>4. \A i \in 1..(Len(O) - k) : i + k \in 1..Len(O)
    BY <1>0, <2>1
  <2>5. /\ g \in [1..Len(O') -> 1..Len(O)] /\ Len(O') \in Nat
        /\ \A i, j \in 1..Len(O') : i < j => g[i] < g[j]
        /\ \A i \in 1..Len(O') : O'[i] = O[g[i]]
    BY <1>0, <2>1, <2>3, <2>4
  <2> HIDE DEF g
  <2>6. QED BY <2>2, <2>5, OrderShrinks
<1>5. CASE ProfilingSweep
  <2> DEFINE h == Len(O) \div 2
             g == [i \in 1..h |-> 2 * i]
  <2>1. O' = [i \in 1..h |-> O[2 * i]] /\ UNCHANGED <<send_list, sendwork, readying>>
    BY <1>5 DEF ProfilingSweep, profilingFrame, sendVars, sendWorkVars
  <2>2. h \in Nat /\ 2 * h <= Len(O)
    BY <1>0
  <2>3. Len(O') = h /\ \A i \in 1..h : O'[i] = O[2 * i]
    <3>1. Len([i \in 1..h |-> O[2 * i]]) = h
      BY SweepFacts DEF TypeInv, RecordType
    <3>2. QED BY <2>1, <3>1
  <2> HIDE DEF h
  <2>4. \A i \in 1..h : 2 * i \in 1..Len(O)
    BY <1>0, <2>2
  <2>5. /\ g \in [1..Len(O') -> 1..Len(O)] /\ Len(O') \in Nat
        /\ \A i, j \in 1..Len(O') : i < j => g[i] < g[j]
        /\ \A i \in 1..Len(O') : O'[i] = O[g[i]]
    BY <2>2, <2>3, <2>4
  <2> HIDE DEF g
  <2>6. QED BY <2>1, <2>5, OrderShrinks
<1>6. CASE /\ UNCHANGED <<order_match_profiling_id, send_list>>
           /\ sendwork' = "register" => sendwork = "register" /\ readying' = readying
  <2>1. /\ id \in [1..Len(O') -> 1..Len(O)] /\ Len(O') \in Nat
        /\ \A i, j \in 1..Len(O') : i < j => id[i] < id[j]
        /\ \A i \in 1..Len(O') : O'[i] = O[id[i]]
    BY <1>0, <1>6
  <2> HIDE DEF id
  <2>2. QED BY <1>6, <2>1, OrderShrinks
<1>7. CASE LinkDown \/ SendPic \/ RecvResult \/ Report
  <2>1. UNCHANGED <<order_match_profiling_id, send_list>>
    BY <1>7, ActionFrames DEF SendPic, RecvResult, Report, GetResult, PopResult, sendVars,
       queueVars, recordVars
  <2>2. UNCHANGED <<sendwork, readying>>
    BY <1>7, ActionFrames DEF SendPic, RecvResult, Report, Stop, StopAgent, stopFrame, workVars
  <2>3. QED BY <1>6, <2>1, <2>2
<1> USE DEF sendVars, matchVars, sendWorkVars
<1>8. CASE ProduceNothing \/ SendNotify \/ SendRelease \/ SendResult
  BY <1>6, <1>8 DEF ProduceNothing, produceFrame, SendNotify, SendRelease, SendResult, sendFrame
<1>9. CASE RecvWork
  BY <1>6, <1>9 DEF RecvWork, RecvTake, RecvCount, recvFrame
<1>10. CASE ProfilingMatch \/ ProfilingProduce \/ ProfilingCount
  BY <1>6, <1>10 DEF ProfilingMatch, ProfilingProduce, ProfilingCount, profilingFrame
<1>11. CASE Stopping
  BY <1>6, <1>11 DEF Stopping, SendExit, RecvExit, ProfilingExit, stopFrame
<1>12. CASE UNCHANGED vars
  BY <1>6, <1>12 DEF vars, agentVars
<1>13. QED
  BY <1>1, <1>2, <1>3, <1>4, <1>5, <1>7, <1>8, <1>9, <1>10, <1>11, <1>12
     DEF Next, AgentStep, AgentNext, Produce, SendWork, ProfilingWork

\* Expected frames differ in their times and in their ids.
LEMMA ExpectedFacts ==
  ASSUME TypeInv, OrderInv
  PROVE  /\ \A d \in Expected : d \in SendData /\ d.stamp \in Nat /\ Old(d)
         /\ \A d, e \in Expected : d.stamp = e.stamp \/ d.id = e.id => d = e
<1> DEFINE O == order_match_profiling_id
<1>1. \A d \in Expected : d \in SendData /\ d.stamp \in Nat /\ d.id \in Nat /\ Old(d)
  BY OrderTypes DEF OrderInv, Expected
<1>2. \A i, j \in 1..Len(O) : i = j \/ i < j \/ j < i
  BY OrderTypes
<1>3. ASSUME NEW d \in Expected, NEW e \in Expected, d # e
      PROVE  d.stamp # e.stamp /\ d.id # e.id
  <2>1. PICK i \in 1..Len(O) : d = O[i]
    BY DEF Expected
  <2>2. PICK j \in 1..Len(O) : e = O[j]
    BY DEF Expected
  <2>3. Before(d, e) \/ Before(e, d)
    BY <1>2, <1>3, <2>1, <2>2 DEF OrderInv, Sorted
  <2>4. QED BY <1>1, <2>3 DEF Before
<1>4. QED BY <1>1, <1>3

LEMMA SdkNat == TypeInv => Len(sdk) \in Nat /\ \A k \in 1..Len(sdk) : sdk[k] \in Nat
  BY LenProperties, ElementOfSeq DEF TypeInv, RecordType

LEMMA AgreeFrame ==
  ASSUME AgreeInv, UNCHANGED <<match_profiling, order_match_profiling_id>>,
         \/ profilingwork' = profilingwork /\ senddata' = senddata
         \/ profilingwork # "order" /\ profilingwork' # "order"
  PROVE  AgreeInv' /\ Expected' = Expected /\ Matched' = Matched
<1>1. Matched' = Matched
  BY DEF Matched
<1>2. Expected' = Expected
  BY DEF Expected
<1>3. QED BY <1>1, <1>2 DEF AgreeInv

LEMMA MatchFrame ==
  ASSUME MatchInv, UNCHANGED <<match_profiling, order_match_profiling_id, sdk>>,
         \/ profilingwork' = profilingwork /\ senddata' = senddata
         \/ profilingwork # "order" /\ profilingwork' \notin {"order", "crashed"},
         sendwork' = "notify" => sendwork = "notify" /\ readying' = readying
  PROVE  MatchInv'
<1>1. AgreeInv' /\ Matched' = Matched
  BY AgreeFrame DEF MatchInv
<1>2. profilingwork' # "crashed"
  BY DEF MatchInv
<1>3. QED BY <1>1, <1>2 DEF MatchInv

LEMMA AgreeRegister ==
  ASSUME TypeInv, OrderInv, AgreeInv, SendRegister
  PROVE  /\ AgreeInv' /\ Matched' = Matched
         /\ Expected' = Expected \cup {readying}
         /\ match_profiling' = match_profiling \cup {readying}
         /\ \A d \in Expected : d.stamp < readying.stamp
<1> DEFINE O == order_match_profiling_id
           r == readying
<1>1. /\ r \in SendData /\ r.stamp \in Nat /\ sendwork = "register"
      /\ UNCHANGED <<readying, sdk, profilingwork, senddata>> /\ sendwork' = "notify"
      /\ O' = Append(O, r)
      /\ match_profiling' = {m \in match_profiling : m.stamp # r.stamp} \cup {r}
  BY OrderTypes DEF SendRegister, sendFrame, profilingVars, TypeInv, WorkType, Busy
<1>2. \A d \in Expected : d \in SendData /\ d.stamp \in Nat /\ d.stamp < r.stamp
  BY <1>1, ExpectedFacts DEF Expected, OrderInv, Before
<1>3. match_profiling \subseteq Expected
  BY DEF AgreeInv
<1>4. \A m \in match_profiling : m.stamp # r.stamp
  BY <1>1, <1>2, <1>3
<1>5. match_profiling' = match_profiling \cup {r}
  BY <1>1, <1>4
<1>6. Expected' = Expected \cup {r}
  <2>1. /\ Len(O') = Len(O) + 1 /\ O'[Len(O) + 1] = r /\ Len(O) \in Nat
        /\ \A i \in 1..Len(O) : O'[i] = O[i]
    BY <1>1, AppendProperties, LenProperties DEF TypeInv, RecordType
  <2>2. /\ \A i \in 1..Len(O') : i \in 1..Len(O) \/ i = Len(O) + 1
        /\ \A i \in 1..Len(O) : i \in 1..Len(O')
        /\ Len(O) + 1 \in 1..Len(O')
    BY <2>1
  <2>3. \A i \in 1..Len(O') : O'[i] \in Expected \cup {r}
    BY <2>1, <2>2 DEF Expected
  <2>4. \A d \in Expected \cup {r} : \E i \in 1..Len(O') : O'[i] = d
    BY <2>1, <2>2 DEF Expected
  <2>5. QED BY <2>3, <2>4 DEF Expected
<1>7. Matched' = Matched /\ r \notin Matched
  <2>1. Matched' = Matched
    BY <1>1 DEF Matched
  <2>2. Matched \subseteq Expected /\ r \notin Expected
    BY <1>1, <1>2 DEF AgreeInv
  <2>3. QED BY <2>1, <2>2
<1>8. AgreeInv'
  BY <1>5, <1>6, <1>7 DEF AgreeInv
<1>9. QED
  BY <1>2, <1>5, <1>6, <1>7, <1>8

LEMMA MatchRegister ==
  ASSUME TypeInv, OrderInv, MatchInv, SendRegister
  PROVE  MatchInv'
<1> DEFINE r == readying
<1>1. AgreeInv
  BY DEF MatchInv
<1>2. /\ AgreeInv' /\ Matched' = Matched /\ match_profiling' = match_profiling \cup {r}
      /\ \A d \in Expected : d.stamp < r.stamp
  BY <1>1, AgreeRegister
<1>3. UNCHANGED <<readying, sdk, profilingwork>> /\ sendwork' = "notify"
  BY DEF SendRegister, sendFrame, profilingVars
<1>4. match_profiling \subseteq Expected /\ Matched \subseteq Expected
  BY <1>1 DEF AgreeInv
<1>5. \A k \in 1..Len(sdk) : sdk[k] < r.stamp /\ \E m \in match_profiling' : m.stamp = sdk[k]
  BY <1>2, <1>4 DEF MatchInv
<1>6. \A d \in Matched : d.stamp < r.stamp
  BY <1>2, <1>4
<1>7. QED
  BY <1>2, <1>3, <1>5, <1>6 DEF MatchInv

LEMMA MatchNotify ==
  ASSUME TypeInv, OrderInv, MatchInv, SendNotify
  PROVE  MatchInv'
<1> DEFINE r == readying
           L == Len(sdk)
<1>1. /\ sendwork = "notify" /\ sendwork' = "release"
      /\ UNCHANGED <<match_profiling, order_match_profiling_id, profilingwork, senddata>>
      /\ \/ sdk' = Append(sdk, Times[r.frame])
         \/ sdk' = sdk
  BY DEF SendNotify, sendFrame, matchVars, profilingVars
<1>2. CASE sdk' = sdk
  BY <1>1, <1>2, MatchFrame
<1>3. CASE sdk' = Append(sdk, Times[r.frame])
  <2>1. r \in match_profiling /\ r \in Expected
    BY <1>1 DEF MatchInv, AgreeInv
  <2>2. r.stamp \in Nat /\ Times[r.frame] = r.stamp
    BY <2>1, ExpectedFacts DEF Old
  <2>3. /\ Len(sdk') = L + 1 /\ L \in Nat /\ sdk'[L + 1] = r.stamp
        /\ \A k \in 1..L : sdk'[k] = sdk[k]
    BY <1>3, <2>2, AppendProperties, LenProperties DEF TypeInv, RecordType
  <2>4. \A k \in 1..(L + 1) : k \in 1..L \/ k = L + 1
    BY <2>3
  <2>5. AgreeInv' /\ Matched' = Matched
    BY <1>1, AgreeFrame DEF MatchInv
  <2>6. \A k, l \in 1..(L + 1) : k < l => sdk'[k] < sdk'[l]
    <3> TAKE k, l \in 1..(L + 1)
    <3> HAVE k < l
    <3>1. k \in 1..L
      BY <2>3
    <3>2. QED BY <1>1, <2>3, <2>4, <3>1 DEF MatchInv
  <2>7. \A k \in 1..(L + 1) : \E m \in match_profiling : m.stamp = sdk'[k]
    BY <2>1, <2>3, <2>4 DEF MatchInv
  <2>8. \A d \in Matched, k \in 1..(L + 1) : d.stamp < sdk'[k]
    BY <1>1, <2>3, <2>4 DEF MatchInv
  <2>9. QED BY <1>1, <2>3, <2>5, <2>6, <2>7, <2>8 DEF MatchInv
<1>4. QED BY <1>1, <1>2, <1>3

LEMMA AgreeRecord ==
  ASSUME TypeInv, OrderInv, AgreeInv, ProfilingMatch
  PROVE  AgreeInv'
<1> DEFINE found == {m \in match_profiling : m.stamp = Head(sdk)}
<1>1. /\ profilingwork = "poll"
      /\ senddata' = IF found = {} THEN senddata ELSE CHOOSE m \in found : TRUE
      /\ match_profiling' = match_profiling \ found
      /\ profilingwork' = IF found = {} THEN "crashed" ELSE "order"
      /\ UNCHANGED order_match_profiling_id
  BY DEF ProfilingMatch
<1>2. Matched = {} /\ match_profiling = Expected /\ Expected' = Expected
  BY <1>1 DEF Matched, AgreeInv, Expected
<1>3. CASE found = {}
  <2>1. Matched' = {} /\ match_profiling' = match_profiling
    BY <1>1, <1>3 DEF Matched
  <2>2. QED BY <1>2, <2>1 DEF AgreeInv
<1>4. CASE found # {}
  <2>1. PICK m \in found : TRUE
    BY <1>4
  <2>2. m \in Expected /\ \A d \in found : d \in Expected /\ d.stamp = m.stamp
    BY <1>2, <2>1
  <2>3. found = {m}
    BY <2>1, <2>2, ExpectedFacts
  <2>4. senddata' = m /\ match_profiling' = match_profiling \ {m} /\ profilingwork' = "order"
    BY <1>1, <2>3
  <2>5. Matched' = {m}
    BY <2>4 DEF Matched
  <2>6. QED BY <1>2, <2>2, <2>4, <2>5 DEF AgreeInv
<1>5. QED BY <1>3, <1>4

LEMMA MatchRecord ==
  ASSUME TypeInv, OrderInv, MatchInv, ProfilingMatch
  PROVE  MatchInv'
<1> DEFINE found == {m \in match_profiling : m.stamp = Head(sdk)}
           L == Len(sdk)
<1>1. /\ profilingwork = "poll" /\ sdk # <<>> /\ sdk' = Tail(sdk)
      /\ senddata' = IF found = {} THEN senddata ELSE CHOOSE m \in found : TRUE
      /\ match_profiling' = match_profiling \ found
      /\ profilingwork' = IF found = {} THEN "crashed" ELSE "order"
      /\ UNCHANGED <<order_match_profiling_id, sendwork, readying>>
  BY DEF ProfilingMatch, profilingFrame, sendWorkVars
<1>2. /\ L \in Nat /\ L > 0 /\ Head(sdk) = sdk[1] /\ Len(sdk') = L - 1
      /\ \A k \in 1..(L - 1) : sdk'[k] = sdk[k + 1]
  <2>1. sdk \in Seq(Nat)
    BY DEF TypeInv, RecordType
  <2>2. QED BY <1>1, <2>1, HeadTailProperties, EmptySeq, LenProperties
<1>3. AgreeInv' /\ Matched = {} /\ match_profiling = Expected
  BY <1>1, AgreeRecord DEF Matched, MatchInv, AgreeInv
<1>4. PICK m \in match_profiling : m.stamp = sdk[1]
  BY <1>2 DEF MatchInv
<1>5. found = {m}
  <2>1. \A d \in found : d = m
    BY <1>2, <1>3, <1>4, ExpectedFacts
  <2>2. QED BY <1>2, <1>4, <2>1
<1>6. senddata' = m /\ match_profiling' = match_profiling \ {m} /\ profilingwork' = "order"
  BY <1>1, <1>5
<1> HIDE DEF found
<1>7. Matched' = {m}
  BY <1>6 DEF Matched
<1>8. \A k \in 1..(L - 1) : /\ k + 1 \in 1..L /\ 1 \in 1..L /\ 1 < k + 1
                            /\ sdk[k + 1] \in Nat /\ sdk[1] \in Nat
  BY <1>2, SdkNat
<1>9. \A k, l \in 1..(L - 1) : k < l => sdk'[k] < sdk'[l]
  BY <1>2, <1>8 DEF MatchInv
<1>10. \A k \in 1..(L - 1) : m.stamp < sdk'[k]
  BY <1>2, <1>4, <1>8 DEF MatchInv
<1>11. \A k \in 1..(L - 1) : \E d \in match_profiling' : d.stamp = sdk'[k]
  <2> TAKE k \in 1..(L - 1)
  <2>1. PICK d \in match_profiling : d.stamp = sdk[k + 1]
    BY <1>8 DEF MatchInv
  <2>2. d # m
    BY <1>2, <1>4, <1>8, <1>10, <2>1
  <2>3. QED BY <1>2, <1>6, <2>1, <2>2
<1>12. ASSUME sendwork = "notify"
       PROVE  /\ readying \in match_profiling'
              /\ \A k \in 1..(L - 1) : sdk'[k] < readying.stamp
              /\ m.stamp < readying.stamp
  <2>1. readying \in match_profiling /\ \A k \in 1..L : sdk[k] < readying.stamp
    BY <1>12 DEF MatchInv
  <2>2. m.stamp < readying.stamp
    BY <1>2, <1>4, <2>1
  <2>3. readying # m
    BY <1>3, <2>2, ExpectedFacts
  <2>4. QED BY <1>2, <1>6, <1>8, <2>1, <2>2, <2>3
<1>13. UNCHANGED <<sendwork, readying>> /\ profilingwork' # "crashed" /\ Len(sdk') = L - 1
  BY <1>1, <1>2, <1>6
<1>14. QED
  BY <1>3, <1>7, <1>9, <1>10, <1>11, <1>12, <1>13 DEF MatchInv

\* The frames before the one whose record came are lost; the later ones stay
\* expected.
LEMMA AgreeOrder ==
  ASSUME TypeInv, OrderInv, AgreeInv, ProfilingOrder
  PROVE  /\ AgreeInv' /\ Matched' = {}
         /\ Position \in 1..Len(order_match_profiling_id)
         /\ order_match_profiling_id[Position] = senddata
         /\ \A i \in 1..(Position - 1) : order_match_profiling_id[i] \in match_profiling
         /\ \A d \in match_profiling : senddata.stamp < d.stamp => d \in match_profiling'
<1> DEFINE O == order_match_profiling_id
           k == Position
           L == Len(O)
           lost == SubSeq(O, 1, k - 1)
<1>1. /\ profilingwork = "order" /\ GiveUp(lost)
      /\ O' = SubSeq(O, k + 1, L)
      /\ profilingwork' = IF k = 0 THEN "crashed" ELSE "result"
      /\ UNCHANGED <<sdk, sendwork, readying>>
  BY DEF ProfilingOrder, profilingFrame, sendWorkVars
<1>2. k \in 0..L /\ L \in Nat /\ O \in Seq(SendData)
  BY PositionFacts, OrderTypes DEF TypeInv, RecordType
<1>3. Matched = {senddata} /\ senddata \in Expected /\ match_profiling = Expected \ {senddata}
  BY <1>1 DEF Matched, AgreeInv
<1>4. k # 0 /\ O[k] = senddata
  <2>1. PICK i \in 1..L : O[i] = senddata
    BY <1>3 DEF Expected
  <2>2. k # 0 /\ O[k].id = senddata.id
    BY <2>1, PositionFacts
  <2>3. k \in 1..L
    BY <1>2, <2>2
  <2>4. O[k] \in Expected
    BY <2>3 DEF Expected
  <2>5. QED BY <1>3, <2>2, <2>4, ExpectedFacts
<1> HIDE DEF k
<1>5. k \in 1..L /\ profilingwork' = "result"
  BY <1>1, <1>2, <1>4
<1>6. /\ Len(lost) = k - 1 /\ \A i \in 1..(k - 1) : lost[i] = O[i]
      /\ Len(O') = L - k /\ \A i \in 1..(L - k) : O'[i] = O[i + k]
  BY <1>1, <1>2, <1>5, SplitFacts
<1>7. match_profiling' = {m \in match_profiling : \A i \in 1..(k - 1) : m.stamp # O[i].stamp}
  BY <1>1, <1>6 DEF GiveUp
<1> HIDE DEF lost
<1>8. /\ \A i \in 1..L : O[i].stamp \in Nat
      /\ \A i, j \in 1..L : i < j => O[i].stamp < O[j].stamp
  BY OrderTypes DEF OrderInv, Sorted, Before
<1>9. \A j \in 1..L : k < j => O[j] \in match_profiling'
  <2> TAKE j \in 1..L
  <2> HAVE k < j
  <2>1. O[k].stamp < O[j].stamp
    BY <1>5, <1>8
  <2>2. O[j] # senddata
    BY <1>4, <1>5, <1>8, <2>1
  <2>3. O[j] \in match_profiling
    BY <1>3, <2>2 DEF Expected
  <2>4. \A i \in 1..(k - 1) : i \in 1..L /\ i < j
    BY <1>2, <1>5
  <2>5. \A i \in 1..(k - 1) : O[j].stamp # O[i].stamp
    BY <1>8, <2>4
  <2>6. QED BY <1>7, <2>3, <2>5
<1>10. \A m \in match_profiling : senddata.stamp < m.stamp =>
          \E j \in 1..L : k < j /\ m = O[j]
  <2> TAKE m \in match_profiling
  <2> HAVE senddata.stamp < m.stamp
  <2>1. PICK j \in 1..L : m = O[j]
    BY <1>3 DEF Expected
  <2>2. ~(j < k) /\ j # k
    BY <1>4, <1>5, <1>8, <2>1
  <2>3. QED BY <1>2, <1>5, <2>1, <2>2
<1>11. \A m \in match_profiling' : m \in match_profiling /\ senddata.stamp < m.stamp
  <2> TAKE m \in match_profiling'
  <2>1. m \in match_profiling /\ \A i \in 1..(k - 1) : m.stamp # O[i].stamp
    BY <1>7
  <2>2. PICK j \in 1..L : m = O[j] /\ O[j] # senddata
    BY <1>3, <2>1 DEF Expected
  <2>3. j \notin 1..(k - 1) /\ j # k
    BY <1>4, <2>1, <2>2
  <2>4. k < j
    BY <1>2, <1>5, <2>3
  <2>5. QED BY <1>4, <1>5, <1>8, <2>1, <2>2, <2>4
<1>12. match_profiling' = Expected'
  <2>1. \A i \in 1..(L - k) : i + k \in 1..L /\ k < i + k
    BY <1>2, <1>5
  <2>2. Expected' \subseteq match_profiling'
    BY <1>6, <1>9, <2>1 DEF Expected
  <2>3. \A j \in 1..L : k < j => j - k \in 1..(L - k) /\ (j - k) + k = j
    BY <1>2, <1>5
  <2>4. \A m \in match_profiling' : \E i \in 1..(L - k) : m = O'[i]
    <3> TAKE m \in match_profiling'
    <3>1. PICK j \in 1..L : k < j /\ m = O[j]
      BY <1>10, <1>11
    <3>2. QED BY <1>6, <2>3, <3>1
  <2>5. match_profiling' \subseteq Expected'
    BY <1>6, <2>4 DEF Expected
  <2>6. QED BY <2>2, <2>5
<1>13. Matched' = {}
  BY <1>5 DEF Matched
<1>14. \A d \in match_profiling : senddata.stamp < d.stamp => d \in match_profiling'
  BY <1>9, <1>10
<1>15. \A i \in 1..(k - 1) : O[i] \in match_profiling
  <2> TAKE i \in 1..(k - 1)
  <2>1. i \in 1..L /\ i < k
    BY <1>2, <1>5
  <2>2. O[i] # senddata
    BY <1>4, <1>5, <1>8, <2>1
  <2>3. QED BY <1>3, <2>1, <2>2 DEF Expected
<1>16. AgreeInv'
  BY <1>12, <1>13 DEF AgreeInv
<1>17. QED BY <1>4, <1>5, <1>13, <1>14, <1>15, <1>16 DEF k

LEMMA MatchOrder ==
  ASSUME TypeInv, OrderInv, MatchInv, ProfilingOrder
  PROVE  MatchInv'
<1>1. AgreeInv
  BY DEF MatchInv
<1>2. /\ AgreeInv' /\ Matched' = {} /\ Position \in 1..Len(order_match_profiling_id)
      /\ \A d \in match_profiling : senddata.stamp < d.stamp => d \in match_profiling'
  BY <1>1, AgreeOrder
<1>3. /\ profilingwork = "order" /\ UNCHANGED <<sdk, sendwork, readying>>
      /\ profilingwork' = IF Position = 0 THEN "crashed" ELSE "result"
  BY DEF ProfilingOrder, profilingFrame, sendWorkVars
<1>4. Matched = {senddata} /\ profilingwork' # "crashed"
  BY <1>2, <1>3, OrderTypes DEF Matched
<1>5. \A i \in 1..Len(sdk) : \E m \in match_profiling' : m.stamp = sdk[i]
  BY <1>2, <1>4 DEF MatchInv
<1>6. sendwork = "notify" => readying \in match_profiling'
  BY <1>2, <1>4 DEF MatchInv
<1>7. QED BY <1>2, <1>3, <1>4, <1>5, <1>6 DEF MatchInv

LEMMA AgreeSweep ==
  ASSUME TypeInv, OrderInv, AgreeInv, ProfilingSweep
  PROVE  AgreeInv' /\ Matched' = {} /\ match_profiling = Expected
<1> DEFINE O == order_match_profiling_id
           n == Len(O)
           h == n \div 2
           lost == [i \in 1..(n - h) |-> O[2 * i - 1]]
<1>1. /\ profilingwork = "poll" /\ GiveUp(lost)
      /\ O' = [i \in 1..h |-> O[2 * i]]
      /\ profilingwork' \in {"stuck", "poll"}
  BY DEF ProfilingSweep
<1>2. n \in Nat /\ h \in Nat /\ 2 * h <= n /\ n < 2 * h + 2 /\ O \in Seq(SendData)
  BY OrderTypes DEF TypeInv, RecordType
<1>3. /\ Len(lost) = n - h /\ \A i \in 1..(n - h) : lost[i] = O[2 * i - 1]
      /\ Len(O') = h /\ \A i \in 1..h : O'[i] = O[2 * i]
  BY <1>1, <1>2, SweepFacts
<1>4. match_profiling' = {m \in match_profiling : \A i \in 1..(n - h) : m.stamp # O[2 * i - 1].stamp}
  BY <1>1, <1>3 DEF GiveUp
<1> HIDE DEF lost, h
<1>5. Matched = {} /\ Matched' = {} /\ match_profiling = Expected
  BY <1>1 DEF Matched, AgreeInv
<1>6. /\ \A i \in 1..n : O[i].stamp \in Nat
      /\ \A i, j \in 1..n : O[i].stamp = O[j].stamp => i = j
  <2>1. \A i, j \in 1..n : i = j \/ i < j \/ j < i
    BY <1>2
  <2>2. \A i \in 1..n : O[i].stamp \in Nat
    BY OrderTypes
  <2>3. \A i, j \in 1..n : i < j => O[i].stamp < O[j].stamp
    BY DEF OrderInv, Sorted, Before
  <2>4. QED BY <2>1, <2>2, <2>3
<1>7. \A i \in 1..h : O'[i] \in match_profiling'
  <2> TAKE i \in 1..h
  <2>1. 2 * i \in 1..n
    BY <1>2
  <2>2. \A j \in 1..(n - h) : 2 * j - 1 \in 1..n /\ 2 * j - 1 # 2 * i
    BY <1>2
  <2>3. \A j \in 1..(n - h) : O[2 * i].stamp # O[2 * j - 1].stamp
    BY <1>6, <2>1, <2>2
  <2>4. O[2 * i] \in match_profiling
    BY <1>5, <2>1 DEF Expected
  <2>5. QED BY <1>3, <1>4, <2>3, <2>4
<1>8. \A m \in match_profiling' : \E i \in 1..h : m = O'[i]
  <2> TAKE m \in match_profiling'
  <2>1. m \in Expected /\ \A i \in 1..(n - h) : m.stamp # O[2 * i - 1].stamp
    BY <1>4, <1>5
  <2>2. PICK j \in 1..n : m = O[j]
    BY <2>1 DEF Expected
  <2>3. \/ \E i \in 1..h : j = 2 * i
        \/ \E i \in 1..(n - h) : j = 2 * i - 1
    <3>1. j \in Nat /\ 1 <= j /\ j <= n
      BY <1>2
    <3>2. j = 2 * (j \div 2) \/ j = 2 * (j \div 2) + 1
      BY <3>1
    <3>3. j \div 2 \in Nat
      BY <3>1
    <3>4. CASE j = 2 * (j \div 2)
      <4>1. j \div 2 \in 1..h
        BY <1>2, <3>1, <3>3, <3>4
      <4>2. QED BY <3>4, <4>1
    <3>5. CASE j = 2 * (j \div 2) + 1
      <4>1. j \div 2 + 1 \in 1..(n - h) /\ j = 2 * (j \div 2 + 1) - 1
        BY <1>2, <3>1, <3>3, <3>5
      <4>2. QED BY <4>1
    <3>6. QED BY <3>2, <3>4, <3>5
  <2>4. QED BY <1>3, <2>1, <2>2, <2>3
<1>9. match_profiling' = Expected'
  BY <1>3, <1>7, <1>8 DEF Expected
<1>10. QED BY <1>5, <1>9 DEF AgreeInv

LEMMA MatchSweep ==
  ASSUME TypeInv, OrderInv, MatchInv, ~mode.slow, ProfilingSweep
  PROVE  MatchInv'
<1>1. AgreeInv' /\ Matched' = {}
  BY AgreeSweep DEF MatchInv
<1>2. /\ sdk = <<>> /\ sendwork # "notify" /\ UNCHANGED <<sdk, sendwork>>
      /\ profilingwork' \in {"stuck", "poll"}
  BY DEF ProfilingSweep, profilingFrame, sendWorkVars
<1>3. Len(sdk') = 0 /\ sendwork' # "notify" /\ profilingwork' # "crashed"
  BY <1>2, EmptySeq
<1>4. \A i \in 1..Len(sdk') : FALSE
  BY <1>3
<1>5. QED BY <1>1, <1>3, <1>4 DEF MatchInv

LEMMA MatchStep ==
  ASSUME RecordModes, TypeInv, SrcInv, WorkInv, OrderInv, MatchInv, mode.profiling, [Next]_vars
  PROVE  MatchInv'
<1> DEFINE matchFrame == <<match_profiling, order_match_profiling_id, sdk, profilingwork,
                           senddata, sendwork, readying>>
<1>0. CASE UNCHANGED matchFrame
  BY <1>0, MatchFrame
<1>1. CASE SendRegister
  BY <1>1, MatchRegister
<1>2. CASE SendNotify
  BY <1>2, MatchNotify
<1>3. CASE ProfilingMatch
  BY <1>3, MatchRecord
<1>4. CASE ProfilingOrder
  BY <1>4, MatchOrder
<1>5. CASE ProfilingSweep
  BY <1>5, MatchSweep DEF RecordModes, TypeInv, WorkType
<1> USE DEF matchVars, sendWorkVars, profilingVars
<1>6. CASE SendTake \/ SendRelease \/ SendResult
  <2>1. /\ UNCHANGED <<match_profiling, order_match_profiling_id, sdk, profilingwork, senddata>>
        /\ sendwork' # "notify"
    BY <1>6 DEF SendTake, SendRelease, SendResult, sendFrame
  <2>2. QED BY <2>1, MatchFrame
<1>7. CASE ProfilingProduce \/ ProfilingCount
  <2>1. /\ UNCHANGED <<match_profiling, order_match_profiling_id, sdk, sendwork, readying>>
        /\ profilingwork # "order" /\ profilingwork' \notin {"order", "crashed"}
    BY <1>7 DEF ProfilingProduce, ProfilingCount, profilingFrame
  <2>2. QED BY <2>1, MatchFrame
<1>8. CASE Stopping
  <2>1. /\ UNCHANGED <<match_profiling, order_match_profiling_id, sdk, senddata, readying>>
        /\ UNCHANGED sendwork \/ sendwork' = "ended"
        /\ \/ UNCHANGED profilingwork
           \/ profilingwork # "order" /\ profilingwork' = "ended"
    BY <1>8 DEF Stopping, SendExit, RecvExit, ProfilingExit, stopFrame
  <2>2. QED BY <2>1, MatchFrame
<1>9. CASE LinkDown \/ SendPic \/ RecvResult \/ Report
  <2>1. UNCHANGED recordVars
    BY <1>9, ActionFrames DEF SendPic, RecvResult, Report
  <2>2. UNCHANGED <<sendwork, readying>>
    BY <1>9, ActionFrames DEF SendPic, RecvResult, Report, Stop, StopAgent, stopFrame, workVars
  <2>3. QED BY <1>0, <2>1, <2>2 DEF recordVars
<1>10. CASE Produce \/ RecvWork
  BY <1>0, <1>10 DEF Produce, ProduceSecond, ProduceNothing, produceFrame, RecvWork, RecvTake,
     RecvCount, recvFrame
<1>11. CASE UNCHANGED vars
  BY <1>0, <1>11 DEF vars, agentVars
<1>12. QED
  BY <1>1, <1>2, <1>3, <1>4, <1>5, <1>6, <1>7, <1>8, <1>9, <1>10, <1>11
     DEF Next, AgentStep, AgentNext, SendWork, ProfilingWork

LEMMA AgreeStep ==
  ASSUME TypeInv, OrderInv, AgreeInv, [Next]_vars
  PROVE  AgreeInv'
<1> DEFINE agreeFrame == <<match_profiling, order_match_profiling_id, profilingwork, senddata>>
<1>0. CASE UNCHANGED agreeFrame
  BY <1>0, AgreeFrame
<1>1. CASE SendRegister
  BY <1>1, AgreeRegister
<1>2. CASE ProfilingMatch
  BY <1>2, AgreeRecord
<1>3. CASE ProfilingOrder
  BY <1>3, AgreeOrder
<1>4. CASE ProfilingSweep
  BY <1>4, AgreeSweep
<1> USE DEF matchVars, profilingVars
<1>5. CASE SendTake \/ SendNotify \/ SendRelease \/ SendResult
  BY <1>0, <1>5 DEF SendTake, SendNotify, SendRelease, SendResult, sendFrame
<1>6. CASE ProfilingProduce \/ ProfilingCount
  <2>1. /\ UNCHANGED <<match_profiling, order_match_profiling_id>>
        /\ profilingwork # "order" /\ profilingwork' # "order"
    BY <1>6 DEF ProfilingProduce, ProfilingCount
  <2>2. QED BY <2>1, AgreeFrame
<1>7. CASE Stopping
  <2>1. /\ UNCHANGED <<match_profiling, order_match_profiling_id, senddata>>
        /\ \/ UNCHANGED profilingwork
           \/ profilingwork # "order" /\ profilingwork' = "ended"
    BY <1>7 DEF Stopping, SendExit, RecvExit, ProfilingExit, stopFrame
  <2>2. QED BY <2>1, AgreeFrame
<1>8. CASE LinkDown \/ SendPic \/ RecvResult \/ Report
  <2>1. UNCHANGED recordVars
    BY <1>8, ActionFrames DEF SendPic, RecvResult, Report
  <2>2. QED BY <1>0, <2>1 DEF recordVars
<1>9. CASE Produce \/ RecvWork
  BY <1>0, <1>9 DEF Produce, ProduceSecond, ProduceNothing, produceFrame, RecvWork, RecvTake,
     RecvCount, recvFrame
<1>10. CASE UNCHANGED vars
  BY <1>0, <1>10 DEF vars, agentVars
<1>11. QED
  BY <1>1, <1>2, <1>3, <1>4, <1>5, <1>6, <1>7, <1>8, <1>9, <1>10
     DEF Next, AgentStep, AgentNext, SendWork, ProfilingWork

LEMMA ModeStays == [Next]_vars => mode' = mode
<1> SUFFICES ASSUME [Next]_vars PROVE mode' = mode
  OBVIOUS
<1>1. CASE LinkDown \/ SendPic \/ RecvResult \/ Report
  BY <1>1, ActionFrames DEF SendPic, RecvResult, Report, Stop, StopAgent, stopFrame, workVars
<1>2. CASE Produce \/ SendWork
  BY <1>2 DEF Produce, ProduceSecond, ProduceNothing, produceFrame, SendWork, SendTake,
     SendRegister, SendNotify, SendRelease, SendResult, sendFrame
<1>3. CASE RecvWork \/ ProfilingWork \/ Stopping
  BY <1>3 DEF RecvWork, RecvTake, RecvCount, recvFrame, ProfilingWork, ProfilingMatch,
     ProfilingOrder, ProfilingProduce, ProfilingCount, ProfilingSweep, profilingFrame, Stopping,
     SendExit, RecvExit, ProfilingExit, stopFrame
<1>4. CASE UNCHANGED vars
  BY <1>4 DEF vars, agentVars
<1>5. QED BY <1>1, <1>2, <1>3, <1>4 DEF Next, AgentStep, AgentNext

\* With records wanted at the pictures' own rate and coming within a minute,
\* each matches a frame that is expected, whichever frames the SDK loses and
\* whenever the connection breaks: ProfilingWork never writes to address 0.
THEOREM RecordsFound ==
  ASSUME RecordModes
  PROVE  Spec => []RecordsMatch
<1> DEFINE Inv == TypeInv /\ SrcInv /\ WorkInv /\ RecordInv
<1>1. Init => Inv
  <2> SUFFICES ASSUME Init PROVE WorkInv /\ OrderInv /\ MatchInv
    BY InitTypes, InitSrc DEF RecordInv
  <2>1. /\ send_list = <<>> /\ order_match_profiling_id = <<>> /\ sdk = <<>>
        /\ match_profiling = {} /\ sendwork = "idle"
        /\ profilingwork = IF mode.profiling THEN "poll" ELSE "ended"
    BY DEF Init, AgentInit
  <2>2. Len(send_list) = 0 /\ Len(order_match_profiling_id) = 0 /\ Len(sdk) = 0
    BY <2>1, EmptySeq
  <2>3. /\ \A i \in 1..Len(send_list) : FALSE
        /\ \A i \in 1..Len(order_match_profiling_id) : FALSE
        /\ \A i \in 1..Len(sdk) : FALSE
    BY <2>2
  <2>4. Expected = {} /\ Matched = {}
    BY <2>1, <2>3 DEF Expected, Matched
  <2>5. OrderInv
    BY <2>1, <2>3 DEF OrderInv, Sorted
  <2>6. MatchInv
    BY <2>1, <2>3, <2>4 DEF MatchInv, AgreeInv
  <2>7. QED BY <2>1, <2>5, <2>6 DEF WorkInv
<1>2. Inv /\ [Next]_vars => Inv'
  <2> SUFFICES ASSUME Inv, [Next]_vars PROVE Inv'
    OBVIOUS
  <2>1. mode.profiling => OrderInv' /\ MatchInv'
    BY OrderStep, MatchStep DEF RecordInv, RecordModes, OwnRate
  <2>2. QED BY <2>1, ModeStays, TypeStep, SrcStep, WorkStep DEF RecordInv
<1>3. Inv => RecordsMatch
  <2>1. TypeInv => mode.profiling \in BOOLEAN
    BY ModeFacts DEF TypeInv, WorkType
  <2>2. QED BY <2>1 DEF WorkInv, RecordInv, MatchInv, RecordsMatch
<1> HIDE DEF Inv
<1>4. QED BY <1>1, <1>2, <1>3, PTL DEF Spec

-----------------------------------------------------------------------------
(* What has been reported when the test is over.                           *)

\* The ids of the frames, or results, of S.
Ids(S) == {d.id : d \in S}

\* Which members of a sequence of results are hand results?
HandsOf(s) == {i \in 1..Len(s) : s[i].kind = "hand"}

\* The ids of the frames that have a result in it.
FramesOf(s) == Ids({r \in Range(s) : r.kind = "profiling"})

\* The frames without a result that a thread has or expects a record of.
HeldFrames ==
    IF mode.profiling
    THEN Expected \cup (IF sendwork = "register" THEN {readying} ELSE {})
                  \cup (IF profilingwork = "result" THEN {senddata} ELSE {})
    ELSE IF sendwork \in {"notify", "release", "result"} THEN {readying} ELSE {}

\* Each frame of the stream is to be sent, or is held, or has a result that is
\* queued or that the client has.
FrameInv ==
    profiles \cup FramesOf(agent_result) \cup Ids(Range(send_list)) \cup Ids(HeldFrames)
        = 0..(max_send_fn - 1)

\* Each query is to be made, or has a result that is queued or that the client
\* has.
HandInv == hands + Cardinality(HandsOf(agent_result)) + recv_list = max_recv_fn

\* The client has everything when the agent says that the test is over, and
\* the main thread looks at it before it does so too.
OverInv ==
    /\ recvresult = "over" => /\ finish_add_all_datas_2
                              /\ profiles = 0..(max_send_fn - 1)
                              /\ hands = max_recv_fn
    /\ main = "over" => recvresult = "over" /\ ~results

LEMMA RangeFacts ==
  ASSUME NEW S, NEW s \in Seq(S)
  PROVE  /\ Range(s) \subseteq S
         /\ \A x \in S : Range(Append(s, x)) = Range(s) \cup {x}
         /\ \A t \in Seq(S) : Range(s \o t) = Range(s) \cup Range(t)
         /\ s # <<>> => Range(s) = {Head(s)} \cup Range(Tail(s))
<1> DEFINE n == Len(s)
<1>1. n \in Nat /\ Range(s) \subseteq S /\ Range(s) = {s[i] : i \in 1..n}
  BY LenProperties, RangeOfSeq, RangeEquality
<1>2. ASSUME NEW x \in S PROVE Range(Append(s, x)) = Range(s) \cup {x}
  <2> DEFINE t == Append(s, x)
  <2>1. t \in Seq(S) /\ Len(t) = n + 1 /\ t[n + 1] = x /\ \A i \in 1..n : t[i] = s[i]
    BY AppendProperties
  <2> HIDE DEF t
  <2>2. Range(t) = {t[i] : i \in 1..(n + 1)}
    BY <2>1, RangeEquality
  <2>3. \A i \in 1..(n + 1) : i \in 1..n \/ i = n + 1
    BY <1>1
  <2>4. n + 1 \in 1..(n + 1) /\ \A i \in 1..n : i \in 1..(n + 1)
    BY <1>1
  <2>5. Range(t) = Range(s) \cup {x}
    BY <1>1, <2>1, <2>2, <2>3, <2>4
  <2>6. QED BY <2>5 DEF t
<1>3. \A t \in Seq(S) : Range(s \o t) = Range(s) \cup Range(t)
  BY RangeConcatenation
<1>4. ASSUME s # <<>> PROVE Range(s) = {Head(s)} \cup Range(Tail(s))
  <2> DEFINE t == Tail(s)
  <2>1. n > 0
    BY <1>1, <1>4, EmptySeq
  <2>2. /\ Head(s) = s[1] /\ Len(t) = n - 1 /\ \A i \in 1..(n - 1) : t[i] = s[i + 1]
        /\ t \in Seq(S)
    BY <1>4, HeadTailProperties
  <2> HIDE DEF t
  <2>3. Range(t) = {t[i] : i \in 1..(n - 1)}
    BY <2>2, RangeEquality
  <2>4. 1 \in 1..n /\ \A i \in 1..(n - 1) : i + 1 \in 1..n
    BY <1>1, <2>1
  <2>5. Range(s) \subseteq {s[1]} \cup Range(t)
    <3> SUFFICES ASSUME NEW i \in 1..n, i # 1 PROVE s[i] \in Range(t)
      BY <1>1
    <3>1. i - 1 \in 1..(n - 1) /\ (i - 1) + 1 = i
      BY <1>1
    <3>2. t[i - 1] = s[i]
      BY <2>2, <3>1
    <3>3. QED BY <2>3, <3>1, <3>2
  <2>6. {s[1]} \cup Range(t) \subseteq Range(s)
    BY <1>1, <2>2, <2>3, <2>4
  <2>7. QED BY <2>2, <2>5, <2>6 DEF t
<1>5. QED BY <1>1, <1>2, <1>3, <1>4

\* Taking a result off the queue, and queueing one or several.
LEMMA HandsFacts ==
  ASSUME NEW s \in Seq(Result)
  PROVE  /\ IsFiniteSet(HandsOf(s)) /\ Cardinality(HandsOf(s)) \in Nat
         /\ \A x \in Result : Cardinality(HandsOf(Append(s, x))) =
               Cardinality(HandsOf(s)) + (IF x.kind = "hand" THEN 1 ELSE 0)
         /\ \A t \in Seq(Result) : HandsOf(t) = {} => HandsOf(s \o t) = HandsOf(s)
         /\ s # <<>> => Cardinality(HandsOf(s)) =
               Cardinality(HandsOf(Tail(s))) + (IF Head(s).kind = "hand" THEN 1 ELSE 0)
<1> DEFINE n == Len(s)
           H == HandsOf(s)
<1>1. n \in Nat
  BY LenProperties
<1>2. ASSUME NEW t \in Seq(Result) PROVE IsFiniteSet(HandsOf(t)) /\ Cardinality(HandsOf(t)) \in Nat
  <2>1. IsFiniteSet(1..Len(t))
    BY LenProperties, FS_Interval
  <2>2. HandsOf(t) \subseteq 1..Len(t)
    BY DEF HandsOf
  <2>3. QED BY <2>1, <2>2, FS_Subset, FS_CardinalityType
<1>3. ASSUME NEW x \in Result
      PROVE  Cardinality(HandsOf(Append(s, x))) =
                Cardinality(H) + (IF x.kind = "hand" THEN 1 ELSE 0)
  <2> DEFINE t == Append(s, x)
  <2>1. Len(t) = n + 1 /\ t[n + 1] = x /\ \A i \in 1..n : t[i] = s[i]
    BY AppendProperties
  <2> HIDE DEF t
  <2>2. \A i : i \in 1..(n + 1) <=> i \in 1..n \/ i = n + 1
    BY <1>1
  <2>3. n + 1 \notin 1..n
    BY <1>1
  <2>4. CASE x.kind = "hand"
    <3>1. HandsOf(t) = H \cup {n + 1} /\ n + 1 \notin H
      BY <2>1, <2>2, <2>3, <2>4 DEF HandsOf
    <3>2. Cardinality(H \cup {n + 1}) = Cardinality(H) + 1
      BY <1>2, <3>1, FS_AddElement
    <3>3. QED BY <2>4, <3>1, <3>2 DEF t
  <2>5. CASE x.kind # "hand"
    <3>1. HandsOf(t) = H
      BY <2>1, <2>2, <2>5 DEF HandsOf
    <3>2. QED BY <1>2, <2>5, <3>1 DEF t
  <2>6. QED BY <2>4, <2>5
<1>4. ASSUME NEW t \in Seq(Result), HandsOf(t) = {} PROVE HandsOf(s \o t) = H
  <2> DEFINE u == s \o t
             m == Len(t)
  <2>1. /\ m \in Nat /\ Len(u) = n + m
        /\ \A i \in 1..(n + m) : u[i] = IF i <= n THEN s[i] ELSE t[i - n]
    BY LenProperties, ConcatProperties
  <2> HIDE DEF u, m
  <2>2. \A i \in 1..(n + m) : (i \in 1..n /\ u[i] = s[i]) \/ (i - n \in 1..m /\ u[i] = t[i - n])
    BY <1>1, <2>1
  <2>3. \A i \in 1..n : i \in 1..(n + m) /\ u[i] = s[i]
    BY <1>1, <2>1
  <2>4. \A i \in 1..m : t[i].kind # "hand"
    BY <1>4 DEF HandsOf, m
  <2>5. QED BY <2>1, <2>2, <2>3, <2>4 DEF HandsOf, u
<1>5. ASSUME s # <<>>
      PROVE  Cardinality(H) = Cardinality(HandsOf(Tail(s)))
                                 + (IF Head(s).kind = "hand" THEN 1 ELSE 0)
  <2> DEFINE t == Tail(s)
             K == HandsOf(t)
             f == [i \in K |-> i + 1]
             J == H \ {1}
  <2>1. n > 0
    BY <1>1, <1>5, EmptySeq
  <2>2. /\ Head(s) = s[1] /\ Len(t) = n - 1 /\ \A i \in 1..(n - 1) : t[i] = s[i + 1]
        /\ t \in Seq(Result)
    BY <1>5, HeadTailProperties
  <2> HIDE DEF t
  <2>3. \A i : i \in K <=> i \in 1..(n - 1) /\ s[i + 1].kind = "hand"
    BY <2>2 DEF HandsOf
  <2>4. \A j : j \in J <=> j \in 1..n /\ j # 1 /\ s[j].kind = "hand"
    BY DEF HandsOf
  <2>5. \A i \in K : i \in Nat /\ i + 1 \in J
    <3> TAKE i \in K
    <3>1. i \in 1..(n - 1) /\ s[i + 1].kind = "hand"
      BY <2>3
    <3>2. i \in Nat /\ i + 1 \in 1..n /\ i + 1 # 1
      BY <1>1, <3>1
    <3>3. QED BY <2>4, <3>1, <3>2
  <2>6. \A j \in J : j - 1 \in K /\ (j - 1) + 1 = j
    <3> TAKE j \in J
    <3>1. j \in 1..n /\ j # 1 /\ s[j].kind = "hand"
      BY <2>4
    <3>2. j - 1 \in 1..(n - 1) /\ (j - 1) + 1 = j
      BY <1>1, <3>1
    <3>3. QED BY <2>3, <3>1, <3>2
  <2> HIDE DEF K, J
  <2>7. f \in Bijection(K, J)
    <3>1. f \in Injection(K, J)
      BY <2>5 DEF Injection, IsInjective
    <3>2. f \in Surjection(K, J)
      BY <2>5, <2>6 DEF Surjection
    <3>3. QED BY <3>1, <3>2 DEF Bijection
  <2>8. IsFiniteSet(K) /\ Cardinality(K) \in Nat
    BY <1>2, <2>2 DEF K
  <2>9. Cardinality(J) = Cardinality(K)
    BY <2>7, <2>8, FS_Bijection DEF ExistsBijection
  <2>10. IsFiniteSet(H) /\ Cardinality(H) \in Nat
    BY <1>2
  <2>11. CASE s[1].kind = "hand"
    <3>1. 1 \in H
      BY <1>1, <2>1, <2>11 DEF HandsOf
    <3>2. Cardinality(J) = Cardinality(H) - 1
      BY <2>10, <3>1, FS_RemoveElement DEF J
    <3>3. QED BY <2>2, <2>8, <2>9, <2>10, <2>11, <3>2 DEF K, t
  <2>12. CASE s[1].kind # "hand"
    <3>1. J = H
      BY <2>12 DEF J, HandsOf
    <3>2. QED BY <2>2, <2>8, <2>9, <2>12, <3>1 DEF K, t
  <2>13. QED BY <2>11, <2>12
<1>6. QED BY <1>2, <1>3, <1>4, <1>5

\* The results a thread queues, and the one the client takes.
LEMMA FramesFacts ==
  ASSUME NEW s \in Seq(Result)
  PROVE  /\ \A d \in SendData \cup {NoData} :
               FramesOf(Append(s, ProfilingResult(d))) = FramesOf(s) \cup {d.id}
         /\ FramesOf(Append(s, HandResult)) = FramesOf(s)
         /\ \A t \in Seq(Result) : FramesOf(s \o t) = FramesOf(s) \cup FramesOf(t)
         /\ s # <<>> => FramesOf(s) =
               FramesOf(Tail(s)) \cup (IF Head(s).kind = "profiling" THEN {Head(s).id} ELSE {})
<1>1. ASSUME NEW d \in SendData \cup {NoData}
      PROVE  FramesOf(Append(s, ProfilingResult(d))) = FramesOf(s) \cup {d.id}
  <2> DEFINE r == ProfilingResult(d)
  <2>1. r.kind = "profiling" /\ r.id = d.id
    BY DEF ProfilingResult
  <2>2. Range(Append(s, r)) = Range(s) \cup {r}
    BY ResultType, RangeFacts
  <2> HIDE DEF r
  <2>3. {x \in Range(s) \cup {r} : x.kind = "profiling"}
           = {x \in Range(s) : x.kind = "profiling"} \cup {r}
    BY <2>1
  <2>4. FramesOf(Append(s, r)) = FramesOf(s) \cup {r.id}
    BY <2>2, <2>3 DEF FramesOf, Ids
  <2>5. QED BY <2>1, <2>4 DEF r
<1>2. FramesOf(Append(s, HandResult)) = FramesOf(s)
  <2>1. Range(Append(s, HandResult)) = Range(s) \cup {HandResult}
    BY ResultType, RangeFacts
  <2>2. HandResult.kind # "profiling"
    BY DEF HandResult
  <2>3. QED BY <2>1, <2>2 DEF FramesOf
<1>3. ASSUME NEW t \in Seq(Result) PROVE FramesOf(s \o t) = FramesOf(s) \cup FramesOf(t)
  <2>1. Range(s \o t) = Range(s) \cup Range(t)
    BY RangeFacts
  <2>2. QED BY <2>1 DEF FramesOf, Ids
<1>4. ASSUME s # <<>>
      PROVE  FramesOf(s) = FramesOf(Tail(s))
                \cup (IF Head(s).kind = "profiling" THEN {Head(s).id} ELSE {})
  <2>1. Range(s) = {Head(s)} \cup Range(Tail(s))
    BY <1>4, RangeFacts
  <2>2. QED BY <2>1 DEF FramesOf, Ids
<1>5. QED BY <1>1, <1>2, <1>3, <1>4

\* A result for each member of a sequence of frames.
LEMMA ResultsOf ==
  ASSUME NEW n \in Nat, NEW e \in [1..n -> SendData], NEW s \in Seq(Result)
  PROVE  LET f == [i \in 1..n |-> ProfilingResult(e[i])] IN
         /\ FramesOf(s \o f) = FramesOf(s) \cup {e[i].id : i \in 1..n}
         /\ HandsOf(s \o f) = HandsOf(s)
<1> DEFINE f == [i \in 1..n |-> ProfilingResult(e[i])]
<1>1. f \in [1..n -> Result]
  BY ResultType
<1>2. f \in Seq(Result) /\ Len(f) = n
  BY <1>1, SeqOfFunction
<1>3. \A i \in 1..n : f[i].kind = "profiling" /\ f[i].id = e[i].id
  BY DEF ProfilingResult
<1> HIDE DEF f
<1>4. Range(f) = {f[i] : i \in 1..n}
  BY <1>2, RangeEquality
<1>5. FramesOf(f) = {e[i].id : i \in 1..n}
  BY <1>3, <1>4 DEF FramesOf, Ids
<1>6. HandsOf(f) = {}
  BY <1>2, <1>3 DEF HandsOf
<1>7. FramesOf(s \o f) = FramesOf(s) \cup {e[i].id : i \in 1..n}
  BY <1>2, <1>5, FramesFacts
<1>8. HandsOf(s \o f) = HandsOf(s)
  BY <1>2, <1>6, HandsFacts
<1>9. QED BY <1>7, <1>8 DEF f

\* A second is queued under the next ids.
LEMMA SimulatedIds ==
  ASSUME TypeInv, SecondReady
  PROVE  LET s == Simulated(FirstSecond) IN
         Ids(Range(s)) = max_send_fn..(max_send_fn + Len(s) - 1)
<1> DEFINE n == FirstSecond
           s == Simulated(n)
           l == Len(s)
<1>1. /\ s \in Seq(SendData) /\ l = IF mode.send = 0 THEN n ELSE mode.send
      /\ mode.send = 0 => \A i \in 1..n :
            s[i] = [id |-> max_send_fn + i - 1, frame |-> m_newsrc_datas[i],
                    stamp |-> Times[m_newsrc_datas[i]]]
  BY SimulatedFacts
<1>2. max_send_fn \in Nat /\ l \in Nat /\ Range(s) = {s[i] : i \in 1..l}
  BY <1>1, FlowTypes, LenProperties, RangeEquality
<1>3. \A i \in 1..l : s[i].id = max_send_fn + i - 1
  <2>1. CASE mode.send = 0
    BY <1>1, <2>1
  <2>2. CASE mode.send # 0
    <3>1. l = mode.send
      BY <1>1, <2>2
    <3>2. \A i \in 1..mode.send : s[i].id = max_send_fn + i - 1
      BY <2>2 DEF Simulated
    <3>3. QED BY <3>1, <3>2
  <2>3. QED BY <2>1, <2>2
<1> HIDE DEF n, s, l
<1>4. Ids(Range(s)) = {s[i].id : i \in 1..l}
  BY <1>2 DEF Ids
<1>5. \A x \in max_send_fn..(max_send_fn + l - 1) :
         x - max_send_fn + 1 \in 1..l /\ x = max_send_fn + (x - max_send_fn + 1) - 1
  BY <1>2
<1>6. \A i \in 1..l : max_send_fn + i - 1 \in max_send_fn..(max_send_fn + l - 1)
  BY <1>2
<1>7. Ids(Range(s)) = max_send_fn..(max_send_fn + l - 1)
  <2>1. \A x \in max_send_fn..(max_send_fn + l - 1) : \E i \in 1..l : x = s[i].id
    BY <1>3, <1>5
  <2>2. \A i \in 1..l : s[i].id \in max_send_fn..(max_send_fn + l - 1)
    BY <1>3, <1>6
  <2>3. QED BY <1>4, <2>1, <2>2
<1>8. QED BY <1>7 DEF n, s, l

\* A frame that is given up has its own result.
LEMMA GiveUpResults ==
  ASSUME TypeInv, OrderInv, AgreeInv, NEW lost \in Seq(SendData), GiveUp(lost),
         \A i \in 1..Len(lost) : lost[i] \in match_profiling
  PROVE  /\ FramesOf(agent_result') =
               FramesOf(agent_result) \cup {lost[i].id : i \in 1..Len(lost)}
         /\ HandsOf(agent_result') = HandsOf(agent_result)
<1> DEFINE n == Len(lost)
<1>1. n \in Nat /\ agent_result \in Seq(Result) /\ lost \in [1..n -> SendData]
  BY LenProperties DEF TypeInv, QueueType
<1>2. \A i \in 1..n : LostResult(lost[i]) = ProfilingResult(lost[i])
  <2> TAKE i \in 1..n
  <2> DEFINE e == lost[i]
             found == {m \in match_profiling : m.stamp = e.stamp}
  <2>1. e \in match_profiling /\ match_profiling \subseteq Expected
    BY DEF AgreeInv
  <2>2. found = {e}
    BY <2>1, ExpectedFacts
  <2>3. QED BY <2>2 DEF LostResult
<1>3. agent_result' = agent_result \o [i \in 1..n |-> ProfilingResult(lost[i])]
  BY <1>2 DEF GiveUp
<1> HIDE DEF n
<1>4. QED BY <1>1, <1>3, ResultsOf DEF n

\* The frames before the one whose record came have a result, and it is the
\* one that gets one next.
LEMMA OrderResults ==
  ASSUME TypeInv, OrderInv, AgreeInv, ProfilingOrder
  PROVE  /\ FramesOf(agent_result') \cup Ids(Expected') \cup {senddata.id}
               = FramesOf(agent_result) \cup Ids(Expected)
         /\ HandsOf(agent_result') = HandsOf(agent_result)
         /\ profilingwork = "order" /\ profilingwork' = "result" /\ senddata' = senddata
<1> DEFINE O == order_match_profiling_id
           k == Position
           L == Len(O)
           lost == SubSeq(O, 1, k - 1)
<1>1. /\ profilingwork = "order" /\ GiveUp(lost) /\ O' = SubSeq(O, k + 1, L)
      /\ profilingwork' = IF k = 0 THEN "crashed" ELSE "result"
      /\ senddata' = senddata
  BY DEF ProfilingOrder
<1>2. /\ k \in 1..L /\ O[k] = senddata
      /\ \A i \in 1..(k - 1) : O[i] \in match_profiling
  BY AgreeOrder
<1>3. L \in Nat /\ O \in Seq(SendData)
  BY OrderTypes DEF TypeInv, RecordType
<1>4. k \in 0..L /\ k # 0 /\ k \in Nat
  BY <1>2, <1>3
<1> HIDE DEF k
<1>5. /\ lost \in Seq(SendData) /\ Len(lost) = k - 1 /\ \A i \in 1..(k - 1) : lost[i] = O[i]
      /\ Len(O') = L - k /\ \A i \in 1..(L - k) : O'[i] = O[i + k]
  BY <1>1, <1>3, <1>4, SplitFacts
<1> HIDE DEF lost
<1>6. /\ FramesOf(agent_result') = FramesOf(agent_result) \cup {lost[i].id : i \in 1..(k - 1)}
      /\ HandsOf(agent_result') = HandsOf(agent_result)
  BY <1>1, <1>2, <1>5, GiveUpResults
<1>7. {lost[i].id : i \in 1..(k - 1)} = {O[i].id : i \in 1..(k - 1)}
  BY <1>5
<1>8. Ids(Expected) = {O[i].id : i \in 1..L}
  BY DEF Ids, Expected
<1>9. Ids(Expected') = {O[i + k].id : i \in 1..(L - k)}
  BY <1>5 DEF Ids, Expected
<1>10. {O[i].id : i \in 1..L}
          = {O[i].id : i \in 1..(k - 1)} \cup {O[k].id} \cup {O[i + k].id : i \in 1..(L - k)}
  <2>1. /\ \A i \in 1..L : i \in 1..(k - 1) \/ i = k \/ (i - k \in 1..(L - k) /\ (i - k) + k = i)
        /\ \A i \in 1..(k - 1) : i \in 1..L
        /\ \A i \in 1..(L - k) : i + k \in 1..L
    BY <1>2, <1>3, <1>4
  <2>2. QED BY <1>2, <2>1
<1>11. FramesOf(agent_result') \cup Ids(Expected') \cup {senddata.id}
          = FramesOf(agent_result) \cup Ids(Expected)
  BY <1>2, <1>6, <1>7, <1>8, <1>9, <1>10
<1>12. QED BY <1>1, <1>4, <1>6, <1>11

\* Every other expected frame has a result; the others stay expected.
LEMMA SweepResults ==
  ASSUME TypeInv, OrderInv, AgreeInv, ProfilingSweep
  PROVE  /\ FramesOf(agent_result') \cup Ids(Expected') = FramesOf(agent_result) \cup Ids(Expected)
         /\ HandsOf(agent_result') = HandsOf(agent_result)
         /\ profilingwork = "poll" /\ profilingwork' \in {"poll", "stuck"}
<1> DEFINE O == order_match_profiling_id
           n == Len(O)
           h == n \div 2
           lost == [i \in 1..(n - h) |-> O[2 * i - 1]]
<1>1. /\ profilingwork = "poll" /\ GiveUp(lost) /\ O' = [i \in 1..h |-> O[2 * i]]
      /\ profilingwork' \in {"poll", "stuck"}
  BY DEF ProfilingSweep
<1>2. n \in Nat /\ h \in Nat /\ 2 * h <= n /\ n < 2 * h + 2 /\ O \in Seq(SendData)
  BY OrderTypes DEF TypeInv, RecordType
<1>3. /\ lost \in Seq(SendData) /\ Len(lost) = n - h
      /\ \A i \in 1..(n - h) : lost[i] = O[2 * i - 1]
      /\ Len(O') = h /\ \A i \in 1..h : O'[i] = O[2 * i]
  BY <1>1, <1>2, SweepFacts
<1> HIDE DEF lost, h
<1>4. match_profiling = Expected
  BY AgreeSweep
<1>5. \A i \in 1..(n - h) : 2 * i - 1 \in 1..n
  BY <1>2
<1>6. \A i \in 1..Len(lost) : lost[i] \in match_profiling
  BY <1>3, <1>4, <1>5 DEF Expected
<1>7. /\ FramesOf(agent_result') = FramesOf(agent_result) \cup {lost[i].id : i \in 1..(n - h)}
      /\ HandsOf(agent_result') = HandsOf(agent_result)
  BY <1>1, <1>3, <1>6, GiveUpResults
<1>8. {lost[i].id : i \in 1..(n - h)} = {O[2 * i - 1].id : i \in 1..(n - h)}
  <2>1. \A i \in 1..(n - h) : lost[i].id = O[2 * i - 1].id
    BY <1>3
  <2>2. QED BY ONLY <2>1
<1>9. Ids(Expected) = {O[i].id : i \in 1..n}
  BY DEF Ids, Expected
<1>10. Ids(Expected') = {O[2 * i].id : i \in 1..h}
  BY <1>3 DEF Ids, Expected
<1>11. \A j \in 1..n : \/ \E i \in 1..h : j = 2 * i
                       \/ \E i \in 1..(n - h) : j = 2 * i - 1
  <2> TAKE j \in 1..n
  <2>1. j \in Nat /\ 1 <= j /\ j <= n /\ j \div 2 \in Nat
    BY <1>2
  <2>2. j = 2 * (j \div 2) \/ j = 2 * (j \div 2) + 1
    BY <2>1
  <2>3. CASE j = 2 * (j \div 2)
    <3>1. j \div 2 \in 1..h
      BY <1>2, <2>1, <2>3
    <3>2. QED BY <2>3, <3>1
  <2>4. CASE j = 2 * (j \div 2) + 1
    <3>1. j \div 2 + 1 \in 1..(n - h) /\ j = 2 * (j \div 2 + 1) - 1
      BY <1>2, <2>1, <2>4
    <3>2. QED BY <3>1
  <2>5. QED BY <2>2, <2>3, <2>4
<1>12. \A i \in 1..h : 2 * i \in 1..n
  BY <1>2
<1>13. {O[i].id : i \in 1..n}
          = {O[2 * i - 1].id : i \in 1..(n - h)} \cup {O[2 * i].id : i \in 1..h}
  BY <1>5, <1>11, <1>12
<1>14. FramesOf(agent_result') \cup Ids(Expected') = FramesOf(agent_result) \cup Ids(Expected)
  BY <1>7, <1>8, <1>9, <1>10, <1>13
<1>15. QED BY <1>1, <1>7, <1>14

\* The results ProfilingWork leaves at its end are of frames it expected.
LEMMA ExitResults ==
  ASSUME TypeInv, ProfilingExit, mode.profiling => AgreeInv, WorkInv
  PROVE  /\ FramesOf(agent_result) \subseteq FramesOf(agent_result')
         /\ FramesOf(agent_result') \subseteq
               FramesOf(agent_result) \cup (IF mode.profiling THEN Ids(Expected) ELSE {})
         /\ HandsOf(agent_result') = HandsOf(agent_result)
<1>1. CASE profilingwork = "ended"
  BY <1>1 DEF ProfilingExit
<1>2. CASE profilingwork # "ended"
  <2> DEFINE n == Cardinality(match_profiling)
  <2>1. PICK rest \in [1..n -> match_profiling] :
           agent_result' = agent_result \o [i \in DOMAIN rest |-> ProfilingResult(rest[i])]
    BY <1>2 DEF ProfilingExit
  <2>2. n \in Nat /\ match_profiling \subseteq SendData /\ agent_result \in Seq(Result)
    BY FS_CardinalityType DEF TypeInv, RecordType, QueueType
  <2> HIDE DEF n
  <2>3. rest \in [1..n -> SendData] /\ DOMAIN rest = 1..n
    BY <2>2
  <2>4. /\ FramesOf(agent_result') = FramesOf(agent_result) \cup {rest[i].id : i \in 1..n}
        /\ HandsOf(agent_result') = HandsOf(agent_result)
    BY <2>1, <2>2, <2>3, ResultsOf
  <2>5. mode.profiling /\ match_profiling \subseteq Expected
    BY <1>2 DEF WorkInv, AgreeInv
  <2>6. {rest[i].id : i \in 1..n} \subseteq Ids(Expected)
    BY <2>5 DEF Ids
  <2>7. QED BY <2>4, <2>5, <2>6
<1>3. QED BY <1>1, <1>2

ExpectInv == mode.profiling => OrderInv /\ AgreeInv

frameVars == <<mode, profiles, agent_result, send_list, max_send_fn, order_match_profiling_id,
               sendwork, readying, profilingwork, senddata>>

LEMMA FrameFrame == FrameInv /\ UNCHANGED frameVars => FrameInv'
<1>1. UNCHANGED frameVars => HeldFrames' = HeldFrames
  BY DEF frameVars, HeldFrames, Expected
<1>2. QED BY <1>1 DEF frameVars, FrameInv

LEMMA FrameClient ==
  ASSUME TypeInv, FrameInv, LinkDown \/ SendPic \/ RecvResult \/ Report
  PROVE  FrameInv'
<1>1. CASE GetResult
  <2> DEFINE h == Head(agent_result)
  <2>1. /\ agent_result \in Seq(Result) /\ agent_result # <<>>
        /\ agent_result' = Tail(agent_result) /\ h \in Result
        /\ profiles' = IF h.kind = "hand" THEN profiles ELSE profiles \cup {h.id}
        /\ UNCHANGED <<send_list, max_send_fn>>
        /\ UNCHANGED <<mode, order_match_profiling_id, sendwork, readying, profilingwork, senddata>>
    BY <1>1, HeadTailProperties DEF GetResult, PopResult, TypeInv, QueueType, sendVars,
       matchVars, sendWorkVars, profilingVars
  <2>2. h.kind = "hand" <=> h.kind # "profiling"
    BY <2>1 DEF Result
  <2>3. FramesOf(agent_result)
           = FramesOf(agent_result') \cup (IF h.kind = "profiling" THEN {h.id} ELSE {})
    BY <2>1, FramesFacts
  <2> HIDE DEF h
  <2>4. profiles' \cup FramesOf(agent_result') = profiles \cup FramesOf(agent_result)
    BY <2>1, <2>2, <2>3
  <2>5. HeldFrames' = HeldFrames
    BY <2>1 DEF HeldFrames, Expected
  <2>6. QED BY <2>1, <2>4, <2>5, Zenon DEF FrameInv
<1>2. CASE ~GetResult
  <2>1. UNCHANGED <<queueVars, recordVars, profiles>>
    <3>1. UNCHANGED <<queueVars, recordVars>>
      BY <1>2, ActionFrames DEF SendPic, RecvResult, Report
    <3>2. UNCHANGED profiles
      BY <1>2, ActionFrames DEF SendPic, RecvResult, Report, toolVars, LinkDown, OfferPic, OfferEof,
         Answered, SkipPic, SendAbort, sendPicFrame, GetNoResult, GetOver, RecvAbort, ReportEnd,
         mainFrame
    <3>3. QED BY <3>1, <3>2
  <2>2. UNCHANGED <<mode, sendwork, readying>>
    BY <1>2, ActionFrames DEF SendPic, RecvResult, Report, Stop, StopAgent, stopFrame, workVars
  <2>3. UNCHANGED frameVars
    BY <2>1, <2>2 DEF queueVars, recordVars, frameVars
  <2>4. QED BY <2>3, FrameFrame
<1>3. QED BY <1>1, <1>2

LEMMA FrameSend ==
  ASSUME TypeInv, WorkInv, ExpectInv, FrameInv, Produce \/ SendWork, UNCHANGED clientVars
  PROVE  FrameInv'
<1>0. profiles' = profiles /\ mode.profiling \in BOOLEAN
  BY ModeFacts DEF clientVars, TypeInv, WorkType
<1>1. CASE ProduceSecond
  <2> DEFINE s == Simulated(FirstSecond)
             l == Len(s)
  <2>1. /\ send_list' = send_list \o s /\ max_send_fn' = max_send_fn + l
        /\ UNCHANGED <<mode, agent_result, order_match_profiling_id, sendwork, readying,
                       profilingwork, senddata>>
    BY <1>1 DEF ProduceSecond, produceFrame, resultVars, matchVars, sendWorkVars, profilingVars
  <2>2. s \in Seq(SendData) /\ Ids(Range(s)) = max_send_fn..(max_send_fn + l - 1)
    BY <1>1, SimulatedFacts, SimulatedIds DEF ProduceSecond
  <2> HIDE DEF s
  <2>3. max_send_fn \in Nat /\ l \in Nat /\ send_list \in Seq(SendData)
    BY <2>2, LenProperties DEF TypeInv, QueueType
  <2>4. Range(send_list') = Range(send_list) \cup Range(s)
    BY <2>1, <2>2, <2>3, RangeFacts
  <2>5. Ids(Range(send_list')) = Ids(Range(send_list)) \cup Ids(Range(s))
    BY <2>4 DEF Ids
  <2>6. 0..(max_send_fn' - 1) = 0..(max_send_fn - 1) \cup (max_send_fn..(max_send_fn + l - 1))
    BY <2>1, <2>3
  <2>7. HeldFrames' = HeldFrames
    BY <2>1 DEF HeldFrames, Expected
  <2>8. QED BY <1>0, <2>1, <2>2, <2>5, <2>6, <2>7, Zenon DEF FrameInv
<1>2. CASE ProduceNothing
  <2>1. UNCHANGED frameVars
    BY <1>0, <1>2 DEF ProduceNothing, produceFrame, resultVars, matchVars, sendWorkVars,
       profilingVars, frameVars
  <2>2. QED BY <2>1, FrameFrame
<1>3. CASE SendTake
  <2>1. /\ send_list \in Seq(SendData) /\ send_list # <<>>
        /\ readying' = Head(send_list) /\ send_list' = Tail(send_list)
        /\ sendwork = "idle" /\ sendwork' = IF mode.profiling THEN "register" ELSE "notify"
        /\ UNCHANGED <<mode, agent_result, max_send_fn, order_match_profiling_id, profilingwork,
                       senddata>>
    BY <1>3 DEF SendTake, sendFrame, TypeInv, QueueType, matchVars, profilingVars
  <2>2. Range(send_list) = {readying'} \cup Range(send_list')
    BY <2>1, RangeFacts
  <2>3. HeldFrames' = HeldFrames \cup {readying'}
    BY <1>0, <2>1 DEF HeldFrames, Expected
  <2>4. /\ Ids(Range(send_list)) = {readying'.id} \cup Ids(Range(send_list'))
        /\ Ids(HeldFrames') = Ids(HeldFrames) \cup {readying'.id}
    BY <2>2, <2>3 DEF Ids
  <2>5. profiles' \cup FramesOf(agent_result') \cup Ids(Range(send_list')) \cup Ids(HeldFrames')
           = profiles \cup FramesOf(agent_result) \cup Ids(Range(send_list)) \cup Ids(HeldFrames)
    BY <1>0, <2>1, <2>4
  <2>6. QED BY <2>1, <2>5 DEF FrameInv
<1>4. CASE SendRegister
  <2>1. /\ mode.profiling /\ sendwork = "register" /\ sendwork' = "notify"
        /\ UNCHANGED <<mode, agent_result, send_list, max_send_fn, readying, profilingwork, senddata>>
    BY <1>4 DEF SendRegister, sendFrame, WorkInv, profilingVars
  <2>2. Expected' = Expected \cup {readying}
    BY <1>4, <2>1, AgreeRegister DEF ExpectInv
  <2>3. HeldFrames' = HeldFrames
    BY <2>1, <2>2 DEF HeldFrames
  <2>4. QED BY <1>0, <2>1, <2>3 DEF FrameInv
<1>5. CASE SendNotify \/ SendRelease
  <2>1. /\ UNCHANGED <<mode, agent_result, send_list, max_send_fn, order_match_profiling_id,
                       profilingwork, senddata>>
        /\ mode.profiling => sendwork # "register" /\ sendwork' # "register"
        /\ ~mode.profiling => /\ sendwork \in {"notify", "release"}
                              /\ sendwork' \in {"release", "result"} /\ readying' = readying
    BY <1>5 DEF SendNotify, SendRelease, sendFrame, matchVars, profilingVars
  <2>2. HeldFrames' = HeldFrames
    BY <1>0, <2>1 DEF HeldFrames, Expected
  <2>3. QED BY <1>0, <2>1, <2>2 DEF FrameInv
<1>6. CASE SendResult
  <2>1. /\ ~mode.profiling /\ readying \in SendData /\ agent_result \in Seq(Result)
        /\ sendwork = "result" /\ sendwork' = "idle"
        /\ agent_result' = Append(agent_result, ProfilingResult(readying))
        /\ UNCHANGED <<mode, send_list, max_send_fn>>
    BY <1>6 DEF SendResult, sendFrame, WorkInv, TypeInv, WorkType, Busy, QueueType
  <2>2. FramesOf(agent_result') = FramesOf(agent_result) \cup {readying.id}
    BY <2>1, FramesFacts
  <2>3. HeldFrames = {readying} /\ HeldFrames' = {}
    BY <2>1 DEF HeldFrames
  <2>4. Ids(HeldFrames) = {readying.id} /\ Ids(HeldFrames') = {}
    BY <2>3 DEF Ids
  <2>5. QED BY <1>0, <2>1, <2>2, <2>4 DEF FrameInv
<1>7. QED BY <1>1, <1>2, <1>3, <1>4, <1>5, <1>6 DEF Produce, SendWork

LEMMA FrameRecv ==
  ASSUME TypeInv, WorkInv, ExpectInv, FrameInv, RecvWork \/ ProfilingWork, UNCHANGED clientVars
  PROVE  FrameInv'
<1>0. /\ UNCHANGED <<profiles, mode, send_list, max_send_fn, sendwork, readying>>
      /\ agent_result \in Seq(Result)
  BY DEF clientVars, RecvWork, RecvTake, RecvCount, recvFrame, ProfilingWork, ProfilingMatch,
     ProfilingOrder, ProfilingProduce, ProfilingCount, ProfilingSweep, profilingFrame, sendVars,
     sendWorkVars, TypeInv, QueueType
<1> DEFINE reg == IF sendwork = "register" THEN {readying} ELSE {}
<1>1. CASE RecvWork
  <2>1. FramesOf(agent_result') = FramesOf(agent_result)
    BY <1>0, <1>1, FramesFacts DEF RecvWork, RecvTake, RecvCount
  <2>2. UNCHANGED <<order_match_profiling_id, profilingwork, senddata>>
    BY <1>1 DEF RecvWork, RecvTake, RecvCount, recvFrame, matchVars, profilingVars
  <2>3. HeldFrames' = HeldFrames
    BY <1>0, <2>2 DEF HeldFrames, Expected
  <2>4. QED BY <1>0, <2>1, <2>3 DEF FrameInv
<1>2. CASE ProfilingMatch \/ ProfilingCount
  <2>1. /\ UNCHANGED <<agent_result, order_match_profiling_id>>
        /\ profilingwork # "result" /\ profilingwork' # "result"
    BY <1>2 DEF ProfilingMatch, ProfilingCount
  <2>2. HeldFrames' = HeldFrames
    BY <1>0, <2>1 DEF HeldFrames, Expected
  <2>3. QED BY <1>0, <2>1, <2>2 DEF FrameInv
<1>3. CASE ProfilingOrder
  <2>1. profilingwork = "order"
    BY <1>3 DEF ProfilingOrder
  <2>2. mode.profiling /\ OrderInv /\ AgreeInv
    BY <2>1 DEF WorkInv, ExpectInv
  <2>3. /\ FramesOf(agent_result') \cup Ids(Expected') \cup {senddata.id}
              = FramesOf(agent_result) \cup Ids(Expected)
        /\ profilingwork' = "result" /\ senddata' = senddata
    BY <1>3, <2>2, OrderResults
  <2>4. HeldFrames = Expected \cup reg /\ HeldFrames' = Expected' \cup reg \cup {senddata}
    BY <1>0, <2>1, <2>2, <2>3 DEF HeldFrames
  <2> HIDE DEF reg
  <2>5. /\ Ids(HeldFrames) = Ids(Expected) \cup Ids(reg)
        /\ Ids(HeldFrames') = Ids(Expected') \cup Ids(reg) \cup {senddata.id}
    BY <2>4 DEF Ids
  <2>6. profiles' \cup FramesOf(agent_result') \cup Ids(Range(send_list')) \cup Ids(HeldFrames')
           = profiles \cup FramesOf(agent_result) \cup Ids(Range(send_list)) \cup Ids(HeldFrames)
    BY <1>0, <2>3, <2>5
  <2>7. QED BY <1>0, <2>6 DEF FrameInv
<1>4. CASE ProfilingProduce
  <2>1. /\ profilingwork = "result" /\ profilingwork' = "count"
        /\ agent_result' = Append(agent_result, ProfilingResult(senddata))
        /\ UNCHANGED order_match_profiling_id /\ senddata \in SendData \cup {NoData}
    BY <1>4 DEF ProfilingProduce, matchVars, TypeInv, RecordType
  <2>2. mode.profiling
    BY <2>1 DEF WorkInv
  <2>3. FramesOf(agent_result') = FramesOf(agent_result) \cup {senddata.id}
    BY <1>0, <2>1, FramesFacts
  <2>4. HeldFrames = HeldFrames' \cup {senddata}
    BY <1>0, <2>1, <2>2 DEF HeldFrames, Expected
  <2>5. Ids(HeldFrames) = Ids(HeldFrames') \cup {senddata.id}
    BY <2>4 DEF Ids
  <2>6. profiles' \cup FramesOf(agent_result') \cup Ids(Range(send_list')) \cup Ids(HeldFrames')
           = profiles \cup FramesOf(agent_result) \cup Ids(Range(send_list)) \cup Ids(HeldFrames)
    BY <1>0, <2>3, <2>5
  <2>7. QED BY <1>0, <2>6 DEF FrameInv
<1>5. CASE ProfilingSweep
  <2>1. profilingwork = "poll"
    BY <1>5 DEF ProfilingSweep
  <2>2. mode.profiling /\ OrderInv /\ AgreeInv
    BY <2>1 DEF WorkInv, ExpectInv
  <2>3. /\ FramesOf(agent_result') \cup Ids(Expected') = FramesOf(agent_result) \cup Ids(Expected)
        /\ profilingwork' \in {"poll", "stuck"}
    BY <1>5, <2>2, SweepResults
  <2>4. HeldFrames = Expected \cup reg /\ HeldFrames' = Expected' \cup reg
    BY <1>0, <2>1, <2>2, <2>3 DEF HeldFrames
  <2> HIDE DEF reg
  <2>5. /\ Ids(HeldFrames) = Ids(Expected) \cup Ids(reg)
        /\ Ids(HeldFrames') = Ids(Expected') \cup Ids(reg)
    BY <2>4 DEF Ids
  <2>6. profiles' \cup FramesOf(agent_result') \cup Ids(Range(send_list')) \cup Ids(HeldFrames')
           = profiles \cup FramesOf(agent_result) \cup Ids(Range(send_list)) \cup Ids(HeldFrames)
    BY <1>0, <2>3, <2>5
  <2>7. QED BY <1>0, <2>6 DEF FrameInv
<1>6. QED BY <1>1, <1>2, <1>3, <1>4, <1>5 DEF ProfilingWork

LEMMA FrameStop ==
  ASSUME TypeInv, WorkInv, ExpectInv, FrameInv, Stopping, UNCHANGED clientVars
  PROVE  FrameInv'
<1>0. UNCHANGED <<profiles, mode, send_list, max_send_fn, order_match_profiling_id, readying,
                  senddata>>
  BY DEF clientVars, Stopping, SendExit, RecvExit, ProfilingExit, stopFrame, sendVars
<1>1. CASE SendExit \/ RecvExit
  <2>1. /\ UNCHANGED <<agent_result, profilingwork>>
        /\ UNCHANGED sendwork \/ (sendwork = "idle" /\ sendwork' = "ended")
    BY <1>1 DEF SendExit, RecvExit
  <2>2. HeldFrames' = HeldFrames
    BY <1>0, <2>1 DEF HeldFrames, Expected
  <2>3. QED BY <1>0, <2>1, <2>2 DEF FrameInv
<1>2. CASE ProfilingExit
  <2>1. UNCHANGED sendwork /\ profilingwork # "result" /\ profilingwork' # "result"
    BY <1>2 DEF ProfilingExit
  <2>2. HeldFrames' = HeldFrames /\ (mode.profiling => Expected \subseteq HeldFrames)
    BY <1>0, <2>1 DEF HeldFrames, Expected
  <2>3. mode.profiling => Ids(Expected) \subseteq Ids(HeldFrames)
    BY <2>2 DEF Ids
  <2>4. /\ FramesOf(agent_result) \subseteq FramesOf(agent_result')
        /\ FramesOf(agent_result') \subseteq FramesOf(agent_result) \cup Ids(HeldFrames)
    <3>1. mode.profiling => AgreeInv
      BY DEF ExpectInv
    <3>2. QED BY <1>2, <2>3, <3>1, ExitResults
  <2>5. profiles' \cup FramesOf(agent_result') \cup Ids(Range(send_list')) \cup Ids(HeldFrames')
           = profiles \cup FramesOf(agent_result) \cup Ids(Range(send_list)) \cup Ids(HeldFrames)
    BY <1>0, <2>2, <2>4
  <2>6. QED BY <1>0, <2>5 DEF FrameInv
<1>3. QED BY <1>1, <1>2 DEF Stopping

LEMMA FrameStep ==
  ASSUME TypeInv, WorkInv, ExpectInv, FrameInv, [Next]_vars
  PROVE  FrameInv'
<1>1. CASE UNCHANGED vars
  <2>1. UNCHANGED frameVars
    BY <1>1 DEF vars, agentVars, clientVars, sendVars, resultVars, matchVars, sendWorkVars,
       profilingVars, frameVars
  <2>2. QED BY <2>1, FrameFrame
<1>2. QED
  BY <1>1, FrameClient, FrameSend, FrameRecv, FrameStop DEF Next, AgentStep, AgentNext

LEMMA HandStep ==
  ASSUME TypeInv, WorkInv, ExpectInv, HandInv, [Next]_vars
  PROVE  HandInv'
<1> DEFINE c == Cardinality(HandsOf(agent_result))
<1>0. /\ agent_result \in Seq(Result) /\ c \in Nat
      /\ hands \in Nat /\ recv_list \in Nat /\ max_recv_fn \in Nat
      /\ hands + c + recv_list = max_recv_fn
  BY HandsFacts DEF TypeInv, QueueType, ToolType, HandInv
<1>1. CASE UNCHANGED <<hands, recv_list, max_recv_fn>> /\ HandsOf(agent_result') = HandsOf(agent_result)
  BY <1>0, <1>1 DEF HandInv
<1>2. CASE GetResult
  <2> DEFINE h == Head(agent_result)
             b == IF h.kind = "hand" THEN 1 ELSE 0
             t == Cardinality(HandsOf(Tail(agent_result)))
  <2>1. /\ agent_result # <<>> /\ agent_result' = Tail(agent_result)
        /\ hands' = hands + b
        /\ UNCHANGED <<recv_list, max_recv_fn>>
    BY <1>0, <1>2 DEF GetResult, PopResult, recvVars
  <2>2. c = t + b /\ b \in Nat
    BY <1>0, <2>1, HandsFacts
  <2>3. t \in Nat
    <3>1. Tail(agent_result) \in Seq(Result)
      BY <1>0, <2>1, HeadTailProperties
    <3>2. QED BY <3>1, HandsFacts
  <2>4. c' = t
    BY <2>1
  <2> HIDE DEF c, b, t
  <2>5. (hands + b) + t + recv_list = max_recv_fn
    BY <1>0, <2>2, <2>3
  <2>6. QED BY <2>1, <2>4, <2>5 DEF HandInv, c
<1>3. CASE ProduceSecond /\ UNCHANGED clientVars
  <2> DEFINE q == IF mode.recv = 0 THEN FirstSecond ELSE mode.recv
  <2>1. /\ recv_list' = recv_list + q /\ max_recv_fn' = max_recv_fn + q
        /\ UNCHANGED <<hands, agent_result>>
    BY <1>3 DEF ProduceSecond, produceFrame, resultVars, clientVars
  <2>2. q \in Nat
    <3>1. FirstSecond \in 1..Len(m_newsrc_datas)
      BY <1>3, SimulatedFacts DEF ProduceSecond
    <3>2. FirstSecond \in Nat
      BY <3>1, LenProperties DEF TypeInv, CacheType
    <3>3. QED BY <3>2, ModeFacts DEF TypeInv, WorkType
  <2> HIDE DEF c, q
  <2>3. c' = c
    BY <2>1 DEF c
  <2>4. hands' + c' + recv_list' = max_recv_fn'
    BY <1>0, <2>1, <2>2, <2>3
  <2>5. QED BY <2>4 DEF HandInv, c
<1>4. CASE RecvTake /\ UNCHANGED clientVars
  <2>1. /\ recv_list' = recv_list - 1 /\ agent_result' = Append(agent_result, HandResult)
        /\ UNCHANGED <<hands, max_recv_fn>>
    BY <1>4 DEF RecvTake, recvFrame, clientVars
  <2>2. HandResult.kind = "hand"
    BY DEF HandResult
  <2>3. c' = c + 1
    BY <1>0, <2>1, <2>2, ResultType, HandsFacts
  <2> HIDE DEF c
  <2>4. hands' + c' + recv_list' = max_recv_fn'
    BY <1>0, <2>1, <2>3
  <2>5. QED BY <2>4 DEF HandInv, c
<1>5. CASE (SendResult \/ ProfilingProduce) /\ UNCHANGED clientVars
  <2>1. PICK d \in SendData \cup {NoData} :
           agent_result' = Append(agent_result, ProfilingResult(d))
    BY <1>5 DEF SendResult, ProfilingProduce, TypeInv, WorkType, RecordType
  <2>2. UNCHANGED <<hands, recv_list, max_recv_fn>>
    BY <1>5 DEF SendResult, sendFrame, ProfilingProduce, profilingFrame, recvVars, clientVars
  <2>3. ProfilingResult(d) \in Result /\ ProfilingResult(d).kind # "hand"
    BY ResultType DEF ProfilingResult
  <2>4. c' = c
    BY <1>0, <2>1, <2>3, HandsFacts
  <2>5. QED BY <1>0, <2>2, <2>4 DEF HandInv
<1>6. CASE (ProfilingOrder \/ ProfilingSweep \/ ProfilingExit) /\ UNCHANGED clientVars
  <2>1. UNCHANGED <<hands, recv_list, max_recv_fn>>
    BY <1>6 DEF ProfilingOrder, ProfilingSweep, profilingFrame, ProfilingExit, stopFrame, recvVars,
       clientVars
  <2>2. ProfilingOrder \/ ProfilingSweep => mode.profiling
    BY DEF ProfilingOrder, ProfilingSweep, WorkInv
  <2>3. HandsOf(agent_result') = HandsOf(agent_result)
    <3>1. ProfilingOrder \/ ProfilingSweep => OrderInv /\ AgreeInv
      BY <2>2 DEF ExpectInv
    <3>2. mode.profiling => AgreeInv
      BY DEF ExpectInv
    <3>3. QED BY <1>6, <3>1, <3>2, OrderResults, SweepResults, ExitResults
  <2>4. QED BY <1>1, <2>1, <2>3
<1>7. CASE UNCHANGED <<hands, recv_list, max_recv_fn, agent_result>>
  BY <1>1, <1>7
<1>8. CASE (LinkDown \/ SendPic \/ RecvResult \/ Report) /\ ~GetResult
  <2>1. UNCHANGED queueVars
    BY <1>8, ActionFrames DEF SendPic, RecvResult, Report
  <2>2. UNCHANGED hands
    BY <1>8, ActionFrames DEF SendPic, RecvResult, Report, toolVars, OfferPic, OfferEof, Answered,
       SkipPic, SendAbort, sendPicFrame, GetNoResult, GetOver, RecvAbort, ReportEnd, mainFrame
  <2>3. QED BY <1>7, <2>1, <2>2 DEF queueVars
<1>9. CASE (ProduceNothing \/ SendTake \/ SendRegister \/ SendNotify \/ SendRelease)
              /\ UNCHANGED clientVars
  BY <1>7, <1>9 DEF ProduceNothing, produceFrame, resultVars, SendTake, SendRegister, SendNotify,
     SendRelease, sendFrame, recvVars, clientVars
<1>10. CASE (RecvCount \/ ProfilingMatch \/ ProfilingCount) /\ UNCHANGED clientVars
  BY <1>7, <1>10 DEF RecvCount, recvFrame, ProfilingMatch, ProfilingCount, profilingFrame, recvVars,
     clientVars
<1>11. CASE (SendExit \/ RecvExit) /\ UNCHANGED clientVars
  BY <1>7, <1>11 DEF SendExit, RecvExit, stopFrame, recvVars, clientVars
<1>12. CASE UNCHANGED vars
  BY <1>7, <1>12 DEF vars, agentVars, clientVars, recvVars, resultVars
<1>13. QED
  BY <1>2, <1>3, <1>4, <1>5, <1>6, <1>8, <1>9, <1>10, <1>11, <1>12
     DEF Next, AgentStep, AgentNext, Produce, SendWork, RecvWork, ProfilingWork, Stopping

\* When the agent counts as many results handed over as it has queued, none is
\* left anywhere else.
LEMMA NothingLeft ==
  ASSUME TypeInv, Conserved, FrameInv, HandInv,
         max_send_fn + max_recv_fn = current_agent_result_fn
  PROVE  profiles = 0..(max_send_fn - 1) /\ hands = max_recv_fn
<1>1. Len(agent_result) = 0 /\ Len(send_list) = 0 /\ Pending = 0 /\ recv_list = 0
  <2> DEFINE a == Len(agent_result)
             b == Len(send_list)
             g == current_agent_result_fn
  <2>1. a \in Nat /\ b \in Nat /\ Pending \in Nat /\ recv_list \in Nat /\ g \in Nat
    BY FlowTypes
  <2>2. g + a + b + Pending + recv_list = g
    BY DEF Conserved
  <2> HIDE DEF a, b, g
  <2>3. a = 0 /\ b = 0 /\ Pending = 0 /\ recv_list = 0
    BY ONLY <2>1, <2>2
  <2>4. QED BY <2>3 DEF a, b
<1>2. agent_result = <<>> /\ send_list = <<>>
  BY <1>1, EmptySeq DEF TypeInv, QueueType
<1>3. Range(agent_result) = {} /\ Range(send_list) = {}
  <2>1. /\ Range(agent_result) = {agent_result[i] : i \in 1..0}
        /\ Range(send_list) = {send_list[i] : i \in 1..0}
    BY <1>1, RangeEquality DEF TypeInv, QueueType
  <2>2. QED BY <2>1
<1>4. HeldFrames = {}
  <2>1. CASE mode.profiling
    <3>1. Registering = 0 /\ Len(order_match_profiling_id) = 0 /\ Producing = 0
      <4> DEFINE o == Len(order_match_profiling_id)
      <4>1. Registering \in Nat /\ o \in Nat /\ Producing \in Nat
        BY FlowTypes DEF Registering, Producing
      <4>2. Registering + o + Producing = 0
        BY <1>1, <2>1 DEF Pending
      <4> HIDE DEF o
      <4>3. Registering = 0 /\ o = 0 /\ Producing = 0
        BY ONLY <4>1, <4>2
      <4>4. QED BY <4>3 DEF o
    <3>2. sendwork # "register" /\ profilingwork # "result"
      BY <3>1 DEF Registering, Producing
    <3>3. Expected = {}
      BY <3>1 DEF Expected
    <3>4. QED BY <2>1, <3>2, <3>3 DEF HeldFrames
  <2>2. CASE ~mode.profiling
    BY <1>1, <2>2 DEF Pending, Sending, HeldFrames
  <2>3. QED BY <2>1, <2>2
<1>5. FramesOf(agent_result) = {} /\ Ids(Range(send_list)) = {} /\ Ids(HeldFrames) = {}
  BY <1>3, <1>4 DEF FramesOf, Ids
<1>6. HandsOf(agent_result) = {}
  BY <1>1 DEF HandsOf
<1>7. hands = max_recv_fn
  <2>1. hands + 0 + recv_list = max_recv_fn /\ hands \in Nat
    BY <1>6, FS_EmptySet DEF HandInv, TypeInv, ToolType
  <2>2. QED BY <1>1, <2>1
<1>8. QED BY <1>5, <1>7 DEF FrameInv

LEMMA OverStep ==
  ASSUME TypeInv, SrcInv, FlowInv, FrameInv, HandInv, OverInv, [Next]_vars
  PROVE  OverInv'
<1>0. CASE UNCHANGED <<recvresult, finish_add_all_datas_2, profiles, max_send_fn, hands,
                       max_recv_fn, main, results>>
  BY <1>0 DEF OverInv
<1>1. CASE GetOver
  <2>1. /\ recvresult = "check" /\ recvresult' = IF TestOver THEN "over" ELSE "poll"
        /\ UNCHANGED <<finish_add_all_datas_2, profiles, max_send_fn, hands, max_recv_fn, main,
                       results>>
    BY <1>1 DEF GetOver, recvResultFrame, agentVars, finishVars, sendVars, recvVars
  <2>2. agent = "running" /\ main # "over"
    BY <2>1 DEF FlowInv, EndInv, OverInv
  <2>3. CASE TestOver
    <3>1. finish_add_all_datas_2 /\ max_send_fn + max_recv_fn = current_agent_result_fn
      BY <2>3 DEF TestOver
    <3>2. Conserved
      BY <2>2 DEF FlowInv
    <3>3. profiles = 0..(max_send_fn - 1) /\ hands = max_recv_fn
      BY <3>1, <3>2, NothingLeft
    <3>4. QED BY <2>1, <2>2, <3>1, <3>3 DEF OverInv
  <2>4. CASE ~TestOver
    BY <2>1, <2>2, <2>4 DEF OverInv
  <2>5. QED BY <2>3, <2>4
<1>2. CASE GetResult \/ GetNoResult \/ RecvAbort
  <2>1. recvresult # "over" /\ recvresult' # "over" /\ main' = main
    BY <1>2 DEF GetResult, GetNoResult, RecvAbort, recvResultFrame
  <2>2. QED BY <2>1 DEF OverInv
<1>3. CASE ReportResult \/ ReportEnd \/ Stop
  <2>1. UNCHANGED <<recvresult, finish_add_all_datas_2, profiles, max_send_fn, hands, max_recv_fn>>
    BY <1>3 DEF ReportResult, ReportEnd, mainFrame, Stop, StopAgent, stopFrame, agentVars, finishVars,
       sendVars, recvVars, clientVars
  <2>2. main' = "over" => recvresult = "over" /\ ~results'
    BY <1>3 DEF ReportResult, ReportEnd, mainFrame, Stop, clientVars, OverInv
  <2>3. QED BY <2>1, <2>2 DEF OverInv
<1>4. CASE LinkDown \/ SendPic
  BY <1>0, <1>4 DEF LinkDown, SendPic, SkipPic, OfferPic, AddPicture, OfferEof, AddEof, addFrame,
     Answered, Reply, SendAbort, sendPicFrame, agentVars, finishVars, sendVars, recvVars
<1>5. CASE Produce /\ UNCHANGED clientVars
  <2>1. ~finish_add_all_datas_2
    BY <1>5 DEF Produce, ProduceSecond, ProduceNothing, FlowInv, ClosedInv
  <2>2. recvresult # "over"
    BY <2>1 DEF OverInv
  <2>3. QED BY <1>5, <2>2 DEF clientVars, OverInv
<1>6. CASE (SendWork \/ RecvWork) /\ UNCHANGED clientVars
  BY <1>0, <1>6 DEF SendWork, SendTake, SendRegister, SendNotify, SendRelease, SendResult,
     sendFrame, RecvWork, RecvTake, RecvCount, recvFrame, finishVars, sendVars, recvVars, clientVars
<1>7. CASE (ProfilingWork \/ Stopping) /\ UNCHANGED clientVars
  BY <1>0, <1>7 DEF ProfilingWork, ProfilingMatch, ProfilingOrder, ProfilingProduce,
     ProfilingCount, ProfilingSweep, profilingFrame, Stopping, SendExit, RecvExit, ProfilingExit,
     stopFrame, finishVars, sendVars, recvVars, clientVars
<1>8. CASE UNCHANGED vars
  BY <1>0, <1>8 DEF vars, agentVars, clientVars, finishVars, sendVars, recvVars
<1>9. QED
  BY <1>1, <1>2, <1>3, <1>4, <1>5, <1>6, <1>7, <1>8
     DEF Next, RecvResult, Report, AgentStep, AgentNext

\* When the main thread takes the test for over it has reported a result for
\* every frame that was sent, under the frame's own id, and one for every
\* query: at any rate, and with records at the pictures' own rate, whichever
\* frames the SDK loses and however late its records are.
THEOREM EverythingReported ==
  ASSUME OwnRate
  PROVE  Spec => []AllReported
<1> DEFINE Inv == TypeInv /\ SrcInv /\ FlowInv /\ ExpectInv /\ FrameInv /\ HandInv /\ OverInv
<1>1. Init => Inv
  <2> SUFFICES ASSUME Init PROVE ExpectInv /\ FrameInv /\ HandInv /\ OverInv
    BY InitTypes, InitSrc, InitFlow
  <2>1. /\ send_list = <<>> /\ order_match_profiling_id = <<>> /\ agent_result = <<>>
        /\ match_profiling = {} /\ sendwork = "idle"
        /\ profilingwork = IF mode.profiling THEN "poll" ELSE "ended"
        /\ max_send_fn = 0 /\ max_recv_fn = 0 /\ recv_list = 0
        /\ profiles = {} /\ hands = 0 /\ recvresult = "poll" /\ main = "report"
    BY DEF Init, AgentInit
  <2>2. Len(send_list) = 0 /\ Len(order_match_profiling_id) = 0 /\ Len(agent_result) = 0
    BY <2>1, EmptySeq
  <2>3. /\ \A i \in 1..Len(send_list) : FALSE
        /\ \A i \in 1..Len(order_match_profiling_id) : FALSE
        /\ \A i \in 1..Len(agent_result) : FALSE
    BY <2>2
  <2>4. Expected = {} /\ Matched = {} /\ HandsOf(agent_result) = {}
    BY <2>1, <2>3 DEF Expected, Matched, HandsOf
  <2>5. OrderInv /\ AgreeInv
    BY <2>1, <2>3, <2>4 DEF OrderInv, Sorted, AgreeInv
  <2>6. Range(send_list) = {} /\ Range(agent_result) = {}
    <3>1. send_list \in Seq(SendData) /\ agent_result \in Seq(Result)
      BY InitTypes DEF TypeInv, QueueType
    <3>2. /\ Range(send_list) = {send_list[i] : i \in 1..Len(send_list)}
          /\ Range(agent_result) = {agent_result[i] : i \in 1..Len(agent_result)}
      BY <3>1, RangeEquality
    <3>3. QED BY <2>3, <3>2
  <2>7. HeldFrames = {}
    BY <2>1, <2>4 DEF HeldFrames
  <2>8. FramesOf(agent_result) = {} /\ Ids(Range(send_list)) = {} /\ Ids(HeldFrames) = {}
    BY <2>6, <2>7 DEF FramesOf, Ids
  <2>9. FrameInv
    BY <2>1, <2>8 DEF FrameInv
  <2>10. HandInv
    BY <2>1, <2>4, FS_EmptySet DEF HandInv
  <2>11. QED BY <2>1, <2>5, <2>9, <2>10 DEF ExpectInv, OverInv
<1>2. Inv /\ [Next]_vars => Inv'
  <2> SUFFICES ASSUME Inv, [Next]_vars PROVE Inv'
    OBVIOUS
  <2>1. WorkInv
    BY DEF FlowInv
  <2>2. ExpectInv'
    <3>1. mode.profiling => OrderInv' /\ AgreeInv'
      BY OrderStep, AgreeStep DEF ExpectInv
    <3>2. QED BY <3>1, ModeStays DEF ExpectInv
  <2>3. FrameInv' /\ HandInv' /\ OverInv'
    BY <2>1, FrameStep, HandStep, OverStep
  <2>4. QED BY <2>2, <2>3, TypeStep, SrcStep, FlowStep
<1>3. Inv => AllReported
  BY DEF OverInv, AllReported
<1> HIDE DEF Inv
<1>4. QED BY <1>1, <1>2, <1>3, PTL DEF Spec
=============================================================================
