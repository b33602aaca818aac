---------------------------- MODULE PluginProofs ----------------------------
(***************************************************************************)
(* Proofs about module Plugin, for any number of threads, images, sizes    *)
(* and any budget.  The types and the bound on the memory hold for any     *)
(* number of sessions, the rest for the first one: run reinit shows what   *)
(* goes wrong in the second.                                               *)
(***************************************************************************)
EXTENDS Plugin, FiniteSetTheorems, TLAPS

\* The request of a thread has a size while it is under way and a block when
\* it is done; a session under way is one of the MaxSessions.
TypeInv ==
    /\ PluginTypeOK
    /\ \A c \in Cams : req[c].pc \in {"miss", "alloc"} => req[c].size \in Sizes
    /\ \A c \in Cams : req[c].pc = "done" => req[c].block \in Block
    /\ (host # "out" \/ life = "initializing") => sessions < MaxSessions

LEMMA TypeInit == PluginInit => TypeInv
<1> SUFFICES ASSUME PluginInit PROVE TypeInv
  OBVIOUS
<1> USE BufferAssumption, PluginAssumption DEF PluginInit, BufInit, Cams
<1>1. BufTypeOK
  BY DEF BufTypeOK, NoRequest, NoBlock, RequestStates, Block
<1>2. sessions \in 0..MaxSessions /\ images \in [Cams -> SUBSET Block]
  OBVIOUS
<1>3. PluginTypeOK
  BY <1>1, <1>2 DEF PluginTypeOK, LifeStates, Ready
<1>4. QED BY <1>3 DEF TypeInv, NoRequest

\* What a request leaves alone.
LEMMA TypeRequest ==
  ASSUME TypeInv, NEW c \in Cams, NEW size \in Sizes, RequestMemBlob(c, size),
         UNCHANGED <<host, sessions, life, inited, started, impl, picbuf,
                     camVars, ingraph, poll>>
  PROVE  TypeInv'
<1> USE BufferAssumption DEF TypeInv, PluginTypeOK, BufTypeOK, camVars, Cams,
        RequestStates, Block
<1>1. CASE Reuse(c, size)
  BY <1>1 DEF Reuse
<1>2. CASE Miss(c, size)
  <2>1. req' = [req EXCEPT ![c] = [pc |-> "miss", size |-> size, block |-> NoBlock]]
    BY <1>2 DEF Miss
  <2>2. req' \in [Requesters -> [pc : RequestStates, size : Sizes \cup {0},
                                 block : Block \cup {NoBlock}]]
    BY <2>1
  <2>3. QED BY <1>2, <2>1, <2>2 DEF Miss
<1>3. CASE CheckBudget(c)
  BY <1>3 DEF CheckBudget
<1>4. CASE Allocate(c)
  <2> DEFINE b == [name |-> keyid, size |-> req[c].size]
  <2>1. b \in Block
    BY <1>4 DEF Allocate
  <2>2. keyid' \in Nat /\ cachesize' \in Nat
    BY <1>4, <2>1 DEF Allocate
  <2>3. free' \subseteq Block /\ lent' \subseteq Block
    BY <1>4, <2>1 DEF Allocate
  <2>4. /\ req' = [req EXCEPT ![c].pc = "done", ![c].block = b]
        /\ UNCHANGED <<host, sessions, life, inited, started, impl, picbuf,
                       cam, images, ingraph, poll>>
    BY <1>4 DEF Allocate
  <2> HIDE DEF b, Block
  <2>5. req' \in [Requesters -> [pc : RequestStates, size : Sizes \cup {0},
                                 block : Block \cup {NoBlock}]]
    <3>1. req[c] \in [pc : RequestStates, size : Sizes \cup {0},
                      block : Block \cup {NoBlock}]
      OBVIOUS
    <3>2. [req[c] EXCEPT !.pc = "done", !.block = b]
            \in [pc : RequestStates, size : Sizes \cup {0}, block : Block \cup {NoBlock}]
      BY <2>1, <3>1, Zenon
    <3>3. QED BY <2>4, <3>2, Zenon
  <2>6. req'[c].pc = "done" /\ req'[c].block = b
    BY <2>4
  <2>7. \A d \in Requesters : d # c => req'[d] = req[d]
    BY <2>4
  <2>8. BufTypeOK'
    BY <2>2, <2>3, <2>5
  <2>9. QED BY <2>1, <2>4, <2>6, <2>7, <2>8
<1>5. QED BY <1>1, <1>2, <1>3, <1>4 DEF RequestMemBlob

LEMMA TypeStep == TypeInv /\ [PluginNext]_pvars => TypeInv'
<1> SUFFICES ASSUME TypeInv, [PluginNext]_pvars PROVE TypeInv'
  OBVIOUS
<1>r. CASE \E c \in Cams : RequestImage(c)
  BY <1>r, TypeRequest DEF RequestImage
<1> USE BufferAssumption, PluginAssumption
    DEF TypeInv, PluginTypeOK, BufTypeOK, camVars, bufVars, Cams, RequestStates,
        LifeStates, Ready
<1>1. CASE InitializeBuffer
  BY <1>1 DEF InitializeBuffer
<1>2. CASE InitializePipeline
  BY <1>2 DEF InitializePipeline
<1>3. CASE StartCheck
  BY <1>3 DEF StartCheck
<1>4. CASE StartImpl
  BY <1>4 DEF StartImpl
<1>5. CASE StartFlag
  BY <1>5 DEF StartFlag
<1>6. CASE StopCheck
  BY <1>6 DEF StopCheck
<1>7. CASE StopLock
  BY <1>7 DEF StopLock
<1>8. CASE StopImpl
  BY <1>8 DEF StopImpl, ReturnBlobs
<1>9. CASE Release
  <2>1. sessions' \in 0..MaxSessions
    BY <1>9 DEF Release
  <2>2. /\ free' \subseteq Block /\ lent' \subseteq Block
        /\ ingraph' \subseteq Block
    BY <1>9 DEF Release
  <2>3. QED BY <1>9, <2>1, <2>2 DEF Release
<1>10. CASE \E c \in Cams : NotifyData(c)
  BY <1>10 DEF NotifyData
<1>11. CASE \E c \in Cams : StoreImage(c)
  BY <1>11 DEF StoreImage, NoRequest, NoBlock
<1>12. CASE \E c \in Cams : DropFrame(c)
  BY <1>12 DEF DropFrame, ReturnBlobs, NoRequest, NoBlock
<1>13. CASE \E c \in Cams : PushData(c)
  BY <1>13 DEF PushData, ReturnBlobs
<1>14. CASE \E b \in ingraph : GraphReturns(b)
  BY <1>14 DEF GraphReturns, ReturnBlobs
<1>15. CASE \E r \in Pollers : PollCheck(r)
  BY <1>15 DEF PollCheck, pollFrame
<1>16. CASE \E r \in Pollers : PollPipeline(r)
  BY <1>16 DEF PollPipeline, pollFrame
<1>17. CASE \E r \in Pollers : PollCreate(r)
  BY <1>17 DEF PollCreate
<1>18. CASE UNCHANGED pvars
  BY <1>18 DEF pvars
<1>19. QED
  BY <1>r, <1>1, <1>2, <1>3, <1>4, <1>5, <1>6, <1>7, <1>8, <1>9, <1>10, <1>11,
     <1>12, <1>13, <1>14, <1>15, <1>16, <1>17, <1>18
  DEF PluginNext

LEMMA TypeAlways == PluginSpec => []TypeInv
  BY TypeInit, TypeStep, PTL DEF PluginSpec

\* The members of Plugin and FixedMembuffer keep their types.
THEOREM TypesHold == PluginSpec => []PluginTypeOK
<1>1. TypeInv => PluginTypeOK BY DEF TypeInv
<1>2. QED BY <1>1, TypeAlways, PTL

-----------------------------------------------------------------------------
(* The bound on the memory.                                                *)

\* The threads that have passed the test of the budget.
Allocating == {c \in Cams : req[c].pc = "alloc"}

\* x is the last thread that passed the test: then its block and what was
\* there were within the budget, and each other thread can have added one
\* block since.
LastPassed(x, biggest) ==
    cachesize + (IF req[x].pc = "alloc" THEN req[x].size ELSE 0)
              + Cardinality(Allocating \ {x}) * biggest
        <= Budget + (Cardinality(Cams) - 1) * biggest

BudgetInv ==
    \E biggest \in Sizes :
        /\ \A c \in Cams : req[c].size <= biggest
        /\ \E x \in Cams : LastPassed(x, biggest)

LEMMA OthersAllocating ==
  ASSUME NEW A \in SUBSET Cams, NEW x \in Cams
  PROVE  /\ IsFiniteSet(A \ {x})
         /\ Cardinality(A \ {x}) \in Nat
         /\ Cardinality(Cams) \in Nat \ {0}
         /\ Cardinality(A \ {x}) <= Cardinality(Cams) - 1
<1>1. IsFiniteSet(Cams) /\ Cams # {}
  BY BufferAssumption DEF Cams
<1>2. /\ IsFiniteSet(Cams \ {x})
      /\ Cardinality(Cams \ {x}) = Cardinality(Cams) - 1
  BY <1>1, FS_RemoveElement
<1>3. Cardinality(Cams) \in Nat /\ Cardinality(Cams \ {x}) \in Nat
  BY <1>1, <1>2, FS_CardinalityType
<1>4. A \ {x} \in SUBSET (Cams \ {x})
  OBVIOUS
<1>5. /\ IsFiniteSet(A \ {x})
      /\ Cardinality(A \ {x}) <= Cardinality(Cams \ {x})
  BY <1>2, <1>4, FS_Subset
<1>6. Cardinality(A \ {x}) \in Nat
  BY <1>5, FS_CardinalityType
<1>7. QED BY <1>2, <1>3, <1>5, <1>6

\* Larger factors keep the bound.
LEMMA Scale ==
  ASSUME NEW m \in Nat, NEW n \in Nat, NEW b \in Nat, m <= n
  PROVE  m * b <= n * b
<1>1. PICK d \in Nat : n = m + d
  BY SMT
<1>2. n * b = m * b + d * b
  BY <1>1, SMT
<1>3. d * b \in Nat
  BY SMT
<1>4. m * b \in Nat /\ n * b \in Nat
  BY SMT
<1>5. QED BY <1>2, <1>3, <1>4, SMT

LEMMA Lower ==
  ASSUME NEW p \in Nat, NEW q \in Nat, NEW o \in Nat, NEW n \in Nat,
         NEW b \in Nat, NEW m \in Nat, q <= p, p + o + n <= b + m
  PROVE  q + o + n <= b + m
  OBVIOUS

LEMMA Grow ==
  ASSUME NEW m \in Nat, NEW n \in Nat, NEW b \in Nat, NEW d \in Nat,
         NEW p \in Nat, NEW q \in Nat, m <= n, p + m * b <= q + n * b, b <= d
  PROVE  p + m * d <= q + n * d
<1>1. PICK e \in Nat : d = b + e
  BY SMT
<1>2. m * d = m * b + m * e /\ n * d = n * b + n * e
  BY <1>1, SMT
<1>3. m * e <= n * e
  BY Scale
<1>4. {m * b, m * e, n * b, n * e} \subseteq Nat
  BY SMT
<1>5. QED BY <1>2, <1>3, <1>4, SMT

\* Steps that leave the requests alone, or end them, keep the bound, and so
\* does a fresh buffer.
LEMMA BudgetQuiet ==
  ASSUME TypeInv, TypeInv', BudgetInv, cachesize' <= cachesize,
         \A c \in Cams : req'[c] = req[c] \/ (req'[c] = NoRequest /\ req[c].pc # "alloc")
  PROVE  BudgetInv'
<1>1. PICK biggest \in Sizes, x \in Cams :
         (\A c \in Cams : req[c].size <= biggest) /\ LastPassed(x, biggest)
  BY DEF BudgetInv
<1>2. Allocating' = Allocating
  BY DEF Allocating, NoRequest
<1>3. \A c \in Cams : req'[c].size <= biggest
  BY <1>1, BufferAssumption DEF NoRequest
<1>4. (IF req'[x].pc = "alloc" THEN req'[x].size ELSE 0)
         = (IF req[x].pc = "alloc" THEN req[x].size ELSE 0)
  BY DEF NoRequest
<1>5. LastPassed(x, biggest)'
  <2> DEFINE o == (IF req[x].pc = "alloc" THEN req[x].size ELSE 0)
             n == Cardinality(Allocating \ {x}) * biggest
             m == (Cardinality(Cams) - 1) * biggest
  <2>1. o \in Nat
    BY BufferAssumption DEF TypeInv, PluginTypeOK, BufTypeOK, Cams
  <2>2. n \in Nat /\ m \in Nat
    <3>1. Cardinality(Allocating \ {x}) \in Nat /\ Cardinality(Cams) \in Nat \ {0}
      BY OthersAllocating DEF Allocating
    <3>2. biggest \in Nat BY BufferAssumption
    <3>3. QED BY <3>1, <3>2, SMT
  <2>3. cachesize + o + n <= Budget + m
    BY <1>1 DEF LastPassed
  <2>4. cachesize \in Nat /\ cachesize' \in Nat /\ Budget \in Nat
    BY BufferAssumption DEF TypeInv, PluginTypeOK, BufTypeOK
  <2>5. LastPassed(x, biggest)' <=> cachesize' + o + n <= Budget + m
    BY <1>2, <1>4 DEF LastPassed
  <2> HIDE DEF o, n, m
  <2>6. cachesize' + o + n <= Budget + m
    BY <2>1, <2>2, <2>3, <2>4, Lower
  <2>7. QED BY <2>5, <2>6
<1>6. QED BY <1>1, <1>3, <1>5 DEF BudgetInv

LEMMA BudgetRequest ==
  ASSUME TypeInv, TypeInv', BudgetInv, NEW c \in Cams, NEW size \in Sizes,
         RequestMemBlob(c, size)
  PROVE  BudgetInv'
<1>t. /\ cachesize \in Nat /\ cachesize' \in Nat /\ Budget \in Nat
      /\ req \in [Cams -> [pc : RequestStates, size : Sizes \cup {0},
                           block : Block \cup {NoBlock}]]
      /\ Sizes \subseteq Nat
  BY BufferAssumption DEF TypeInv, PluginTypeOK, BufTypeOK, Cams
<1>s. \A d \in Cams : req[d].size \in Nat
  <2>1. \A d \in Cams : req[d].size \in Sizes \cup {0}
    BY <1>t
  <2>2. Sizes \cup {0} \subseteq Nat
    BY <1>t
  <2>3. QED BY <2>1, <2>2, Zenon
<1>a. Allocating \in SUBSET Cams /\ Allocating' \in SUBSET Cams
  BY DEF Allocating
<1>1. PICK biggest \in Sizes, x \in Cams :
         (\A d \in Cams : req[d].size <= biggest) /\ LastPassed(x, biggest)
  BY DEF BudgetInv
<1>2. CASE Reuse(c, size) \/ Miss(c, size)
  \* A size that is asked for may be the biggest so far.
  <2>1. PICK big \in Sizes : biggest <= big /\ size <= big
    BY <1>t, SMT
  <2>2. /\ cachesize' = cachesize /\ req[c].pc = "idle"
        /\ req' \in [Cams -> [pc : RequestStates, size : Sizes \cup {0},
                              block : Block \cup {NoBlock}]]
        /\ req'[c].pc # "alloc" /\ req'[c].size = size
        /\ \A d \in Cams \ {c} : req'[d] = req[d]
    BY <1>2, <1>t DEF Reuse, Miss, TypeInv, PluginTypeOK, BufTypeOK, Cams
  <2>3. \A d \in Cams : req'[d].size <= big
    BY <1>1, <1>t, <1>s, <2>1, <2>2
  <2>4. Allocating' = Allocating
    BY <2>2 DEF Allocating
  <2>5. (IF req'[x].pc = "alloc" THEN req'[x].size ELSE 0)
           = (IF req[x].pc = "alloc" THEN req[x].size ELSE 0)
    BY <2>2
  <2> DEFINE o == (IF req[x].pc = "alloc" THEN req[x].size ELSE 0)
             n == Cardinality(Allocating \ {x})
             m == Cardinality(Cams) - 1
  <2>6. n \in Nat /\ m \in Nat /\ n <= m
    <3>1. n \in Nat /\ Cardinality(Cams) \in Nat \ {0} /\ n <= Cardinality(Cams) - 1
      BY <1>a, OthersAllocating
    <3>2. QED BY <3>1
  <2>7. o \in Nat
    BY <1>s
  <2>8. cachesize + o + n * biggest <= Budget + m * biggest
    BY <1>1 DEF LastPassed
  <2>9. LastPassed(x, big)' <=> cachesize + o + n * big <= Budget + m * big
    BY <2>2, <2>4, <2>5 DEF LastPassed
  <2> HIDE DEF o, n, m
  <2>10. cachesize + o \in Nat
    BY <1>t, <2>7
  <2>11. (cachesize + o) + n * big <= Budget + m * big
    <3>1. biggest \in Nat /\ big \in Nat BY <1>t
    <3>2. QED BY Grow, <1>t, <2>1, <2>6, <2>8, <2>10, <3>1
  <2>12. QED BY <2>1, <2>3, <2>9, <2>11 DEF BudgetInv
<1>3. CASE CheckBudget(c)
  <2>1. /\ cachesize' = cachesize /\ req[c].pc = "miss"
        /\ \A d \in Cams : req'[d].size = req[d].size
        /\ \A d \in Cams \ {c} : req'[d] = req[d]
    BY <1>3, <1>t DEF CheckBudget
  <2>2. CASE OverBudget(req[c].size)
    <3>1. req'[c].pc = "refused"
      BY <1>3, <1>t, <2>2 DEF CheckBudget
    <3>2. Allocating' = Allocating
      BY <2>1, <3>1 DEF Allocating
    <3>3. LastPassed(x, biggest)'
      BY <1>1, <2>1, <3>1, <3>2 DEF LastPassed
    <3>4. QED BY <1>1, <2>1, <3>3 DEF BudgetInv
  <2>3. CASE ~OverBudget(req[c].size)
    <3>1. req'[c].pc = "alloc"
      BY <1>3, <1>t, <2>3 DEF CheckBudget
    <3> DEFINE n == Cardinality(Allocating' \ {c})
               m == Cardinality(Cams) - 1
    <3>3. n \in Nat /\ m \in Nat /\ n <= m
      <4>1. n \in Nat /\ Cardinality(Cams) \in Nat \ {0} /\ n <= Cardinality(Cams) - 1
        BY <1>a, OthersAllocating
      <4>2. QED BY <4>1
    <3>4. req[c].size \in Nat /\ biggest \in Nat
      BY <1>t, <1>s
    <3>5. cachesize + req[c].size <= Budget
      BY <1>t, <2>3, <3>4 DEF OverBudget
    <3>6. LastPassed(c, biggest)' <=> cachesize + req[c].size + n * biggest <= Budget + m * biggest
      BY <2>1, <3>1 DEF LastPassed
    <3> HIDE DEF n, m
    <3>7. n * biggest <= m * biggest
      BY Scale, <3>3, <3>4
    <3>8. n * biggest \in Nat /\ m * biggest \in Nat
      BY <3>3, <3>4, SMT
    <3>9. cachesize + req[c].size + n * biggest <= Budget + m * biggest
      BY <1>t, <3>4, <3>5, <3>7, <3>8
    <3>10. QED BY <1>1, <2>1, <3>6, <3>9 DEF BudgetInv
  <2>4. QED BY <2>2, <2>3
<1>4. CASE Allocate(c)
  <2>1. /\ cachesize' = cachesize + req[c].size
        /\ req[c].pc = "alloc" /\ req'[c].pc = "done"
        /\ \A d \in Cams : req'[d].size = req[d].size
        /\ \A d \in Cams \ {c} : req'[d] = req[d]
    BY <1>4, <1>t DEF Allocate
  <2>2. Allocating' = Allocating \ {c} /\ c \in Allocating
    BY <2>1 DEF Allocating
  <2>3. req[c].size \in Nat /\ req[c].size <= biggest /\ biggest \in Nat
    BY <1>1, <1>t, <1>s
  <2>4. CASE x = c
    <3>1. Allocating' \ {x} = Allocating \ {x}
      BY <2>2, <2>4
    <3> DEFINE n == Cardinality(Allocating \ {x}) * biggest
               m == (Cardinality(Cams) - 1) * biggest
    <3>2. n \in Nat /\ m \in Nat
      <4>1. Cardinality(Allocating \ {x}) \in Nat /\ Cardinality(Cams) \in Nat \ {0}
        BY <1>a, OthersAllocating
      <4>2. QED BY <2>3, <4>1, SMT
    <3>3. cachesize + req[c].size + n <= Budget + m
      BY <1>1, <2>1, <2>4 DEF LastPassed
    <3>4. LastPassed(x, biggest)' <=> cachesize + req[c].size + 0 + n <= Budget + m
      BY <2>1, <2>4, <3>1 DEF LastPassed
    <3> HIDE DEF n, m
    <3>5. LastPassed(x, biggest)'
      BY <1>t, <2>3, <3>2, <3>3, <3>4
    <3>6. QED BY <1>1, <2>1, <3>5 DEF BudgetInv
  <2>5. CASE x # c
    <3> DEFINE o == (IF req[x].pc = "alloc" THEN req[x].size ELSE 0)
               k == Cardinality(Allocating' \ {x})
               n == Cardinality(Allocating \ {x})
               m == (Cardinality(Cams) - 1) * biggest
    <3>1. n \in Nat /\ Cardinality(Cams) \in Nat \ {0} /\ IsFiniteSet(Allocating \ {x})
      BY <1>a, OthersAllocating
    <3>2. c \in Allocating \ {x} /\ Allocating' \ {x} = (Allocating \ {x}) \ {c}
      BY <2>2, <2>5
    <3>3. k = n - 1
      BY <3>1, <3>2, FS_RemoveElement
    <3>4. k \in Nat
      BY <1>a, OthersAllocating
    <3>5. o \in Nat
      BY <1>s
    <3>6. m \in Nat
      BY <2>3, <3>1, SMT
    <3>7. cachesize + o + n * biggest <= Budget + m
      BY <1>1 DEF LastPassed
    <3>8. LastPassed(x, biggest)' <=> cachesize + req[c].size + o + k * biggest <= Budget + m
      BY <2>1, <2>5 DEF LastPassed
    <3> HIDE DEF o, k, n, m
    <3>9. n * biggest = k * biggest + biggest
      BY <2>3, <3>1, <3>3, <3>4, SMT
    <3>10. k * biggest \in Nat
      BY <2>3, <3>4, SMT
    <3>11. LastPassed(x, biggest)'
      BY <1>t, <2>3, <3>5, <3>6, <3>7, <3>8, <3>9, <3>10
    <3>12. QED BY <1>1, <2>1, <3>11 DEF BudgetInv
  <2>6. QED BY <2>4, <2>5
<1>5. QED BY <1>2, <1>3, <1>4 DEF RequestMemBlob

LEMMA BudgetInit == PluginInit => BudgetInv
<1> SUFFICES ASSUME PluginInit PROVE BudgetInv
  OBVIOUS
<1>1. PICK biggest \in Sizes, x \in Cams : TRUE
  BY BufferAssumption DEF Cams
<1>2. biggest \in Nat /\ Budget \in Nat
  BY BufferAssumption
<1>3. Allocating \ {x} = {} /\ req[x].pc = "idle" /\ cachesize = 0
  BY DEF Allocating, PluginInit, BufInit, NoRequest, Cams
<1>4. Cardinality(Allocating \ {x}) = 0
  BY <1>3, FS_EmptySet
<1>5. Cardinality(Cams) \in Nat \ {0}
  BY OthersAllocating
<1>6. (Cardinality(Cams) - 1) * biggest \in Nat
  BY <1>2, <1>5, SMT
<1>7. 0 * biggest = 0
  BY <1>2, SMT
<1>8. LastPassed(x, biggest)
  BY <1>2, <1>3, <1>4, <1>6, <1>7 DEF LastPassed
<1>9. \A c \in Cams : req[c].size <= biggest
  BY <1>2 DEF PluginInit, BufInit, NoRequest, Cams
<1>10. QED BY <1>8, <1>9 DEF BudgetInv

LEMMA BudgetStep ==
  ASSUME TypeInv, TypeInv', BudgetInv, [PluginNext]_pvars
  PROVE  BudgetInv'
<1>t. /\ cachesize \in Nat
      /\ req \in [Requesters -> [pc : RequestStates, size : Sizes \cup {0},
                                 block : Block \cup {NoBlock}]]
  BY DEF TypeInv, PluginTypeOK, BufTypeOK
<1>1. CASE \E c \in Cams : RequestImage(c)
  BY <1>1, BudgetRequest DEF RequestImage
<1>2. CASE InitializeBuffer
  BY <1>2, <1>t, BudgetQuiet DEF InitializeBuffer
<1>3. CASE \E c \in Cams : StoreImage(c) \/ DropFrame(c)
  <2>1. cachesize' = cachesize
    BY <1>3 DEF StoreImage, DropFrame
  <2>2. \A c \in Cams :
           req'[c] = req[c] \/ (req'[c] = NoRequest /\ req[c].pc # "alloc")
    BY <1>3, <1>t DEF StoreImage, DropFrame, Cams
  <2>3. QED BY <1>t, <2>1, <2>2, BudgetQuiet
<1>4. CASE UNCHANGED <<cachesize, req>>
  BY <1>4, <1>t, BudgetQuiet
<1>5. QED
  BY <1>1, <1>2, <1>3, <1>4
  DEF PluginNext, pvars, bufVars, InitializePipeline, StartCheck, StartImpl,
      StartFlag, StopCheck, StopLock, StopImpl, Release, NotifyData, PushData,
      GraphReturns, PollCheck, PollPipeline, PollCreate, pollFrame

\* Camera threads that race between the test of the budget and the charge can
\* exceed it by less than one block for each other thread, however many there
\* are.
THEOREM MemoryBounded == PluginSpec => []BudgetBounded
<1>1. PluginInit => TypeInv /\ BudgetInv
  BY TypeInit, BudgetInit
<1>2. (TypeInv /\ BudgetInv) /\ [PluginNext]_pvars => (TypeInv /\ BudgetInv)'
  BY TypeStep, BudgetStep
<1>3. TypeInv /\ BudgetInv => BudgetBounded
  <2> SUFFICES ASSUME TypeInv, BudgetInv PROVE BudgetBounded
    OBVIOUS
  <2>1. PICK biggest \in Sizes, x \in Cams :
           (\A c \in Cams : req[c].size <= biggest) /\ LastPassed(x, biggest)
    BY DEF BudgetInv
  <2> DEFINE o == (IF req[x].pc = "alloc" THEN req[x].size ELSE 0)
             n == Cardinality(Allocating \ {x}) * biggest
             m == (Cardinality(Cams) - 1) * biggest
  <2>2. o \in Nat
    BY BufferAssumption DEF TypeInv, PluginTypeOK, BufTypeOK, Cams
  <2>3. n \in Nat /\ m \in Nat
    <3>1. Cardinality(Allocating \ {x}) \in Nat /\ Cardinality(Cams) \in Nat \ {0}
      BY OthersAllocating DEF Allocating
    <3>2. biggest \in Nat BY BufferAssumption
    <3>3. QED BY <3>1, <3>2, SMT
  <2>4. cachesize + o + n <= Budget + m
    BY <2>1 DEF LastPassed
  <2>5. cachesize \in Nat /\ Budget \in Nat
    BY BufferAssumption DEF TypeInv, PluginTypeOK, BufTypeOK
  <2> HIDE DEF o, n, m
  <2>6. cachesize <= Budget + m
    BY <2>2, <2>3, <2>4, <2>5
  <2>7. QED BY <2>6 DEF BudgetBounded, m, Cams
<1>4. QED BY <1>1, <1>2, <1>3, PTL DEF PluginSpec

-----------------------------------------------------------------------------
(* The first session.                                                      *)

\* m_is_init and m_is_start follow the host until it releases the plugin, and
\* a poller finds a pipeline until then.
SessionInv ==
    /\ sessions \in {0, 1}
    /\ host # "out" => sessions = 0 /\ picbuf
    /\ host = "in" => inited /\ impl \in Ready
    /\ inited => host = "in" \/ sessions = 1
    /\ started => host = "in"
    /\ life \in {"starting", "flagging", "locking", "stopping"} => host = "in"
    /\ life = "initializing" => sessions = 0 /\ picbuf /\ ~inited
    /\ \A r \in Pollers : poll[r] = "pipeline" => inited
    /\ \A r \in Pollers : poll[r] = "create" => sessions = 1

\* A thread that processes no frame holds no block.
FrameInv ==
    /\ \A c \in Cams : cam[c] # "idle" => started
    /\ \A c \in Cams : cam[c] = "idle" => images[c] = {} /\ req[c].pc = "idle"
    /\ \A c \in Cams : cam[c] = "push" => req[c].pc = "idle"
    /\ ingraph # {} => host = "in"

BlockInv ==
    /\ OwnedOnce
    /\ NoOrphanBlock
    /\ \A b \in free \cup lent : b.name < keyid

FirstSession == MaxSessions <= 1

LEMMA SessionInit == PluginInit => SessionInv /\ FrameInv /\ BlockInv
  BY DEF PluginInit, BufInit, SessionInv, FrameInv, BlockInv, OwnedOnce,
         NoOrphanBlock, CamBlocks, NoRequest, Cams

LEMMA SessionStep ==
  ASSUME FirstSession, TypeInv, SessionInv, [PluginNext]_pvars
  PROVE  SessionInv'
<1> USE PluginAssumption DEF FirstSession, SessionInv, TypeInv, PluginTypeOK, Ready
<1>1. CASE InitializeBuffer
  BY <1>1 DEF InitializeBuffer
<1>2. CASE InitializePipeline
  BY <1>2 DEF InitializePipeline
<1>3. CASE StartCheck
  BY <1>3 DEF StartCheck
<1>4. CASE StartImpl
  BY <1>4 DEF StartImpl
<1>5. CASE StartFlag
  BY <1>5 DEF StartFlag
<1>6. CASE StopCheck
  BY <1>6 DEF StopCheck
<1>7. CASE StopLock
  BY <1>7 DEF StopLock
<1>8. CASE StopImpl
  BY <1>8 DEF StopImpl
<1>9. CASE Release
  BY <1>9 DEF Release
<1>10. CASE \E r \in Pollers : PollCheck(r)
  BY <1>10 DEF PollCheck, pollFrame
<1>11. CASE \E r \in Pollers : PollPipeline(r)
  BY <1>11 DEF PollPipeline, pollFrame
<1>12. CASE \E r \in Pollers : PollCreate(r)
  BY <1>12 DEF PollCreate
<1>13. CASE UNCHANGED <<host, sessions, life, inited, started, impl, picbuf, poll>>
  BY <1>13
<1>14. QED
  BY <1>1, <1>2, <1>3, <1>4, <1>5, <1>6, <1>7, <1>8, <1>9, <1>10, <1>11, <1>12, <1>13
  DEF PluginNext, pvars, NotifyData, RequestImage, StoreImage, DropFrame,
      PushData, GraphReturns

LEMMA FrameStep ==
  ASSUME FirstSession, TypeInv, SessionInv, FrameInv, [PluginNext]_pvars
  PROVE  FrameInv'
<1> USE DEF FrameInv, TypeInv, PluginTypeOK, BufTypeOK, camVars, bufVars, Cams
<1>1. CASE InitializeBuffer
  BY <1>1 DEF InitializeBuffer
<1>2. CASE InitializePipeline
  BY <1>2 DEF InitializePipeline, SessionInv
<1>3. CASE StartCheck \/ StartImpl \/ StartFlag \/ StopCheck
  BY <1>3 DEF StartCheck, StartImpl, StartFlag, StopCheck
<1>4. CASE StopLock
  BY <1>4 DEF StopLock, SharedHolders
<1>5. CASE StopImpl
  BY <1>5 DEF StopImpl
<1>6. CASE Release
  BY <1>6 DEF Release
<1>7. CASE \E c \in Cams : NotifyData(c)
  BY <1>7 DEF NotifyData
<1>8. ASSUME NEW c \in Cams, RequestImage(c) PROVE FrameInv'
  <2>1. /\ cam[c] = "parse"
        /\ UNCHANGED <<host, started, cam, images, ingraph>>
    BY <1>8 DEF RequestImage
  <2>2. \A d \in Cams : d # c => req'[d] = req[d]
    BY <1>8 DEF RequestImage, RequestMemBlob, Reuse, Miss, CheckBudget, Allocate
  <2>3. QED BY <2>1, <2>2
<1>9. CASE \E c \in Cams : StoreImage(c)
  BY <1>9 DEF StoreImage, NoRequest
<1>10. CASE \E c \in Cams : DropFrame(c)
  BY <1>10 DEF DropFrame, NoRequest
<1>11. CASE \E c \in Cams : PushData(c)
  BY <1>11 DEF PushData, SessionInv
<1>12. CASE \E b \in ingraph : GraphReturns(b)
  BY <1>12 DEF GraphReturns
<1>13. CASE \E r \in Pollers : PollCreate(r)
  BY <1>13 DEF PollCreate
<1>14. CASE \E r \in Pollers : PollCheck(r) \/ PollPipeline(r)
  BY <1>14 DEF PollCheck, PollPipeline, pollFrame
<1>15. CASE UNCHANGED pvars
  BY <1>15 DEF pvars
<1>16. QED
  BY <1>1, <1>2, <1>3, <1>4, <1>5, <1>6, <1>7, <1>8, <1>9, <1>10, <1>11, <1>12,
     <1>13, <1>14, <1>15
  DEF PluginNext

LEMMA BlockRequest ==
  ASSUME TypeInv, FrameInv, BlockInv, SessionInv, NEW c \in Cams, RequestImage(c)
  PROVE  BlockInv'
<1>1. PICK size \in Sizes : RequestMemBlob(c, size)
  BY DEF RequestImage
<1>2. UNCHANGED <<picbuf, images, ingraph>> /\ picbuf
  BY DEF RequestImage, camVars, FrameInv, SessionInv
<1>t. /\ req \in [Cams -> [pc : RequestStates, size : Sizes \cup {0},
                           block : Block \cup {NoBlock}]]
      /\ keyid \in Nat
      /\ \A b \in free \cup lent : b.name \in Nat
  BY DEF TypeInv, PluginTypeOK, BufTypeOK, Cams, Block
<1>3. CASE Reuse(c, size)
  <2>1. PICK b \in free :
          /\ req[c].pc = "idle"
          /\ free' = free \ {b} /\ lent' = lent \cup {b}
          /\ req' = [req EXCEPT ![c] = [pc |-> "done", size |-> size, block |-> b]]
          /\ keyid' = keyid
    BY <1>3 DEF Reuse
  <2>2. b \notin lent
    BY DEF BlockInv, OwnedOnce
  <2>3. /\ CamBlocks(c) = images[c] /\ CamBlocks(c)' = images[c] \cup {b}
        /\ \A d \in Cams \ {c} : CamBlocks(d)' = CamBlocks(d)
    BY <1>2, <1>t, <2>1 DEF CamBlocks
  <2>4. QED BY <1>2, <2>1, <2>2, <2>3 DEF BlockInv, OwnedOnce, NoOrphanBlock
<1>4. CASE Miss(c, size) \/ CheckBudget(c)
  <2>1. \A d \in Cams : CamBlocks(d)' = CamBlocks(d)
    BY <1>2, <1>4, <1>t DEF CamBlocks, Miss, CheckBudget
  <2>2. UNCHANGED <<keyid, free, lent>>
    BY <1>4 DEF Miss, CheckBudget
  <2>3. QED BY <1>2, <2>1, <2>2 DEF BlockInv, OwnedOnce, NoOrphanBlock
<1>5. CASE Allocate(c)
  <2> DEFINE b == [name |-> keyid, size |-> req[c].size]
  <2>1. /\ req[c].pc = "alloc"
        /\ free' = free /\ lent' = lent \cup {b} /\ keyid' = keyid + 1
        /\ req' = [req EXCEPT ![c].pc = "done", ![c].block = b]
    BY <1>5 DEF Allocate
  <2>2. b.name = keyid
    OBVIOUS
  <2> HIDE DEF b
  <2>3. \A a \in free \cup lent : a.name # b.name
    BY <1>t, <2>2 DEF BlockInv
  <2>4. b \notin free \cup lent
    BY <2>3
  <2>5. /\ CamBlocks(c) = images[c] /\ CamBlocks(c)' = images[c] \cup {b}
        /\ \A d \in Cams \ {c} : CamBlocks(d)' = CamBlocks(d)
    BY <1>2, <1>t, <2>1 DEF CamBlocks
  <2>6. OwnedOnce'
    BY <1>2, <2>1, <2>3, <2>4, <2>5 DEF BlockInv, OwnedOnce
  <2>7. \A a \in (free \cup lent)' : a.name < keyid'
    BY <1>t, <2>1, <2>2 DEF BlockInv
  <2>8. QED BY <1>2, <2>1, <2>6, <2>7 DEF BlockInv, NoOrphanBlock
<1>6. QED BY <1>1, <1>3, <1>4, <1>5 DEF RequestMemBlob

\* Blocks that some threads or the graph give back.
LEMMA BlockReturn ==
  ASSUME TypeInv, BlockInv, NEW B \in SUBSET lent, ReturnBlobs(B), picbuf,
         UNCHANGED <<picbuf, keyid>>, ingraph' = ingraph \ B,
         \A c \in Cams : CamBlocks(c)' = CamBlocks(c) \ B
  PROVE  BlockInv'
<1>1. free' = free \cup B /\ lent' = lent \ B
  BY DEF ReturnBlobs
<1>2. /\ free' \cap lent' = {} /\ (free \cup lent)' = free \cup lent
  BY <1>1 DEF BlockInv, OwnedOnce
<1>3. lent' = ingraph' \cup UNION {CamBlocks(c)' : c \in Cams}
  BY <1>1 DEF BlockInv, OwnedOnce
<1>4. OwnedOnce'
  BY <1>2, <1>3 DEF BlockInv, OwnedOnce
<1>5. QED BY <1>2, <1>4 DEF BlockInv, NoOrphanBlock

LEMMA BlockStep ==
  ASSUME FirstSession, TypeInv, SessionInv, FrameInv, BlockInv, [PluginNext]_pvars
  PROVE  BlockInv'
<1>t. /\ req \in [Cams -> [pc : RequestStates, size : Sizes \cup {0},
                           block : Block \cup {NoBlock}]]
      /\ images \in [Cams -> SUBSET Block]
      /\ cam \in [Cams -> {"idle", "parse", "push"}]
  BY DEF TypeInv, PluginTypeOK, BufTypeOK, Cams
\* While no frame is processed all blocks are in the graph.
<1>q. ASSUME ~started PROVE lent = ingraph /\ \A c \in Cams : CamBlocks(c) = {}
  <2>1. \A c \in Cams : CamBlocks(c) = {}
    BY <1>q, <1>t DEF FrameInv, CamBlocks
  <2>2. QED BY <2>1 DEF BlockInv, OwnedOnce
<1>1. CASE \E c \in Cams : RequestImage(c)
  BY <1>1, BlockRequest
<1>2. CASE InitializeBuffer
  <2>1. host # "in" /\ ~started
    BY <1>2 DEF InitializeBuffer, SessionInv
  <2>2. ingraph = {} /\ lent = {} /\ \A c \in Cams : CamBlocks(c) = {}
    BY <1>q, <2>1 DEF FrameInv
  <2>3. \A c \in Cams : CamBlocks(c)' = CamBlocks(c)
    BY <1>2 DEF InitializeBuffer, CamBlocks, camVars
  <2>4. QED BY <1>2, <2>2, <2>3 DEF InitializeBuffer, BlockInv, OwnedOnce, NoOrphanBlock
<1>3. CASE StopImpl
  <2>1. picbuf /\ ingraph \in SUBSET lent
    BY <1>3 DEF StopImpl, SessionInv, BlockInv, OwnedOnce
  <2>2. \A c \in Cams : CamBlocks(c)' = CamBlocks(c) \ ingraph
    BY <1>3 DEF StopImpl, CamBlocks, camVars, BlockInv, OwnedOnce
  <2>3. QED BY <1>3, <2>1, <2>2, BlockReturn DEF StopImpl
<1>4. CASE Release
  <2>1. lent = ingraph /\ \A c \in Cams : CamBlocks(c) = {}
    BY <1>4, <1>q DEF Release
  <2>2. \A c \in Cams : CamBlocks(c)' = CamBlocks(c)
    BY <1>4 DEF Release, CamBlocks, camVars
  <2>3. QED BY <1>4, <2>1, <2>2 DEF Release, BlockInv, OwnedOnce, NoOrphanBlock
<1>5. ASSUME NEW c \in Cams, StoreImage(c) PROVE BlockInv'
  <2>1. \A d \in Cams : CamBlocks(d)' = CamBlocks(d)
    BY <1>5, <1>t DEF StoreImage, CamBlocks, NoRequest
  <2>2. UNCHANGED <<keyid, free, lent, picbuf, ingraph>>
    BY <1>5 DEF StoreImage
  <2>3. QED BY <2>1, <2>2 DEF BlockInv, OwnedOnce, NoOrphanBlock
<1>6. ASSUME NEW c \in Cams, DropFrame(c) PROVE BlockInv'
  <2>1. CamBlocks(c) = images[c] /\ CamBlocks(c)' = {}
    BY <1>6, <1>t DEF DropFrame, CamBlocks, NoRequest
  <2>2. \A d \in Cams \ {c} : CamBlocks(d)' = CamBlocks(d)
    BY <1>6, <1>t DEF DropFrame, CamBlocks
  <2>3. images[c] \in SUBSET lent /\ ingraph \cap images[c] = {}
    BY <2>1 DEF BlockInv, OwnedOnce
  <2>4. \A d \in Cams : CamBlocks(d)' = CamBlocks(d) \ images[c]
    BY <2>1, <2>2 DEF BlockInv, OwnedOnce
  <2>5. /\ ReturnBlobs(images[c]) /\ picbuf /\ UNCHANGED <<picbuf, keyid, ingraph>>
    BY <1>6 DEF DropFrame, FrameInv, SessionInv
  <2>6. QED BY <2>3, <2>4, <2>5, BlockReturn
<1>7. ASSUME NEW c \in Cams, PushData(c) PROVE BlockInv'
  <2>1. CamBlocks(c) = images[c] /\ CamBlocks(c)' = {}
    BY <1>7, <1>t DEF PushData, CamBlocks, FrameInv
  <2>2. \A d \in Cams \ {c} : CamBlocks(d)' = CamBlocks(d)
    BY <1>7, <1>t DEF PushData, CamBlocks
  <2>3. images[c] \in SUBSET lent /\ ingraph \cap images[c] = {}
    BY <2>1 DEF BlockInv, OwnedOnce
  <2>4. picbuf /\ UNCHANGED <<picbuf, keyid>>
    BY <1>7 DEF PushData, FrameInv, SessionInv
  <2>5. CASE ingraph' = ingraph \cup images[c] /\ UNCHANGED <<free, lent>>
    <3>1. lent' = ingraph' \cup UNION {CamBlocks(d)' : d \in Cams}
      BY <2>1, <2>2, <2>5 DEF BlockInv, OwnedOnce
    <3>2. \A d \in Cams : CamBlocks(d)' \cap ingraph' = {}
      BY <2>1, <2>2, <2>5 DEF BlockInv, OwnedOnce
    <3>3. \A d, e \in Cams : d # e => CamBlocks(d)' \cap CamBlocks(e)' = {}
      BY <2>1, <2>2 DEF BlockInv, OwnedOnce
    <3>4. QED BY <2>4, <2>5, <3>1, <3>2, <3>3 DEF BlockInv, OwnedOnce, NoOrphanBlock
  <2>6. CASE ReturnBlobs(images[c]) /\ UNCHANGED ingraph
    <3>1. \A d \in Cams : CamBlocks(d)' = CamBlocks(d) \ images[c]
      BY <2>1, <2>2 DEF BlockInv, OwnedOnce
    <3>2. QED BY <2>3, <2>4, <2>6, <3>1, BlockReturn
  <2>7. QED BY <1>7, <2>5, <2>6 DEF PushData
<1>8. ASSUME NEW b \in ingraph, GraphReturns(b) PROVE BlockInv'
  <2>1. {b} \in SUBSET lent /\ \A c \in Cams : b \notin CamBlocks(c)
    BY DEF BlockInv, OwnedOnce
  <2>2. \A c \in Cams : CamBlocks(c)' = CamBlocks(c) \ {b}
    BY <1>8, <2>1 DEF GraphReturns, CamBlocks, camVars
  <2>3. picbuf
    BY DEF FrameInv, SessionInv
  <2>4. QED BY <1>8, <2>1, <2>2, <2>3, BlockReturn DEF GraphReturns
<1>9. ASSUME NEW r \in Pollers, PollCreate(r) PROVE BlockInv'
  <2>1. ingraph = {}
    BY <1>9 DEF PollCreate, SessionInv, FrameInv
  <2>2. UNCHANGED <<keyid, free, lent, req, picbuf, images, ingraph>>
    BY <1>9, <2>1 DEF PollCreate, camVars
  <2>3. QED BY <2>2 DEF BlockInv, OwnedOnce, NoOrphanBlock, CamBlocks
<1>10. CASE UNCHANGED <<keyid, free, lent, req, picbuf, images, ingraph>>
  BY <1>10 DEF BlockInv, OwnedOnce, NoOrphanBlock, CamBlocks
<1>11. QED
  BY <1>1, <1>2, <1>3, <1>4, <1>5, <1>6, <1>7, <1>8, <1>9, <1>10
  DEF PluginNext, pvars, bufVars, camVars, pollFrame, InitializePipeline,
      StartCheck, StartImpl, StartFlag, StopCheck, StopLock, NotifyData,
      PollCheck, PollPipeline

LEMMA SessionAlways ==
  ASSUME FirstSession
  PROVE  PluginSpec => [](TypeInv /\ SessionInv /\ FrameInv /\ BlockInv)
<1> DEFINE Inv == TypeInv /\ SessionInv /\ FrameInv /\ BlockInv
<1>1. PluginInit => Inv
  BY TypeInit, SessionInit
<1>2. Inv /\ [PluginNext]_pvars => Inv'
  BY TypeStep, SessionStep, FrameStep, BlockStep
<1>3. QED BY <1>1, <1>2, PTL DEF PluginSpec

\* In the first session a frame is processed only while the plugin is started
\* and the memory and the graph it uses are in place.
THEOREM FramesProtected ==
  ASSUME FirstSession
  PROVE  PluginSpec => []ProcessesOnlyStarted
<1>1. SessionInv /\ FrameInv => ProcessesOnlyStarted
  BY DEF SessionInv, FrameInv, ProcessesOnlyStarted
<1>2. QED BY <1>1, SessionAlways, PTL

\* In the first session Start and Stop find the pipeline they use unchecked.
THEOREM InitProtects ==
  ASSUME FirstSession
  PROVE  PluginSpec => []InitMeansImpl
<1>1. SessionInv => InitMeansImpl
  BY DEF SessionInv, InitMeansImpl
<1>2. QED BY <1>1, SessionAlways, PTL

\* In the first session no image block has two owners, and none is lost,
\* whatever the camera threads, the graph, Stop and Release do.
THEOREM BlocksOwnedOnce ==
  ASSUME FirstSession
  PROVE  PluginSpec => []OwnedOnce
<1>1. BlockInv => OwnedOnce
  BY DEF BlockInv
<1>2. QED BY <1>1, SessionAlways, PTL

\* In the first session no image block outlives the buffer its deleter uses.
THEOREM BlocksReturned ==
  ASSUME FirstSession
  PROVE  PluginSpec => []NoOrphanBlock
<1>1. BlockInv => NoOrphanBlock
  BY DEF BlockInv
<1>2. QED BY <1>1, SessionAlways, PTL

-----------------------------------------------------------------------------
(* The account of the memory.                                              *)

AccountInv == IsFiniteSet(Bytes(free \cup lent)) /\ Accounted

LEMMA NoBytes == IsFiniteSet(Bytes({})) /\ TotalSize({}) = 0
<1>1. Bytes({}) = {}
  BY DEF Bytes
<1>2. QED BY <1>1, FS_EmptySet DEF TotalSize

\* A new block adds its size.
LEMMA AddBytes ==
  ASSUME NEW B, IsFiniteSet(Bytes(B)), NEW b, b \notin B, b.size \in Nat
  PROVE  /\ IsFiniteSet(Bytes(B \cup {b}))
         /\ TotalSize(B \cup {b}) = TotalSize(B) + b.size
<1> DEFINE own(x) == {x} \X (1..x.size)
           n == b.size
<1>1. IsFiniteSet(1..n) /\ Cardinality(1..n) = n
  <2> HIDE DEF n
  <2>1. n \in Nat
    BY DEF n
  <2>2. 1 \in Int /\ n \in Int /\ (1 > n => n = 0)
    BY <2>1
  <2>3. /\ IsFiniteSet(1..n)
        /\ Cardinality(1..n) = IF 1 > n THEN 0 ELSE n - 1 + 1
    BY <2>2, FS_Interval
  <2>4. QED BY <2>1, <2>2, <2>3
<1>2. IsFiniteSet({b}) /\ Cardinality({b}) = 1
  BY FS_Singleton
<1>3. IsFiniteSet(own(b)) /\ Cardinality(own(b)) = n
  <2>1. /\ IsFiniteSet({b} \X (1..n))
        /\ Cardinality({b} \X (1..n)) = Cardinality({b}) * Cardinality(1..n)
    BY <1>1, <1>2, FS_Product
  <2> HIDE DEF n
  <2>2. 1 * n = n
    BY DEF n
  <2>3. QED BY <1>1, <1>2, <2>1, <2>2, Zenon DEF n
<1>4. \A x : x \in own(b) => x[1] = b
  OBVIOUS
<1>5. \A x : x \in Bytes(B) => x[1] \in B
  <2> SUFFICES ASSUME NEW y \in B, NEW x \in own(y) PROVE x[1] \in B
    BY DEF Bytes
  <2> QED OBVIOUS
<1> HIDE DEF own
<1>6. Bytes(B \cup {b}) = Bytes(B) \cup own(b)
  <2>1. \A C : Bytes(C) = UNION {own(x) : x \in C}
    BY DEF Bytes, own
  <2>2. UNION {own(x) : x \in B \cup {b}} = (UNION {own(x) : x \in B}) \cup own(b)
    OBVIOUS
  <2>3. QED BY <2>1, <2>2
<1>7. Bytes(B) \cap own(b) = {}
  BY <1>4, <1>5
<1>8. /\ IsFiniteSet(Bytes(B) \cup own(b))
      /\ Cardinality(Bytes(B) \cup own(b)) =
           Cardinality(Bytes(B)) + Cardinality(own(b)) - Cardinality(Bytes(B) \cap own(b))
  BY <1>3, FS_Union
<1>9. Cardinality(Bytes(B)) \in Nat /\ Cardinality({}) = 0
  BY FS_CardinalityType, FS_EmptySet
<1>10. /\ IsFiniteSet(Bytes(B \cup {b}))
       /\ Cardinality(Bytes(B \cup {b})) = Cardinality(Bytes(B)) + n - 0
  BY <1>3, <1>6, <1>7, <1>8, <1>9, Zenon
<1>11. QED BY <1>9, <1>10 DEF TotalSize

LEMMA AccountStays ==
  ASSUME AccountInv, (free \cup lent)' = free \cup lent,
         UNCHANGED <<cachesize, picbuf>>
  PROVE  AccountInv'
  BY DEF AccountInv, Accounted

LEMMA AccountStep ==
  ASSUME FirstSession, TypeInv, SessionInv, FrameInv, BlockInv, AccountInv,
         [PluginNext]_pvars
  PROVE  AccountInv'
\* While no frame is processed all blocks are in the graph.
<1>q. ASSUME ~started PROVE lent = ingraph
  <2>1. \A c \in Cams : CamBlocks(c) = {}
    BY <1>q DEF FrameInv, CamBlocks, TypeInv, PluginTypeOK
  <2>2. QED BY <2>1 DEF BlockInv, OwnedOnce
<1>r. ASSUME NEW B \in SUBSET lent, ReturnBlobs(B) PROVE (free \cup lent)' = free \cup lent
  BY <1>r DEF ReturnBlobs
<1>1. ASSUME NEW c \in Cams, RequestImage(c) PROVE AccountInv'
  <2>1. PICK size \in Sizes : RequestMemBlob(c, size)
    BY <1>1 DEF RequestImage
  <2>2. picbuf' = picbuf
    BY <1>1 DEF RequestImage
  <2>3. CASE Reuse(c, size) \/ Miss(c, size) \/ CheckBudget(c)
    <3>1. (free \cup lent)' = free \cup lent /\ cachesize' = cachesize
      BY <2>3 DEF Reuse, Miss, CheckBudget
    <3>2. QED BY <2>2, <3>1, AccountStays
  <2>4. CASE Allocate(c)
    <3> DEFINE b == [name |-> keyid, size |-> req[c].size]
    <3>1. /\ (free \cup lent)' = (free \cup lent) \cup {b}
          /\ cachesize' = cachesize + b.size
          /\ req[c].pc = "alloc"
      BY <2>4 DEF Allocate
    <3>2. b.name = keyid /\ b.size = req[c].size
      OBVIOUS
    <3>3. b.size \in Nat
      BY <3>1, <3>2, BufferAssumption DEF TypeInv
    <3> HIDE DEF b
    <3>4. b \notin free \cup lent
      BY <3>2 DEF BlockInv, TypeInv, PluginTypeOK, BufTypeOK
    <3>5. QED BY <2>2, <3>1, <3>3, <3>4, AddBytes DEF AccountInv, Accounted
  <2>5. QED BY <2>1, <2>3, <2>4 DEF RequestMemBlob
<1>2. CASE InitializeBuffer
  <2>1. ~started /\ ingraph = {}
    BY <1>2 DEF InitializeBuffer, SessionInv, FrameInv
  <2>2. (free \cup lent)' = {} /\ cachesize' = 0
    BY <1>2, <1>q, <2>1 DEF InitializeBuffer
  <2>3. QED BY <2>2, NoBytes DEF AccountInv, Accounted
<1>3. CASE Release
  <2>1. (free \cup lent)' = {} /\ picbuf' = FALSE
    BY <1>3, <1>q DEF Release
  <2>2. QED BY <2>1, NoBytes DEF AccountInv, Accounted
<1>4. CASE StopImpl \/ \E b \in ingraph : GraphReturns(b)
  <2>1. ingraph \in SUBSET lent
    BY DEF BlockInv, OwnedOnce
  <2>2. QED BY <1>4, <1>r, <2>1, AccountStays DEF StopImpl, GraphReturns
<1>5. ASSUME NEW c \in Cams, DropFrame(c) \/ PushData(c) PROVE AccountInv'
  <2>1. images[c] \in SUBSET lent
    BY DEF BlockInv, OwnedOnce, CamBlocks
  <2>2. (free \cup lent)' = free \cup lent /\ UNCHANGED <<cachesize, picbuf>>
    BY <1>5, <1>r, <2>1 DEF DropFrame, PushData
  <2>3. QED BY <2>2, AccountStays
<1>6. ASSUME NEW r \in Pollers, PollCreate(r) PROVE AccountInv'
  <2>1. ingraph = {}
    BY <1>6 DEF PollCreate, SessionInv, FrameInv
  <2>2. QED BY <1>6, <2>1, AccountStays DEF PollCreate
<1>7. CASE UNCHANGED <<free, lent, cachesize, picbuf>>
  BY <1>7, AccountStays
<1>8. QED
  BY <1>1, <1>2, <1>3, <1>4, <1>5, <1>6, <1>7
  DEF PluginNext, pvars, bufVars, camVars, pollFrame, InitializePipeline,
      StartCheck, StartImpl, StartFlag, StopCheck, StopLock, NotifyData, StoreImage,
      PollCheck, PollPipeline

\* In the first session cache_size is the size of the blocks there are, free or
\* in use, although RequestMemBlob charges a block in another critical section
\* than the one that finds no free one.
THEOREM MemoryAccounted ==
  ASSUME FirstSession
  PROVE  PluginSpec => []Accounted
<1> DEFINE Inv == TypeInv /\ SessionInv /\ FrameInv /\ BlockInv /\ AccountInv
<1>1. PluginInit => Inv
  <2> SUFFICES ASSUME PluginInit PROVE AccountInv
    BY TypeInit, SessionInit
  <2>1. free \cup lent = {} /\ cachesize = 0
    BY DEF PluginInit, BufInit
  <2>2. QED BY <2>1, NoBytes DEF AccountInv, Accounted
<1>2. Inv /\ [PluginNext]_pvars => Inv'
  BY TypeStep, SessionStep, FrameStep, BlockStep, AccountStep
<1>3. Inv => Accounted
  BY DEF AccountInv
<1> HIDE DEF Inv
<1>4. QED BY <1>1, <1>2, <1>3, PTL DEF PluginSpec
=============================================================================
