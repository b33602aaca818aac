--------------------------- MODULE FixedMembuffer ---------------------------
(***************************************************************************)
(* aisdk::base::FixedMembuffer (mem_buffer.h): the image memory of the     *)
(* SDK.  RequestMemBlob reuses a free block of exactly the requested size, *)
(* allocates one while the budget lasts, and returns nullptr otherwise.    *)
(* The deleter of the shared_ptr puts the block back.                      *)
(*                                                                         *)
(* cache_lock is held to search the free blocks and to account for a new   *)
(* one; the budget is tested between the two, without it.                  *)
(***************************************************************************)
EXTENDS Integers, FiniteSets

CONSTANTS
    Requesters,   \* threads that call RequestMemBlob
    Sizes,        \* sizes they ask for
    Budget        \* warning_size

ASSUME BufferAssumption ==
    /\ IsFiniteSet(Requesters) /\ Requesters # {}
    /\ Sizes \subseteq Nat \ {0} /\ Sizes # {}
    /\ Budget \in Nat

VARIABLES
    keyid,      \* key_id: the name of the next block
    cachesize,  \* cache_size
    free,       \* free_cache
    lent,       \* blocks some shared_ptr owns
    req         \* where each thread is in RequestMemBlob

bufVars == <<keyid, cachesize, free, lent, req>>

Block == [name : Nat, size : Sizes]
NoBlock == [name |-> 0, size |-> 0]
NoRequest == [pc |-> "idle", size |-> 0, block |-> NoBlock]

BufInit ==
    /\ keyid = 0
    /\ cachesize = 0
    /\ free = {}
    /\ lent = {}
    /\ req = [c \in Requesters |-> NoRequest]

-----------------------------------------------------------------------------
(* RequestMemBlob.                                                         *)

ReuseKept(c, size) ==
    \E b \in free :
        /\ req[c].pc = "idle"
        /\ b.size = size
        /\ lent' = lent \cup {b}
        /\ req' = [req EXCEPT ![c] = [pc |-> "done", size |-> size, block |-> b]]
        /\ UNCHANGED <<keyid, cachesize, free>>

\* The first critical section finds a free block of the size.  Which one
\* depends on the order of the names, which nothing else looks at.
Reuse(c, size) ==
    \E b \in free :
        /\ req[c].pc = "idle"
        /\ b.size = size
        /\ free' = free \ {b}
        /\ lent' = lent \cup {b}
        /\ req' = [req EXCEPT ![c] = [pc |-> "done", size |-> size, block |-> b]]
        /\ UNCHANGED <<keyid, cachesize>>

\* ... or it finds none.
Miss(c, size) ==
    /\ req[c].pc = "idle"
    /\ \A b \in free : b.size # size
    /\ req' = [req EXCEPT ![c] = [pc |-> "miss", size |-> size, block |-> NoBlock]]
    /\ UNCHANGED <<keyid, cachesize, free, lent>>

OverBudgetLate(size) == cachesize > Budget

\* The test of the budget.
OverBudget(size) == cachesize + size > Budget

\* It is made without the lock: others may allocate before this thread does.
CheckBudget(c) ==
    /\ req[c].pc = "miss"
    /\ req' = [req EXCEPT ![c].pc = IF OverBudget(req[c].size) THEN "refused" ELSE "alloc"]
    /\ UNCHANGED <<keyid, cachesize, free, lent>>

AllocateUncharged(c) ==
    LET b == [name |-> keyid, size |-> req[c].size] IN
    /\ req[c].pc = "alloc"
    /\ keyid' = keyid + 1
    /\ lent' = lent \cup {b}
    /\ req' = [req EXCEPT ![c].pc = "done", ![c].block = b]
    /\ UNCHANGED <<cachesize, free>>

\* The second critical section names the new block and accounts for it.
Allocate(c) ==
    LET b == [name |-> keyid, size |-> req[c].size] IN
    /\ req[c].pc = "alloc"
    /\ keyid' = keyid + 1
    /\ cachesize' = cachesize + b.size
    /\ lent' = lent \cup {b}
    /\ req' = [req EXCEPT ![c].pc = "done", ![c].block = b]
    /\ UNCHANGED free

RequestMemBlob(c, size) ==
    \/ Reuse(c, size)
    \/ Miss(c, size)
    \/ CheckBudget(c)
    \/ Allocate(c)

\* The last owners of the blocks B let go: the deleters of their shared_ptrs.
ReturnBlobs(B) ==
    /\ free' = free \cup B
    /\ lent' = lent \ B

-----------------------------------------------------------------------------
RequestStates == {"idle", "miss", "alloc", "done", "refused"}

BufTypeOK ==
    /\ keyid \in Nat
    /\ cachesize \in Nat
    /\ free \subseteq Block
    /\ lent \subseteq Block
    /\ req \in [Requesters -> [pc : RequestStates, size : Sizes \cup {0},
                               block : Block \cup {NoBlock}]]

\* The bytes of the blocks B, by block and offset.
Bytes(B) == UNION {{b} \X (1..b.size) : b \in B}

TotalSize(B) == Cardinality(Bytes(B))
=============================================================================
