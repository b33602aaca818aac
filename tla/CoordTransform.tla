--------------------------- MODULE CoordTransform ---------------------------
(***************************************************************************)
(* aisdk::base::CoordTransformService (coord_transform_service.h): the     *)
(* transforms between the N coordinate systems of the SDK.  Pipeline::Init *)
(* sets some of them, and finalize derives the others by a depth-first     *)
(* search for a chain of known ones.                                       *)
(*                                                                         *)
(* Isometries are the elements of any group: only composition, inverses    *)
(* and the identity matter here.  The search stores what it finds in the   *)
(* table it reads, so each turn of its loops is a step.                    *)
(***************************************************************************)
EXTENDS Integers, Sequences

CONSTANTS
    N,                                          \* coordinate systems
    Isometry, Identity, Compose(_, _), Invert(_),
    Setups,      \* pairs that Init sets, in the order in which it does
    Isometries,  \* transforms it may set
    MaxInits     \* bound: how often Init is called

Coords == 0..(N - 1)

\* Compose(p, q) is first q, then p.
ASSUME GroupAssumption ==
    /\ Identity \in Isometry
    /\ \A p \in Isometry : /\ Invert(p) \in Isometry
                           /\ Compose(p, Identity) = p /\ Compose(Identity, p) = p
                           /\ Compose(p, Invert(p)) = Identity
                           /\ Compose(Invert(p), p) = Identity
    /\ \A p, q \in Isometry : Compose(p, q) \in Isometry
    /\ \A p, q, r \in Isometry : Compose(p, Compose(q, r)) = Compose(Compose(p, q), r)

ASSUME CoordAssumption ==
    /\ N \in Nat \ {0}
    /\ Setups \subseteq Seq(Coords \X Coords)
    /\ Isometries \subseteq Isometry
    /\ MaxInits \in Nat

VARIABLES
    setup, given,    \* external: what Init sets, and the transforms of the camera
    m_transforms, m_transformSet,
    calls,           \* setTransform calls of this Init
    service,         \* "open", "finalizing", "final", or "thrown" out of finalize
    pair,            \* <<i, j>> of finalize
    stack,           \* activations of calculateTransform: from and i of each
    visited,
    inits

table == <<m_transforms, m_transformSet>>
cvars == <<setup, given, table, calls, service, pair, stack, visited, inits>>

CoordInit ==
    /\ setup \in Setups
    /\ given \in [1..Len(setup) -> Isometries]
    /\ m_transforms = [p \in Coords \X Coords |-> Identity]
    /\ m_transformSet = {}
    /\ calls = 0
    /\ service = "open"
    /\ pair = <<0, 0>>
    /\ stack = <<>>
    /\ visited = {}
    /\ inits = 1

\* setTransform: a transform and its inverse.
SetTransform ==
    LET from == setup[calls + 1][1]
        to == setup[calls + 1][2]
        t == given[calls + 1] IN
    /\ service = "open"
    /\ calls < Len(setup)
    /\ m_transforms' = [m_transforms EXCEPT ![<<from, to>>] = t, ![<<to, from>>] = Invert(t)]
    /\ m_transformSet' = m_transformSet \cup {<<from, to>>, <<to, from>>}
    /\ calls' = calls + 1
    /\ UNCHANGED <<setup, given, service, pair, stack, visited, inits>>

-----------------------------------------------------------------------------
(* calculateTransform.  The last activation runs, towards to.              *)

Known(from, to) == <<from, to>> \in m_transformSet

to == pair[2]
depth == Len(stack)
from == stack[depth].from
intermediate == stack[depth].i

Searching == service = "finalizing" /\ stack # <<>>

JoinSwapped(start, via) ==
    /\ m_transforms' = [m_transforms EXCEPT ![<<start, to>>] =
                            Compose(m_transforms[<<start, via>>], m_transforms[<<via, to>>])]
    /\ m_transformSet' = m_transformSet \cup {<<start, to>>}

\* The transforms of start to via and of via to to give the one of start to to.
Join(start, via) ==
    /\ m_transforms' = [m_transforms EXCEPT ![<<start, to>>] =
                            Compose(m_transforms[<<via, to>>], m_transforms[<<start, via>>])]
    /\ m_transformSet' = m_transformSet \cup {<<start, to>>}

\* The next turn of the loop of the activation d, and of none above it.
NextTurn(d) == stack' = [SubSeq(stack, 1, d) EXCEPT ![d].i = @ + 1]

SeenNever(v) == FALSE

\* An activation for a visited system returns at once.
Seen(v) == v \in visited

JoinDirect ==
    /\ Searching /\ intermediate < N
    /\ Known(from, intermediate) /\ Known(intermediate, to)
    /\ Join(from, intermediate)
    /\ NextTurn(depth)
    /\ UNCHANGED <<setup, given, calls, service, pair, visited, inits>>

Descend ==
    /\ Searching /\ intermediate < N
    /\ Known(from, intermediate) /\ ~Known(intermediate, to) /\ ~Seen(intermediate)
    /\ stack' = Append(stack, [from |-> intermediate, i |-> 0])
    /\ visited' = visited \cup {intermediate}
    /\ UNCHANGED <<setup, given, table, calls, service, pair, inits>>

Pass ==
    /\ Searching /\ intermediate < N
    /\ Known(from, intermediate) => ~Known(intermediate, to) /\ Seen(intermediate)
    /\ NextTurn(depth)
    /\ UNCHANGED <<setup, given, table, calls, service, pair, visited, inits>>

ReturnUnjoined ==
    /\ Searching /\ intermediate = N /\ depth > 1
    /\ NextTurn(depth - 1)
    /\ UNCHANGED <<setup, given, table, calls, service, pair, visited, inits>>

\* The caller goes on with what the activation has found.
Return ==
    /\ Searching /\ intermediate = N /\ depth > 1
    /\ IF Known(from, to) THEN Join(stack[depth - 1].from, from) ELSE UNCHANGED table
    /\ NextTurn(depth - 1)
    /\ UNCHANGED <<setup, given, calls, service, pair, visited, inits>>

-----------------------------------------------------------------------------
(* finalize.                                                               *)

StartFinalize ==
    /\ service = "open"
    /\ calls = Len(setup)
    /\ service' = "finalizing"
    /\ pair' = <<0, 0>>
    /\ UNCHANGED <<setup, given, table, calls, stack, visited, inits>>

InLoop == service = "finalizing" /\ stack = <<>> /\ pair[1] < N

NeedsSearch == pair[1] # pair[2] /\ pair \notin m_transformSet

NextPair == pair' = IF pair[2] + 1 < N THEN <<pair[1], pair[2] + 1>> ELSE <<pair[1] + 1, 0>>

SkipPair ==
    /\ InLoop /\ ~NeedsSearch
    /\ NextPair
    /\ UNCHANGED <<setup, given, table, calls, service, stack, visited, inits>>

StartSearch ==
    /\ InLoop /\ NeedsSearch
    /\ stack' = << [from |-> pair[1], i |-> 0] >>
    /\ visited' = {pair[1]}
    /\ UNCHANGED <<setup, given, table, calls, service, pair, inits>>

\* The first pair without a chain throws.
EndSearch ==
    /\ Searching /\ intermediate = N /\ depth = 1
    /\ stack' = <<>>
    /\ visited' = {}
    /\ IF pair \in m_transformSet
       THEN NextPair /\ UNCHANGED service
       ELSE service' = "thrown" /\ UNCHANGED pair
    /\ UNCHANGED <<setup, given, table, calls, inits>>

EndFinalize ==
    /\ service = "finalizing" /\ stack = <<>> /\ pair[1] = N
    /\ service' = "final"
    /\ UNCHANGED <<setup, given, table, calls, pair, stack, visited, inits>>

\* The service is a singleton: another Init finds it as the last one left it.
\* External: the camera is the same.
InitAgain ==
    /\ service = "final"
    /\ inits < MaxInits
    /\ calls' = 0
    /\ service' = "open"
    /\ inits' = inits + 1
    /\ UNCHANGED <<setup, given, table, pair, stack, visited>>

Search == JoinDirect \/ Descend \/ Pass \/ Return

Finalize == StartFinalize \/ SkipPair \/ StartSearch \/ Search \/ EndSearch \/ EndFinalize

CoordNext == SetTransform \/ Finalize \/ InitAgain

CoordSpec == CoordInit /\ [][CoordNext]_cvars

-----------------------------------------------------------------------------
(* Properties.                                                             *)

Activation == [from : Coords, i : 0..N]

\* The members of CoordTransformService and the variables of its functions
\* keep their types, and calculateTransform never nests deeper than the number
\* of coordinate systems.
CoordTypeOK ==
    /\ m_transforms \in [Coords \X Coords -> Isometry]
    /\ m_transformSet \subseteq Coords \X Coords
    /\ calls \in 0..Len(setup)
    /\ service \in {"open", "finalizing", "final", "thrown"}
    /\ pair \in (0..N) \X Coords
    /\ stack \in Seq(Activation) /\ Len(stack) <= N
    /\ visited \subseteq Coords

Edges == {{setup[k][1], setup[k][2]} : k \in 1..Len(setup)}

\* No part of the coordinate systems is cut off from the others.
Connected ==
    \A S \in (SUBSET Coords) \ {{}, Coords} :
        \E e \in Edges : e \cap S # {} /\ e \ S # {}

\* finalize succeeds exactly when the pairs that were set connect all
\* coordinate systems: the visited set never makes the search miss a chain.
FinalIffConnected ==
    service \in {"final", "thrown"} => (service = "final" <=> Connected)

\* The transform from a system to another, both placed in space by pose.
Relative(pose, a, b) == Compose(pose[b], Invert(pose[a]))

\* The coordinate systems can be placed so that the transforms of the camera hold.
Consistent ==
    \E pose \in [Coords -> Isometry] :
        \A k \in 1..Len(setup) : given[k] = Relative(pose, setup[k][1], setup[k][2])

\* If the transforms of the camera do not contradict each other, all transforms
\* fit together after finalize, whichever chains the search has joined, and the
\* ones that were set are untouched.
Coherent ==
    service = "final" /\ Consistent =>
        /\ \A k \in 1..Len(setup) : m_transforms[setup[k]] = given[k]
        /\ \A a, b, c \in Coords :
              m_transforms[<<a, c>>] =
                  Compose(m_transforms[<<b, c>>], m_transforms[<<a, b>>])
=============================================================================
