---------------------------- MODULE LatestResult ----------------------------
(***************************************************************************)
(* What GetOutputStreamCache promises the readers of a group that nobody   *)
(* drains: "the newest stream result" (base_xgraph.h).  Each group is a    *)
(* register that is overwritten by newer results only; a read returns its  *)
(* content.  0 stands for no result yet.                                   *)
(***************************************************************************)
EXTENDS Naturals

CONSTANTS
    Readers,
    Channels,
    Source      \* the channel each reader reads

VARIABLES
    latest,     \* timestamp of the newest result of each channel
    seen        \* timestamp of the last result each reader got

Init ==
    /\ latest = [c \in Channels |-> 0]
    /\ seen = [r \in Readers |-> 0]

Publish(c) ==
    /\ latest'[c] \in Nat
    /\ latest'[c] > latest[c]
    /\ latest' = [latest EXCEPT ![c] = latest'[c]]
    /\ UNCHANGED seen

Read(r) ==
    /\ latest[Source[r]] # 0
    /\ seen' = [seen EXCEPT ![r] = latest[Source[r]]]
    /\ UNCHANGED latest

Next ==
    \/ \E c \in Channels : Publish(c)
    \/ \E r \in Readers : Read(r)

Spec == Init /\ [][Next]_<<latest, seen>>
=============================================================================
