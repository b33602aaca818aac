---------------------------- MODULE MCBaseXGraph ----------------------------
(***************************************************************************)
(* BaseXGraph with the layout BaseXGraph::Init sets up for a graph of two  *)
(* output streams: one group, FIFO_FULL_LOOP_COVER.                        *)
(***************************************************************************)
EXTENDS BaseXGraph, TLC

CONSTANTS hand, kpt, r1

MCOrders == {hand, kpt}
MCGroups == {0}
MCGroupOf == [o \in MCOrders |-> 0]
MCPolicy == [g \in MCGroups |-> "LOOP_COVER"]
MCDepth == [g \in MCGroups |-> 2]
MCReaders == {r1}
MCReaderGroup == [r \in MCReaders |-> 0]

\* Frames 2 and 3, and 4 and 5, fall into the same microsecond.
MCRaws == 2..6
=============================================================================
