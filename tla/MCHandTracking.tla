--------------------------- MODULE MCHandTracking ---------------------------
(***************************************************************************)
(* The layout of HandTrackingXGraph::Init when execution info is exported: *)
(* hand_result in a group of its own, FIFO_FULL_LOOP_COVER, record_result  *)
(* in another, FIFO_FULL_BLOCK.                                            *)
(***************************************************************************)
EXTENDS HandTrackingXGraph

CONSTANTS hand, record, exporter

MCOrders == {hand, record}
MCGroups == {0, 1}
MCGroupOf == [o \in MCOrders |-> IF o = hand THEN 0 ELSE 1]
MCPolicy == [g \in MCGroups |-> IF g = 0 THEN "LOOP_COVER" ELSE "BLOCK"]
MCDepth == [g \in MCGroups |-> IF g = 0 THEN 1 ELSE 2]
MCReaders == {exporter}
MCReaderGroup == [r \in MCReaders |-> 1]
MCRaws == 1..3

\* What an empty map yields: 0, or a word above every timestamp.
MCGarbage == {0, 9}
=============================================================================
