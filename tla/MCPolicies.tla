----------------------------- MODULE MCPolicies -----------------------------
(***************************************************************************)
(* BaseXGraph with two output groups, as HandTrackingXGraph::Init sets it  *)
(* up for recording: one output each, the second group FIFO_FULL_BLOCK and *)
(* drained by its reader.  The first group is FIFO_FULL_DROP, the policy   *)
(* no pipeline of the repository selects.                                  *)
(***************************************************************************)
EXTENDS BaseXGraph, TLC

CONSTANTS hand, record, watcher, exporter

MCOrders == {hand, record}
MCGroups == {0, 1}
MCGroupOf == [o \in MCOrders |-> IF o = hand THEN 0 ELSE 1]
MCPolicy == [g \in MCGroups |-> IF g = 0 THEN "DROP" ELSE "BLOCK"]
MCDepth == [g \in MCGroups |-> 1]
MCReaders == {watcher, exporter}
MCReaderGroup == [r \in MCReaders |-> IF r = watcher THEN 0 ELSE 1]

\* The first frame fills a group, the second finds it full.
MCRaws == 2..3
=============================================================================
