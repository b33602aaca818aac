----------------------------- MODULE MCTestTool -----------------------------
(***************************************************************************)
(* Four readable pictures in three seconds and one that is not, a cache of *)
(* three: records at the pictures' own rate, from an SDK that may lose     *)
(* frames or loses none, or one frame per second and a connection that may *)
(* break.                                                                  *)
(***************************************************************************)
EXTENDS TestTool

Test(send, recv, profiling) ==
    [send |-> send, recv |-> recv, profiling |-> profiling, breaks |-> FALSE,
     loses |-> FALSE, slow |-> FALSE]

Records == Test(0, 1, TRUE)
LossyRecords == [Records EXCEPT !.loses = TRUE]

Pictures == <<0, 2, 5, 9, 13>>
AllModes == {Records, LossyRecords, [Test(1, 1, FALSE) EXCEPT !.breaks = TRUE]}

\* Five pictures, of which every other one is to be left out.
Stream == <<0, 2, 4, 6, 8>>
Downsampled == {Test(1, 0, FALSE)}

\* The upload of the pictures takes more than a minute.
SlowUpload == {[Records EXCEPT !.slow = TRUE]}

\* Frames may be lost, the last ones too.
LostEnd == {LossyRecords}
=============================================================================
