-------------------------- MODULE MCCoordTransform --------------------------
(***************************************************************************)
(* The five systems of XrealCoordSystem; any four pairs, and a shift or a  *)
(* reflection for each of them.  An isometry is a map x |-> rot * x +      *)
(* shift on the integers modulo 3: like those of space, these have         *)
(* inverses and do not commute.                                            *)
(***************************************************************************)
EXTENDS CoordTransform, SequencesExt

Affine == [rot : {1, 2}, shift : 0..2]
AffineIdentity == [rot |-> 1, shift |-> 0]
AffineCompose(p, q) ==
    [rot |-> (p.rot * q.rot) % 3, shift |-> (p.rot * q.shift + p.shift) % 3]
AffineInvert(p) == [rot |-> p.rot, shift |-> (-(p.rot * p.shift)) % 3]

Ordered == {p \in Coords \X Coords : p[1] < p[2]}
FourPairs ==
    {SetToSeq(pairs) : pairs \in {S \in SUBSET Ordered : Cardinality(S) = 4}}

Samples == {[rot |-> 1, shift |-> 1], [rot |-> 2, shift |-> 0]}

\* The pairs of SetGlobalCameraParams: CV_LEFT_CAM, GL_LEFT_CAM, GL_HEAD,
\* GL_RIGHT_CAM and CV_RIGHT_CAM are 0 to 4.
CameraPairs == << <<0, 1>>, <<3, 1>>, <<1, 2>>, <<4, 3>> >>

\* With the transform between the computer vision cameras there is a cycle,
\* whose transforms may contradict each other or not.
CyclePairs == Append(CameraPairs, <<4, 0>>)

AllSetups == FourPairs \cup {CameraPairs, CyclePairs}
=============================================================================
