--------------------------- MODULE MCFrameStore ---------------------------
(* Instances of FrameStore: two sessions, one frame each or a frame sent     *)
(* twice, one user who owns the first session.                               *)
EXTENDS FrameStore, TLC

CONSTANTS s1, s2, i1, i2, j1, j2, d1, e1

MCSessionOf == i1 :> s1 @@ i2 :> s2
MCSameSession == i1 :> s1 @@ i2 :> s1
MCFramesOf == i1 :> {1} @@ i2 :> {1}
MCTwoFrames == i1 :> {1, 2} @@ i2 :> {1}
=============================================================================
