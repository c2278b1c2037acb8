---------------------------- MODULE MCSyncUpload ----------------------------
(* The small instance of SyncUpload that TLC checks, and the sizes of       *)
(* ImageGeometry, which its Process computes, for photos of up to 45 by 45. *)
EXTENDS SyncUpload, ImageGeometry

CONSTANTS f1, f2, f3

\* Every call may fail or lose its reply.
Anything == [c \in Calls |-> {"ok", "fail", "lostReply"}]
Mark == [width |-> 9, height |-> 4]
ASSUME GeometryHolds ==
  \A s \in [width : 1..45, height : 1..45] :
    /\ PreviewFits(s) /\ PreviewKeepsShape(s) /\ PreviewIsMarked(s)
    /\ WatermarkFits(s) /\ WatermarkShows(s)
=============================================================================
