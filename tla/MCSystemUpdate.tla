--------------------------- MODULE MCSystemUpdate ---------------------------
(* A channel of the release of the image, one of the next release and a    *)
(* local checkout with another kernel, for TLC.                            *)
EXTENDS SystemUpdate, TLC

CONSTANTS c1, c2, dev, t1, t2, t3

Contents == c1 :> t1 @@ c2 :> t2 @@ dev :> t3
Releases == t1 :> 1 @@ t2 :> 2 @@ t3 :> 1
Kernels == t1 :> 1 @@ t2 :> 2 @@ t3 :> 2
=============================================================================
