----------------------------- MODULE MCPoller -------------------------------
(* Four channel objects over three descriptors: c1 and c4 have the same    *)
(* descriptor, so one can exist only after the other is gone.              *)
EXTENDS Poller, TLC

CONSTANTS c1, c2, c3, c4

MCChannels == {c1, c2, c3, c4}
(* c1 and c4 differ in their names only.                                   *)
Twins == Permutations({c1, c4})

MCFd == (c1 :> 3) @@ (c2 :> 4) @@ (c3 :> 5) @@ (c4 :> 3)
=============================================================================
