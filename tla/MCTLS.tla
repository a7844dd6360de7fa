-------------------------------- MODULE MCTLS ---------------------------------
(* An instance of TLSRotation.  The Secret, the holder and the two caBundles may
   have four certificates; the fifth is the one that is generated. *)
EXTENDS TLSRotation, TLC

CONSTANTS c1, c2, c3, c4, c5

Some == {c1, c2, c3, c4, c5}
=============================================================================
