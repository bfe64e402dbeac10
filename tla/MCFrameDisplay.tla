--------------------------- MODULE MCFrameDisplay ---------------------------
(* Values of FrameDisplay's constants for TLC.                             *)
EXTENDS FrameDisplay

(* One UID whose first byte is zero, so that what is left of it has the    *)
(* BCC of a whole one.                                                     *)
TwoUids == {<<18, 52, 86, 120>>, <<0, 52, 86, 120>>}
TwoAtqas == {<<4, 0>>, <<68, 3>>}

(* The second makes the bytes of an answer xor to zero.                    *)
TwoCrcs == {<<1, 2>>, <<146, 0>>}
=============================================================================
