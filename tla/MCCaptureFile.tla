---------------------------- MODULE MCCaptureFile ----------------------------
(***************************************************************************)
(* Records of a short dump and of one that is longer by just a header, in  *)
(* any number of captures, and two reads at any time.  A torn record may   *)
(* lack any of its words.                                                  *)
(***************************************************************************)
EXTENDS CaptureFile

ShortAndLong == {1, 5}
=============================================================================
