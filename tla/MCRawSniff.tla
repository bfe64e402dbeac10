----------------------------- MODULE MCRawSniff -----------------------------
(* Values of RawSniff's constants for TLC.                                 *)
EXTENDS RawSniff

(* sizeof(dmatwo) / USB_CMD_DATA_SIZE                                      *)
Dmatwo == 24576 \div USB_CMD_DSIZE

(* Buffers without traffic, with a little, and as much as they can hold.   *)
Traffic == {0, 7, Dmatwo}
=============================================================================
