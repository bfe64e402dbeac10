--------------------------- MODULE MCUsbTransport ---------------------------
(* Values of UsbTransport's constants for TLC.                             *)
EXTENDS UsbTransport

(* sizeof(UsbCommand) in packets of AT91C_EP_OUT_SIZE bytes and of         *)
(* AT91C_EP_IN_SIZE - 1 bytes.                                             *)
Out64 == (544 + 63) \div 64
In63  == (544 + 62) \div 63

(* Disconnect has no answer, version one, read14a's commands two.          *)
AnswerCounts == {0, 1, 2}
=============================================================================
