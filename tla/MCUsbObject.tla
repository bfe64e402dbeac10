----------------------------- MODULE MCUsbObject -----------------------------
(***************************************************************************)
(* An owner with three calls, so that it can open, close and open again,   *)
(* and a user with two, on an object of either class.                      *)
(***************************************************************************)
EXTENDS UsbObject

ThreeAndTwo == [t \in Users \cup {Owner} |-> IF t = Owner THEN 3 ELSE 2]
Both == {"usb_t", "async_usb_t"}
=============================================================================
