---------------------------- MODULE MCMifare1ksim ----------------------------
(* A block in each of two sectors, one kind of plain data, values that     *)
(* wrap around, both UID sizes, without a limit and with one read.        *)
EXTENDS Mifare1ksim

Started ==
  { [seven |-> FALSE, exitAfter |-> 0], [seven |-> TRUE, exitAfter |-> 1] }
OneData == {[data |-> 0]}
=============================================================================
