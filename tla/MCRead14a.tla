----------------------------- MODULE MCRead14a -----------------------------
(* Values of Read14a's constants for TLC.                                  *)
EXTENDS Read14a

AnyKind == {"iso4", "type2", "classic"}

(* Collisions inside the first byte, on its last bit, on and behind the    *)
(* byte boundaries, and in the BCC.                                        *)
Edges == {3, 7, 8, 16, 20, 32}

(* Collisions in the third and fourth byte, except on their last bits: the *)
(* positions for which the NVB seluida_t::set_uid computes is the right    *)
(* one.                                                                    *)
Resolvable == {16, 20, 22, 24, 30}
=============================================================================
