------------------------------ MODULE MCDecoder ------------------------------
(* What is on the air in the runs of Decoder. *)
EXTENDS Decoder, Signals

\* One frame at every offset, the one that is not found included.
Single ==
    One(ShortFrames \cup ReaderBytes \cup SplitBytes \cup CardBytes \cup Acks, 0..7)

\* Leftover bits of zeros.
Zeros == One({Reader([i \in 1..7 |-> 0]), Reader(<<1,1,0,0,1,0,0,1, 0,0,0,0>>)}, 0..7)

\* Pauses after an answer from the shortest to those long enough.
Exchanges ==
    Sessions(0..7, FRAME_DELAY_TIME_PICC_TO_PCD..(BlindTicks - 1))
    \cup Sessions(0..7, BlindTicks..(BlindTicks + 7))

\* One side begins while the other is still sending.
Overlaps ==
    Sessions(0..7, {-70})
    \cup {[sc EXCEPT !.starts[2] = -30] : sc \in Sessions(0..7, {BlindTicks})}

Everything == Single \cup Zeros \cup Exchanges \cup Overlaps

OnBeat == One({REQA}, {0})
=============================================================================
