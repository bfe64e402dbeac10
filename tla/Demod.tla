-------------------------------- MODULE Demod --------------------------------
(***************************************************************************)
(* The software demodulators, each a function of its state and the next    *)
(* eight samples: those of the firmware (MillerDecoding and                *)
(* ManchesterDecoding) and those nfcdump made of them                      *)
(* (miller_t::decode_bits and manchester_t::decode_bits).                  *)
(*                                                                         *)
(* m_two_bits is the last 16 samples, the oldest first; the shift register *)
(* and its counter m_bits are the sequence "bits" of the bits shifted in.  *)
(* A demodulated byte is the sequence of its eight bits, lowest first.     *)
(* Parity, collision position and times are written by the code and read   *)
(* by nothing modelled here.                                               *)
(***************************************************************************)
EXTENDS Integers, Sequences

Samples == {0, 1}
Byte == [1..8 -> Samples]

Shifted(two, byte) == [i \in 1..16 |-> IF i <= 8 THEN two[i + 8] ELSE byte[i - 8]]

All(two, v) == \A i \in 1..16 : two[i] = v

\* Half k of the bit period at m_two_bits >> sync, as four samples.
Nibble(two, sync, k) == [i \in 1..4 |-> two[8 - sync + 4 * k + i]]

First(two, sync) == Nibble(two, sync, 0)
Second(two, sync) == Nibble(two, sync, 1)

NoSync == 16

\* The code tries the offsets from the highest, the earliest in time.
Highest(S) == IF S = {} THEN NoSync ELSE CHOOSE s \in S : \A r \in S : r <= s

\* A byte from the lowest bits of the shift register, zeros above.
Padded(bits) == [i \in 1..8 |-> IF i <= Len(bits) THEN bits[i] ELSE 0]

AddBitLate(d, b) ==                                               \* mutant
    IF Len(d.bits) = 9
    THEN [d EXCEPT !.output = Append(@, Padded(d.bits)), !.bits = <<>>]
    ELSE [d EXCEPT !.bits = Append(@, b)]

\* A bit is shifted in; the ninth is the parity and completes the byte.
AddBit(d, b) ==
    IF Len(d.bits) = 8
    THEN [d EXCEPT !.output = Append(@, Padded(d.bits)), !.bits = <<>>]
    ELSE [d EXCEPT !.bits = Append(@, b)]

\* What the leftover bits become at the end of a frame.
PushRest(d) == [d EXCEPT !.output = Append(@, Padded(d.bits))]

----------------------------------------------------------------------------
(* Miller: the field is 1, a pause 0. *)

\* "We accept two or three consecutive 0 in any position with the rest 1".
\* The table also has the nibble 0000.
IsMillerModulation(n) ==
    n \in {<<0,0,0,0>>, <<0,0,0,1>>, <<0,0,1,1>>,
           <<1,0,0,0>>, <<1,0,0,1>>, <<1,1,0,0>>}

\* "look for 00xx1111 (the start bit)"
MillerStart(two, s) ==
    /\ First(two, s)[1] = 0
    /\ First(two, s)[2] = 0
    /\ Second(two, s) = <<1,1,1,1>>

MillerReset ==
    [state |-> "unsync", two |-> [i \in 1..16 |-> 0], high |-> 0, sync |-> NoSync,
     bits |-> <<>>, output |-> <<>>, input |-> 0]

MillerError == [MillerReset EXCEPT !.high = 6]

MillerSync(u, offsets) ==
    LET s == Highest({o \in offsets : MillerStart(u.two, o)})
    IN  IF u.high < 7
        THEN [u EXCEPT !.high = IF All(u.two, 1) THEN @ + 1 ELSE 0]
        ELSE IF s = NoSync
        THEN [u EXCEPT !.sync = s, !.input = 0]
        ELSE [u EXCEPT !.sync = s, !.state = "soc", !.output = <<>>, !.input = @ + 2]

\* A bit period of a synchronised demodulator that does not end the frame.
MillerPeriod(u) ==
    LET top    == IsMillerModulation(First(u.two, u.sync))
        bottom == IsMillerModulation(Second(u.two, u.sync))
    IN  CASE top /\ bottom -> MillerError
          [] top /\ ~bottom ->
                IF u.state = "X" THEN MillerError
                ELSE [AddBit(u, 0) EXCEPT !.state = "Z"]
          [] ~top /\ bottom -> [AddBit(u, 1) EXCEPT !.state = "X"]
          [] OTHER ->
                IF u.state = "soc" THEN MillerError
                ELSE [AddBit(u, 0) EXCEPT !.state = "Y"]

\* No modulation after a logic 0.
MillerEnds(u) ==
    /\ u.state \in {"Y", "Z"}
    /\ ~IsMillerModulation(First(u.two, u.sync))
    /\ ~IsMillerModulation(Second(u.two, u.sync))

Took(u, byte) == [u EXCEPT !.two = Shifted(@, byte)]

\* A synchronised miller_t keeps the byte for display.
Kept(u) == IF u.state = "unsync" THEN u ELSE [u EXCEPT !.input = @ + 1]

\* decode_bits returns true.
miller_done(u, byte) ==
    u.state /= "unsync" /\ MillerEnds(Took(u, byte))

miller_rest_any(u) == PushRest(u)                                 \* mutant

\* m_length stays 0 until the end of the frame, so leftover bits always
\* become a byte, unless that byte is zero.
miller_rest(u) ==
    IF \E i \in DOMAIN u.bits : u.bits[i] = 1 THEN PushRest(u) ELSE u

miller_offsets_short == 2..7                                      \* mutant

\* The test for the offset 0 has its mask and its value exchanged and is
\* never true.
miller_offsets == 1..7

miller_decode_bits(u, byte) ==
    LET v == Kept(Took(u, byte))
    IN  IF v.state = "unsync" THEN MillerSync(v, miller_offsets)
        ELSE IF MillerEnds(v) THEN [miller_rest(v) EXCEPT !.state = "unsync"]
        ELSE MillerPeriod(v)

\* The firmware tests all eight offsets, and leftover bits become a byte only
\* when no whole byte came before them.
MillerOffsets == 0..7

MillerDone(u, byte) == miller_done(u, byte)

MillerRest(u) ==
    IF u.output = <<>> /\ u.bits /= <<>> THEN PushRest(u) ELSE u

\* Uart.bitCount when the frame has ended: the last zero was not data.
MillerBitCount(u) ==
    IF u.output = <<>> /\ u.bits /= <<>> THEN Len(u.bits) - 1 ELSE Len(u.bits)

MillerDecoding(u, byte) ==
    LET v == Took(u, byte)
    IN  IF v.state = "unsync" THEN MillerSync(v, MillerOffsets)
        ELSE IF MillerEnds(v) THEN [MillerRest(v) EXCEPT !.state = "unsync"]
        ELSE MillerPeriod(v)

----------------------------------------------------------------------------
(* Manchester: no modulation is 0. *)

\* "We accept three or four 1 in any position"
IsManchesterModulation(n) ==
    n \in {<<0,1,1,1>>, <<1,0,1,1>>, <<1,1,0,1>>, <<1,1,1,0>>, <<1,1,1,1>>}

ManchesterStart(two, s) ==
    /\ \A i \in 1..3 : First(two, s)[i] = 1
    /\ \A i \in 1..3 : Second(two, s)[i] = 0

\* manchester_t clears m_two_bits, the firmware fills Demod.twoBits.
ManchesterIdle(v) ==
    [state |-> "unsync", two |-> [i \in 1..16 |-> v], high |-> 0, sync |-> NoSync,
     bits |-> <<>>, output |-> <<>>, input |-> 0]

ManchesterReset == ManchesterIdle(0)
DemodReset == ManchesterIdle(1)

ManchesterSync(m) ==
    LET s == Highest({o \in 0..7 : ManchesterStart(m.two, o)})
    IN  IF m.high < 2
        THEN [m EXCEPT !.high = IF All(m.two, 0) THEN @ + 1 ELSE 0]
        ELSE IF s = NoSync
        THEN [m EXCEPT !.sync = s, !.input = 0]
        ELSE [m EXCEPT !.sync = s, !.state = "data", !.output = <<>>, !.input = @ + 2]

\* A collision, modulation in both halves, counts as a 1.
ManchesterPeriod(m, reset) ==
    LET top    == IsManchesterModulation(First(m.two, m.sync))
        bottom == IsManchesterModulation(Second(m.two, m.sync))
    IN  CASE top -> AddBit(m, 1)
          [] ~top /\ bottom -> AddBit(m, 0)
          [] OTHER ->
                IF m.output = <<>> /\ m.bits = <<>> THEN reset
                ELSE IF m.bits = <<>> THEN m ELSE PushRest(m)

\* No modulation after something was received.
ManchesterEnds(m) ==
    /\ ~IsManchesterModulation(First(m.two, m.sync))
    /\ ~IsManchesterModulation(Second(m.two, m.sync))
    /\ m.output /= <<>> \/ m.bits /= <<>>

manchester_done(m, byte) ==
    m.state /= "unsync" /\ ManchesterEnds(Took(m, byte))

manchester_decode_bits(m, byte) ==
    LET v == Kept(Took(m, byte))
    IN  IF v.state = "unsync" THEN ManchesterSync(v)
        ELSE ManchesterPeriod(v, ManchesterReset)

ManchesterDecoding(m, byte) ==
    LET v == Took(m, byte)
    IN  IF v.state = "unsync" THEN ManchesterSync(v)
        ELSE ManchesterPeriod(v, DemodReset)
=============================================================================
