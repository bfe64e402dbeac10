------------------------------- MODULE Coding -------------------------------
(***************************************************************************)
(* How frames are put on the air (fw-mods/iso1443a.c).  A frame is the     *)
(* sequence of its data bits, in the order they are sent.  Time is counted *)
(* in ticks of 16 carrier cycles, eight to a bit: one sample of the field. *)
(***************************************************************************)
EXTENDS Integers, Sequences, FiniteSets, FiniteSetsExt

Bit == {0, 1}

----------------------------------------------------------------------------
(* Bytes and parity. *)

Ones(b) == Cardinality({i \in DOMAIN b : b[i] = 1})

\* GetParity of one byte: the bit that makes the number of ones odd.
oddparity(b) == IF Ones(b) % 2 = 0 THEN 1 ELSE 0

\* The k-th byte of a frame, counted from 0; the last one may be short.
ByteOf(data, k) == SubSeq(data, 8 * k + 1, Min({8 * k + 8, Len(data)}))

\* A parity bit follows every complete byte and no other.
WithParity(data) ==
    [i \in 1..(Len(data) + Len(data) \div 8) |->
        LET k == (i - 1) \div 9
        IN  IF i % 9 = 0 THEN oddparity(ByteOf(data, k))
                         ELSE data[8 * k + ((i - 1) % 9) + 1]]

----------------------------------------------------------------------------
(* Reader to card: the modified Miller sequences X, Y and Z. *)

\* A zero is a Y after a one and a Z otherwise ("last" in the code).  The
\* frame opens with a Z and closes with a zero followed by a Y.
CodeIso14443aBitsAsReaderPar(data) ==
    LET b == <<0>> \o WithParity(data) \o <<0>>
        Follows1(i) == i > 1 /\ b[i - 1] = 1
    IN  [i \in 1..(Len(b) + 1) |->
            IF i = Len(b) + 1 THEN "Y"
            ELSE IF b[i] = 1 THEN "X"
            ELSE IF Follows1(i) THEN "Y" ELSE "Z"]

(* Card to reader: the Manchester sequences D, E and F. *)

Manchester(bits) ==
    <<"D">> \o [i \in DOMAIN bits |-> IF bits[i] = 1 THEN "D" ELSE "E"]
            \o <<"F">>

CodeIso14443aAsTagPar(data) == Manchester(WithParity(data))

Code4bitAnswerAsTag(data) == Manchester(data)

----------------------------------------------------------------------------
(* Where the modulation of each sequence begins, in ticks from the start of *)
(* the frame: SEC_Z and SEC_D in the first half, SEC_X and SEC_E in the     *)
(* second, SEC_Y and SEC_F nowhere.                                         *)

FirstHalf == {"Z", "D"}
SecondHalf == {"X", "E"}

ModulationStarts(symbols) ==
    {8 * (i - 1) : i \in {j \in DOMAIN symbols : symbols[j] \in FirstHalf}}
    \cup
    {8 * (i - 1) + 4 : i \in {j \in DOMAIN symbols : symbols[j] \in SecondHalf}}

\* LastProxToAirDuration: the end of the last modulation, which lasts width.
LastModulation(symbols, width) == Max(ModulationStarts(symbols)) + width

\* minimum time between last modulation of tag and next start bit from
\* reader to tag: 1172 carrier cycles
FRAME_DELAY_TIME_PICC_TO_PCD == 1172 \div 16 + 1
=============================================================================
