--------------------------------- MODULE Air ---------------------------------
(***************************************************************************)
(* The field as the sniffing FPGA samples it: a reader and a card exchange *)
(* frames, and every eight ticks the samples of both reach the ARM as two  *)
(* bytes with four samples of the reader in the high nibble and four of    *)
(* the card in the low one.  The frames are coded by the module Coding.    *)
(* The FPGA is not in the repository: a reader's pause is 0 for "2 (or 3)  *)
(* ticks", a card's modulation 1 for the three or four ticks the           *)
(* demodulator accepts (fw-mods/iso1443a.c).                               *)
(***************************************************************************)
EXTENDS Coding

CONSTANT Scenarios      \* what may happen on the air, see Scenario

VARIABLES
    sent,       \* the frames of the scenario, in the order they are sent
    signal,     \* when they are sent, and their modulation
    now         \* pairs of bytes captured so far

airVars == <<sent, signal, now>>

(***************************************************************************)
(* frames   what is sent: by whom, and which bits                          *)
(* starts   starts[1] is the tick the first frame begins; starts[k] the    *)
(*          ticks from the last modulation of frame k-1 to frame k         *)
(* pause    ticks of a pause, load  ticks of a modulation by the card      *)
(* tail     pairs of bytes captured after the last modulation              *)
(***************************************************************************)
Scenario ==
    [frames: Seq([by: {"reader", "card", "card4"}, data: Seq(Bit)]),
     starts: Seq(Int), pause: {2, 3}, load: {3, 4}, tail: Nat]

Symbols(f) ==
    CASE f.by = "reader" -> CodeIso14443aBitsAsReaderPar(f.data)
      [] f.by = "card"   -> CodeIso14443aAsTagPar(f.data)
      [] f.by = "card4"  -> Code4bitAnswerAsTag(f.data)

Width(sc, f) == IF f.by = "reader" THEN sc.pause ELSE sc.load

\* The tick at which each frame begins.
Begins(sc) ==
    LET t[k \in DOMAIN sc.frames] ==
            IF k = 1 THEN sc.starts[1]
            ELSE LET f == sc.frames[k - 1]
                 IN  t[k - 1] + LastModulation(Symbols(f), Width(sc, f)) + sc.starts[k]
    IN  t

ModulatedBy(sc, who) ==
    UNION {{Begins(sc)[k] + m : m \in ModulationStarts(Symbols(sc.frames[k]))} :
              k \in {j \in DOMAIN sc.frames : sc.frames[j].by \in who}}

Modulation(sc) ==
    LET pauses == ModulatedBy(sc, {"reader"})
        loads  == ModulatedBy(sc, {"card", "card4"})
    IN  [begins |-> Begins(sc), gaps |-> sc.starts,
         pauses |-> pauses, pause |-> sc.pause, loads |-> loads, load |-> sc.load,
         pairs  |-> Max(pauses \cup loads) \div 8 + sc.tail]

AirInit ==
    \E sc \in Scenarios :
        /\ sent = sc.frames
        /\ signal = Modulation(sc)
        /\ now = 0

\* The two halves of a pair of bytes: prior & 0xF0 | byte >> 4 and
\* prior << 4 | byte & 0x0F.
ReaderByte ==
    [i \in 1..8 |-> IF \E p \in signal.pauses :
                           8 * now + i - 1 \in p..(p + signal.pause - 1)
                    THEN 0 ELSE 1]

CardByte ==
    [i \in 1..8 |-> IF \E m \in signal.loads :
                           8 * now + i - 1 \in m..(m + signal.load - 1)
                    THEN 1 ELSE 0]

More == now < signal.pairs

----------------------------------------------------------------------------
(* What a demodulator should make of a frame. *)

BytesOf(data) ==
    [k \in 1..((Len(data) + 7) \div 8) |->
        [i \in 1..8 |-> IF 8 * (k - 1) + i <= Len(data)
                        THEN data[8 * (k - 1) + i] ELSE 0]]
=============================================================================
