------------------------------- MODULE Decoder -------------------------------
(***************************************************************************)
(* decoder_t::parse (src/decoder.cpp): the modulated bytes of a capture    *)
(* file are run through miller_t, for the reader, and manchester_t, for    *)
(* the card, and every frame they complete becomes a record.               *)
(***************************************************************************)
EXTENDS Air, Demod

VARIABLES
    mi,             \* miller_t
    ma,             \* manchester_t
    readerActive,   \* a frame of the reader is being demodulated
    tagActive,      \* a frame of the card is being demodulated
    half,           \* which demodulator the loop comes to next
    dvec            \* the records

decVars == <<mi, ma, readerActive, tagActive, half, dvec>>
vars == <<airVars, decVars>>

decoded(type, d) == [type |-> type, demodulated |-> d.output, modulated |-> d.input]

Init ==
    /\ AirInit
    /\ mi = MillerReset
    /\ ma = ManchesterReset
    /\ readerActive = FALSE
    /\ tagActive = FALSE
    /\ half = "miller"
    /\ dvec = <<>>

\* A frame without output leaves no record.
Record(type, d) ==
    dvec' = IF d.output /= <<>> THEN Append(dvec, decoded(type, d)) ELSE dvec

ResetBoth ==
    /\ mi' = MillerReset
    /\ ma' = ManchesterReset

----------------------------------------------------------------------------
(* The first half of an iteration: if (false == tagActive). *)

SkipMiller ==
    /\ half = "miller"
    /\ More
    /\ tagActive
    /\ half' = "manchester"
    /\ UNCHANGED <<airVars, mi, ma, readerActive, tagActive, dvec>>

MillerBits ==
    /\ half = "miller"
    /\ More
    /\ ~tagActive
    /\ ~miller_done(mi, ReaderByte)
    /\ mi' = miller_decode_bits(mi, ReaderByte)
    /\ readerActive' = (mi'.state /= "unsync")
    /\ half' = "manchester"
    /\ UNCHANGED <<airVars, ma, tagActive, dvec>>

MillerFrame ==
    /\ half = "miller"
    /\ More
    /\ ~tagActive
    /\ miller_done(mi, ReaderByte)
    /\ Record("miller", miller_decode_bits(mi, ReaderByte))
    /\ ResetBoth
    /\ readerActive' = FALSE
    /\ half' = "manchester"
    /\ UNCHANGED <<airVars, tagActive>>

(* The second half: if (false == readerActive). *)

NextPair ==
    /\ half' = "miller"
    /\ now' = now + 1
    /\ UNCHANGED <<sent, signal>>

SkipManchester ==
    /\ half = "manchester"
    /\ readerActive
    /\ NextPair
    /\ UNCHANGED <<mi, ma, readerActive, tagActive, dvec>>

ManchesterBits ==
    /\ half = "manchester"
    /\ ~readerActive
    /\ ~manchester_done(ma, CardByte)
    /\ ma' = manchester_decode_bits(ma, CardByte)
    /\ tagActive' = (ma'.state /= "unsync")
    /\ NextPair
    /\ UNCHANGED <<mi, readerActive, dvec>>

ManchesterFrame ==
    /\ half = "manchester"
    /\ ~readerActive
    /\ manchester_done(ma, CardByte)
    /\ Record("manchester", manchester_decode_bits(ma, CardByte))
    /\ ResetBoth
    /\ tagActive' = FALSE
    /\ NextPair
    /\ UNCHANGED readerActive

Next ==
    \/ SkipMiller \/ MillerBits \/ MillerFrame
    \/ SkipManchester \/ ManchesterBits \/ ManchesterFrame

Spec == Init /\ [][Next]_vars

----------------------------------------------------------------------------
Demodulators == {"miller", "manchester"}

\* The program's variables have their types.  m_high counts to 7, m_bits never
\* reaches 9 between two samples, and a synchronised demodulator has one of
\* eight offsets to shift m_two_bits by.
TypeOK ==
    /\ now \in Nat
    /\ mi.state \in {"unsync", "soc", "X", "Y", "Z"}
    /\ ma.state \in {"unsync", "data"}
    /\ \A d \in {mi, ma} :
          /\ d.two \in [1..16 -> Samples]
          /\ d.high \in 0..7
          /\ d.sync \in 0..7 \cup {NoSync}
          /\ d.state /= "unsync" => d.sync /= NoSync
          /\ d.bits \in Seq(Bit) /\ Len(d.bits) <= 8
          /\ d.output \in Seq(Byte)
          /\ d.input \in Nat
    /\ readerActive \in BOOLEAN
    /\ tagActive \in BOOLEAN
    /\ half \in Demodulators
    /\ dvec \in Seq([type: Demodulators, demodulated: Seq(Byte), modulated: Nat])

\* At most one demodulator is inside a frame: parse feeds the other one
\* nothing, and its samples would be missing afterwards.
OneAtATime ==
    /\ ~(readerActive /\ tagActive)
    /\ ~(mi.state /= "unsync" /\ ma.state /= "unsync")

\* What the record of a frame should hold.  The modulated bytes kept for the
\* display are those of the frame and the one before it.
RecordOf(f) ==
    [type |-> IF f.by = "reader" THEN "miller" ELSE "manchester",
     demodulated |-> BytesOf(f.data),
     modulated |-> Len(Symbols(f)) + 1]

Records == [i \in DOMAIN sent |-> RecordOf(sent[i])]

\* What parse needs to find every frame.  It does not find a frame of the
\* reader that begins with a byte of the capture, nor one that begins less than
\* BlindTicks after an answer, and it drops leftover bits that are all zero.
BlindTicks == 84

OffBeat == \A k \in DOMAIN sent :
    sent[k].by = "reader" => signal.begins[k] % 8 /= 0

Spaced == \A k \in DOMAIN sent \ {1} :
    signal.gaps[k] >= IF sent[k].by = "reader" THEN BlindTicks
                      ELSE FRAME_DELAY_TIME_PICC_TO_PCD - 1

Leftover(data) == SubSeq(data, 8 * (Len(data) \div 8) + 1, Len(data))

LeftoverSeen == \A k \in DOMAIN sent :
    LET rest == Leftover(sent[k].data)
    IN  sent[k].by = "reader" /\ rest /= <<>> => Ones(rest) > 0

Findable == OffBeat /\ Spaced /\ LeftoverSeen

\* Wherever the capture is cut, what parse has made of it is what was sent, in
\* order: no frame is invented, changed, split, repeated or attributed to the
\* other side.
InOrder ==
    Findable =>
        /\ Len(dvec) <= Len(sent)
        /\ \A i \in DOMAIN dvec : dvec[i] = Records[i]

\* parse has returned.
Ended == half = "miller" /\ ~More

\* Every frame on the air becomes a record, from whatever other offset into a
\* byte it begins.
AllDecoded == Ended /\ Findable => dvec = Records

\* "the bitstream may start at any time": a frame that begins with a byte of
\* the capture becomes a record too.
FoundOnBeat == Ended /\ Spaced /\ LeftoverSeen => dvec = Records
=============================================================================
