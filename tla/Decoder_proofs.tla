---------------------------- MODULE Decoder_proofs ----------------------------
(***************************************************************************)
(* decoder_t::parse for every signal: whatever is on the air, and however  *)
(* the capture is cut.                                                     *)
(***************************************************************************)
EXTENDS Decoder, Demod_proofs

DecodedType == [type: Demodulators, demodulated: Seq(Byte), modulated: Nat]

Types ==
    /\ now \in Nat
    /\ mi \in Demodulator(MillerStates)
    /\ ma \in Demodulator(ManchesterStates)
    /\ readerActive \in BOOLEAN
    /\ tagActive \in BOOLEAN
    /\ half \in Demodulators
    /\ dvec \in Seq(DecodedType)

\* What makes OneAtATime inductive: the flags say which demodulator is inside
\* a frame, also when it was not fed in this iteration.
Flags ==
    /\ readerActive = (mi.state /= "unsync")
    /\ tagActive = (ma.state /= "unsync")
    /\ ~(readerActive /\ tagActive)

IInv == Types /\ Flags

----------------------------------------------------------------------------
\* The samples of a pair of bytes.
LEMMA BytesType == ReaderByte \in Byte /\ CardByte \in Byte
BY DEF ReaderByte, CardByte, Byte, Samples

\* A frame becomes a record or none.
LEMMA RecordType ==
    ASSUME dvec \in Seq(DecodedType),
           NEW type \in Demodulators, NEW states, NEW d \in Demodulator(states),
           Record(type, d)
    PROVE  dvec' \in Seq(DecodedType)
<1>1. decoded(type, d) \in DecodedType
    BY DEF decoded, DecodedType, Demodulator
<1> QED
    BY <1>1 DEF Record

\* Both demodulators start over.
LEMMA ResetBothType ==
    ASSUME ResetBoth
    PROVE  /\ mi' \in Demodulator(MillerStates) /\ mi'.state = "unsync"
           /\ ma' \in Demodulator(ManchesterStates) /\ ma'.state = "unsync"
<1>1. MillerReset.state = "unsync" /\ ManchesterReset.state = "unsync"
    BY DEF MillerReset, ManchesterReset, ManchesterIdle
<1> QED
    BY <1>1, ResetType DEF ResetBoth

LEMMA InitInv == Init => IInv
<1> SUFFICES ASSUME Init PROVE IInv
    OBVIOUS
<1>1. MillerReset.state = "unsync" /\ ManchesterReset.state = "unsync"
    BY DEF MillerReset, ManchesterReset, ManchesterIdle
<1>2. Types
    <2>1. now = 0
        BY DEF Init, AirInit
    <2>2. dvec \in Seq(DecodedType)
        BY DEF Init
    <2> QED
        BY <2>1, <2>2, ResetType DEF Init, Types, Demodulators
<1>3. Flags
    BY <1>1 DEF Init, Flags
<1> QED
    BY <1>2, <1>3 DEF IInv

LEMMA NextInv == IInv /\ [Next]_vars => IInv'
<1> SUFFICES ASSUME IInv, [Next]_vars PROVE IInv'
    OBVIOUS
<1> USE DEF IInv
<1>1. ReaderByte \in Byte /\ CardByte \in Byte
    BY BytesType
<1>2. /\ miller_decode_bits(mi, ReaderByte) \in Demodulator(MillerStates)
      /\ manchester_decode_bits(ma, CardByte) \in Demodulator(ManchesterStates)
    BY <1>1, MillerType, ManchesterType DEF Types
<1>3. "miller" \in Demodulators /\ "manchester" \in Demodulators
    BY DEF Demodulators
<1>4. NextPair => now' \in Nat /\ half' \in Demodulators
    BY <1>3 DEF NextPair, Types
<1>5. CASE SkipMiller
    BY <1>3, <1>5 DEF SkipMiller, airVars, Types, Flags
<1>6. CASE MillerBits
    <2>1. Types'
        BY <1>2, <1>3, <1>6 DEF MillerBits, airVars, Types
    <2>2. Flags'
        BY <1>6 DEF MillerBits, Flags
    <2> QED
        BY <2>1, <2>2
<1>7. CASE MillerFrame
    <2>1. dvec' \in Seq(DecodedType)
        BY <1>2, <1>3, <1>7, RecordType DEF MillerFrame, Types
    <2>2. /\ mi' \in Demodulator(MillerStates) /\ mi'.state = "unsync"
          /\ ma' \in Demodulator(ManchesterStates) /\ ma'.state = "unsync"
        BY <1>7, ResetBothType DEF MillerFrame
    <2>3. Types'
        BY <1>3, <1>7, <2>1, <2>2 DEF MillerFrame, airVars, Types
    <2>4. Flags'
        BY <1>7, <2>2 DEF MillerFrame, Flags
    <2> QED
        BY <2>1, <2>3, <2>4
<1>8. CASE SkipManchester
    BY <1>4, <1>8 DEF SkipManchester, Types, Flags
<1>9. CASE ManchesterBits
    <2>1. Types'
        BY <1>2, <1>4, <1>9 DEF ManchesterBits, Types
    <2>2. Flags'
        BY <1>9 DEF ManchesterBits, Flags
    <2> QED
        BY <2>1, <2>2
<1>10. CASE ManchesterFrame
    <2>1. dvec' \in Seq(DecodedType)
        BY <1>2, <1>3, <1>10, RecordType DEF ManchesterFrame, Types
    <2>2. /\ mi' \in Demodulator(MillerStates) /\ mi'.state = "unsync"
          /\ ma' \in Demodulator(ManchesterStates) /\ ma'.state = "unsync"
        BY <1>10, ResetBothType DEF ManchesterFrame
    <2>3. Types'
        BY <1>4, <1>10, <2>1, <2>2 DEF ManchesterFrame, Types
    <2>4. Flags'
        BY <1>10, <2>2 DEF ManchesterFrame, Flags
    <2> QED
        BY <2>1, <2>3, <2>4
<1>11. CASE UNCHANGED vars
    BY <1>11 DEF vars, airVars, decVars, Types, Flags
<1> QED
    BY <1>5, <1>6, <1>7, <1>8, <1>9, <1>10, <1>11 DEF Next

\* The invariant the others follow from, for every signal.
THEOREM Invariance == Spec => []IInv
<1>1. Init => IInv
    BY InitInv
<1>2. IInv /\ [Next]_vars => IInv'
    BY NextInv
<1> QED
    BY <1>1, <1>2, PTL DEF Spec

\* The demodulators of decoder_t keep their types and bounds.
THEOREM TypeCorrect == Spec => []TypeOK
<1>1. IInv => TypeOK
    <2> SUFFICES ASSUME IInv PROVE TypeOK
        OBVIOUS
    <2>1. Bit = Samples
        BY DEF Bit, Samples
    <2>2. \A d \in {mi, ma} :
            /\ d.two \in [1..16 -> Samples]
            /\ d.high \in 0..7
            /\ d.sync \in 0..7 \cup {NoSync}
            /\ d.state /= "unsync" => d.sync /= NoSync
            /\ d.bits \in Seq(Bit) /\ Len(d.bits) <= 8
            /\ d.output \in Seq(Byte)
            /\ d.input \in Nat
        BY <2>1 DEF IInv, Types, Demodulator
    <2>3. mi.state \in MillerStates /\ ma.state \in ManchesterStates
        BY DEF IInv, Types, Demodulator
    <2> QED
        BY <2>2, <2>3
        DEF IInv, Types, TypeOK, MillerStates, ManchesterStates, DecodedType
<1> QED
    BY <1>1, Invariance, PTL

\* parse never has both demodulators inside a frame.
THEOREM OneSide == Spec => []OneAtATime
<1>1. IInv => OneAtATime
    BY DEF IInv, Flags, OneAtATime
<1> QED
    BY <1>1, Invariance, PTL
=============================================================================
