----------------------------- MODULE Demod_proofs -----------------------------
(* What every step of a demodulator preserves, whatever the samples are.    *)
EXTENDS Demod, TLAPS

\* A demodulator whose state is one of states: its counters are in bounds, and
\* it has an offset into m_two_bits when it is synchronised.
Demodulator(states) ==
    {d \in [state: states, two: [1..16 -> Samples], high: 0..7,
            sync: 0..7 \cup {NoSync}, bits: Seq(Samples), output: Seq(Byte),
            input: Nat] :
        /\ Len(d.bits) <= 8
        /\ d.state /= "unsync" => d.sync /= NoSync}

MillerStates == {"unsync", "soc", "X", "Y", "Z"}
ManchesterStates == {"unsync", "data"}

\* Eight samples are shifted in, eight out.
LEMMA ShiftedType ==
    ASSUME NEW two \in [1..16 -> Samples], NEW byte \in Byte
    PROVE  Shifted(two, byte) \in [1..16 -> Samples]
<1> SUFFICES ASSUME NEW i \in 1..16
             PROVE  (IF i <= 8 THEN two[i + 8] ELSE byte[i - 8]) \in Samples
    BY DEF Shifted
<1>1. CASE i <= 8
    BY <1>1
<1>2. CASE ~(i <= 8)
    <2>1. i - 8 \in 1..8
        BY <1>2
    <2> QED
        BY <1>2, <2>1 DEF Byte
<1> QED
    BY <1>1, <1>2

\* The search for an offset returns one of those tried, or none.
LEMMA HighestType ==
    ASSUME NEW S \in SUBSET (0..7)
    PROVE  Highest(S) \in 0..7 \cup {NoSync}
<1>1. CASE S = {}
    BY <1>1 DEF Highest
<1>2. CASE S /= {}
    <2>1. \E s \in S : \A r \in S : r <= s
        <3>1. CASE 7 \in S
            BY <3>1
        <3>2. CASE 7 \notin S /\ 6 \in S
            BY <3>2
        <3>3. CASE 7 \notin S /\ 6 \notin S /\ 5 \in S
            BY <3>3
        <3>4. CASE S \subseteq 0..4
            <4>1. CASE 4 \in S
                BY <4>1, <3>4
            <4>2. CASE 4 \notin S /\ 3 \in S
                BY <4>2, <3>4
            <4>3. CASE 4 \notin S /\ 3 \notin S /\ 2 \in S
                BY <4>3, <3>4
            <4>4. CASE 4 \notin S /\ 3 \notin S /\ 2 \notin S /\ 1 \in S
                BY <4>4, <3>4
            <4>5. CASE 4 \notin S /\ 3 \notin S /\ 2 \notin S /\ 1 \notin S
                <5>1. \A r \in S : r = 0
                    BY <3>4, <4>5
                <5>2. PICK s \in S : TRUE
                    BY <1>2
                <5>3. \A r \in S : r <= s
                    BY <5>1
                <5> QED
                    BY <5>3
            <4> QED
                BY <4>1, <4>2, <4>3, <4>4, <4>5
        <3> QED
            BY <3>1, <3>2, <3>3, <3>4
    <2> QED
        BY <1>2, <2>1 DEF Highest
<1> QED
    BY <1>1, <1>2

\* A byte of the output has eight bits.
LEMMA PaddedType ==
    ASSUME NEW bits \in Seq(Samples)
    PROVE  Padded(bits) \in Byte
<1> SUFFICES ASSUME NEW i \in 1..8
             PROVE  (IF i <= Len(bits) THEN bits[i] ELSE 0) \in Samples
    BY DEF Padded, Byte
<1>1. CASE i <= Len(bits)
    <2>1. i \in 1..Len(bits)
        BY <1>1
    <2> QED
        BY <1>1, <2>1
<1>2. CASE ~(i <= Len(bits))
    BY <1>2 DEF Samples
<1> QED
    BY <1>1, <1>2

\* The register never holds nine bits once a bit has been shifted in.
LEMMA AddBitType ==
    ASSUME NEW states, NEW d \in Demodulator(states), NEW b \in Samples
    PROVE  AddBit(d, b) \in Demodulator(states)
<1> USE DEF Demodulator
<1>1. CASE Len(d.bits) = 8
    <2> DEFINE o == Append(d.output, Padded(d.bits))
               e == <<>>
    <2>1. o \in Seq(Byte)
        BY PaddedType
    <2>2. e \in Seq(Samples) /\ Len(e) <= 8
        OBVIOUS
    <2>3. AddBit(d, b) = [d EXCEPT !.output = o, !.bits = e]
        BY <1>1 DEF AddBit
    <2> HIDE DEF o, e
    <2> QED
        BY <2>1, <2>2, <2>3
<1>2. CASE Len(d.bits) /= 8
    <2> DEFINE a == Append(d.bits, b)
               m == Len(d.bits)
    <2>1. a \in Seq(Samples) /\ Len(a) = m + 1
        OBVIOUS
    <2>2. m \in Nat /\ m <= 8 /\ m /= 8
        BY <1>2
    <2>3. AddBit(d, b) = [d EXCEPT !.bits = a]
        BY <1>2 DEF AddBit
    <2> HIDE DEF a, m
    <2>4. Len(a) <= 8
        BY <2>1, <2>2
    <2> QED
        BY <2>1, <2>3, <2>4
<1> QED
    BY <1>1, <1>2

\* Nor do leftover bits change anything but the output.
LEMMA PushRestType ==
    ASSUME NEW states, NEW d \in Demodulator(states)
    PROVE  PushRest(d) \in Demodulator(states)
<1>1. Append(d.output, Padded(d.bits)) \in Seq(Byte)
    BY PaddedType DEF Demodulator
<1> QED
    BY <1>1 DEF PushRest, Demodulator

\* Taking eight samples, and keeping them for the display.
LEMMA TookType ==
    ASSUME NEW states, NEW d \in Demodulator(states), NEW byte \in Byte
    PROVE  /\ Took(d, byte) \in Demodulator(states)
           /\ Kept(Took(d, byte)) \in Demodulator(states)
<1> DEFINE t == Shifted(d.two, byte)
           v == Took(d, byte)
<1>1. t \in [1..16 -> Samples]
    BY ShiftedType DEF Demodulator
<1>2. v = [d EXCEPT !.two = t]
    BY DEF Took
<1> HIDE DEF t
<1>3. v \in Demodulator(states)
    BY <1>1, <1>2 DEF Demodulator
<1> HIDE DEF v
<1>4. Kept(v) \in Demodulator(states)
    <2>1. CASE v.state = "unsync"
        BY <1>3, <2>1 DEF Kept
    <2>2. CASE v.state /= "unsync"
        <3>1. Kept(v) = [v EXCEPT !.input = v.input + 1]
            BY <2>2 DEF Kept
        <3>2. v.input \in Nat
            BY <1>3 DEF Demodulator
        <3>3. v.input + 1 \in Nat
            BY <3>2
        <3> QED
            BY <1>3, <3>1, <3>3 DEF Demodulator
    <2> QED
        BY <2>1, <2>2
<1> QED
    BY <1>3, <1>4 DEF v
----------------------------------------------------------------------------
\* Where the demodulators start.
LEMMA ResetType ==
    /\ MillerReset \in Demodulator(MillerStates)
    /\ MillerError \in Demodulator(MillerStates)
    /\ ManchesterReset \in Demodulator(ManchesterStates)
    /\ DemodReset \in Demodulator(ManchesterStates)
<1> DEFINE e == <<>>
<1>1. /\ e \in Seq(Samples) /\ Len(e) <= 8
      /\ e \in Seq(Byte)
    OBVIOUS
<1>2. /\ MillerReset.bits = e /\ MillerReset.output = e
      /\ \A v \in Samples : ManchesterIdle(v).bits = e /\ ManchesterIdle(v).output = e
    BY DEF MillerReset, ManchesterIdle
<1> DEFINE two(v) == [i \in 1..16 |-> v]
           Idle(v, h) == [state |-> "unsync", two |-> two(v), high |-> h,
                          sync |-> NoSync, bits |-> e, output |-> e, input |-> 0]
<1>3. /\ MillerReset = Idle(0, 0)
      /\ MillerError = Idle(0, 6)
      /\ ManchesterReset = Idle(0, 0)
      /\ DemodReset = Idle(1, 0)
    BY DEF MillerReset, MillerError, ManchesterReset, DemodReset, ManchesterIdle
<1>4. \A v \in Samples : two(v) \in [1..16 -> Samples]
    OBVIOUS
<1> HIDE DEF e, two
<1>5. ASSUME NEW v \in Samples, NEW h \in 0..7, NEW states, "unsync" \in states
      PROVE  Idle(v, h) \in Demodulator(states)
    BY <1>1, <1>4, <1>5 DEF Demodulator
<1>6. "unsync" \in MillerStates /\ "unsync" \in ManchesterStates
    BY DEF MillerStates, ManchesterStates
<1>7. 0 \in Samples /\ 1 \in Samples
    BY DEF Samples
<1> HIDE DEF Idle
<1> QED
    BY <1>3, <1>5, <1>6, <1>7

\* A demodulator that waits stays one, or begins a frame at an offset it found.
LEMMA MillerSyncType ==
    ASSUME NEW u \in Demodulator(MillerStates), u.state = "unsync",
           NEW offsets \in SUBSET (0..7)
    PROVE  MillerSync(u, offsets) \in Demodulator(MillerStates)
<1> DEFINE S == {o \in offsets : MillerStart(u.two, o)}
           s == Highest(S)
           e == <<>>
<1>1. s \in 0..7 \cup {NoSync}
    BY HighestType
<1>2. e \in Seq(Byte)
    OBVIOUS
<1>3. u.high \in 0..7 /\ u.input \in Nat
    BY DEF Demodulator
<1>4. u.input + 2 \in Nat
    BY <1>3
<1>5. MillerSync(u, offsets) =
        IF u.high < 7
        THEN [u EXCEPT !.high = IF All(u.two, 1) THEN @ + 1 ELSE 0]
        ELSE IF s = NoSync
        THEN [u EXCEPT !.sync = s, !.input = 0]
        ELSE [u EXCEPT !.sync = s, !.state = "soc", !.output = e, !.input = @ + 2]
    BY DEF MillerSync
<1> HIDE DEF S, s, e
<1>6. CASE u.high < 7
    <2> DEFINE h == IF All(u.two, 1) THEN u.high + 1 ELSE 0
    <2>1. h \in 0..7
        BY <1>3, <1>6
    <2>2. MillerSync(u, offsets) = [u EXCEPT !.high = h]
        BY <1>5, <1>6
    <2> HIDE DEF h
    <2> QED
        BY <2>1, <2>2 DEF Demodulator
<1>7. CASE ~(u.high < 7) /\ s = NoSync
    <2> DEFINE n == [u EXCEPT !.sync = s, !.input = 0]
    <2>1. n.state = "unsync" /\ n.bits = u.bits
        BY DEF Demodulator
    <2>2. n \in [state: MillerStates, two: [1..16 -> Samples], high: 0..7,
                 sync: 0..7 \cup {NoSync}, bits: Seq(Samples),
                 output: Seq(Byte), input: Nat]
        BY <1>1 DEF Demodulator
    <2> HIDE DEF n
    <2>3. n \in Demodulator(MillerStates)
        BY <2>1, <2>2 DEF Demodulator
    <2> QED
        BY <1>5, <1>7, <2>3 DEF n
<1>8. CASE ~(u.high < 7) /\ s /= NoSync
    BY <1>1, <1>2, <1>4, <1>5, <1>8 DEF Demodulator, MillerStates
<1> QED
    BY <1>6, <1>7, <1>8

\* The same of the card's.
LEMMA ManchesterSyncType ==
    ASSUME NEW m \in Demodulator(ManchesterStates), m.state = "unsync"
    PROVE  ManchesterSync(m) \in Demodulator(ManchesterStates)
<1> DEFINE S == {o \in 0..7 : ManchesterStart(m.two, o)}
           s == Highest(S)
           e == <<>>
<1>1. s \in 0..7 \cup {NoSync}
    BY HighestType
<1>2. e \in Seq(Byte)
    OBVIOUS
<1>3. m.high \in 0..7 /\ m.input \in Nat
    BY DEF Demodulator
<1>4. m.input + 2 \in Nat
    BY <1>3
<1>5. ManchesterSync(m) =
        IF m.high < 2
        THEN [m EXCEPT !.high = IF All(m.two, 0) THEN @ + 1 ELSE 0]
        ELSE IF s = NoSync
        THEN [m EXCEPT !.sync = s, !.input = 0]
        ELSE [m EXCEPT !.sync = s, !.state = "data", !.output = e, !.input = @ + 2]
    BY DEF ManchesterSync
<1> HIDE DEF S, s, e
<1>6. CASE m.high < 2
    <2> DEFINE h == IF All(m.two, 0) THEN m.high + 1 ELSE 0
    <2>1. h \in 0..7
        BY <1>3, <1>6
    <2>2. ManchesterSync(m) = [m EXCEPT !.high = h]
        BY <1>5, <1>6
    <2> HIDE DEF h
    <2> QED
        BY <2>1, <2>2 DEF Demodulator
<1>7. CASE ~(m.high < 2) /\ s = NoSync
    <2> DEFINE n == [m EXCEPT !.sync = s, !.input = 0]
    <2>1. n.state = "unsync" /\ n.bits = m.bits
        BY DEF Demodulator
    <2>2. n \in [state: ManchesterStates, two: [1..16 -> Samples], high: 0..7,
                 sync: 0..7 \cup {NoSync}, bits: Seq(Samples),
                 output: Seq(Byte), input: Nat]
        BY <1>1 DEF Demodulator
    <2> HIDE DEF n
    <2>3. n \in Demodulator(ManchesterStates)
        BY <2>1, <2>2 DEF Demodulator
    <2> QED
        BY <1>5, <1>7, <2>3 DEF n
<1>8. CASE ~(m.high < 2) /\ s /= NoSync
    BY <1>1, <1>2, <1>4, <1>5, <1>8 DEF Demodulator, ManchesterStates
<1> QED
    BY <1>6, <1>7, <1>8
----------------------------------------------------------------------------
\* Naming the sequence that was received.
LEMMA StateType ==
    ASSUME NEW states, NEW d \in Demodulator(states), d.sync /= NoSync,
           NEW b \in Samples, NEW st \in states
    PROVE  [AddBit(d, b) EXCEPT !.state = st] \in Demodulator(states)
<1> DEFINE a == AddBit(d, b)
<1>1. a \in Demodulator(states)
    BY AddBitType
<1>2. a.sync = d.sync
    BY DEF AddBit, Demodulator
<1> HIDE DEF a
<1>3. [a EXCEPT !.state = st] \in Demodulator(states)
    BY <1>1, <1>2 DEF Demodulator
<1> QED
    BY <1>3 DEF a

\* A bit period of a frame.
LEMMA MillerPeriodType ==
    ASSUME NEW u \in Demodulator(MillerStates), u.state /= "unsync"
    PROVE  MillerPeriod(u) \in Demodulator(MillerStates)
<1> DEFINE top == IsMillerModulation(First(u.two, u.sync))
           bottom == IsMillerModulation(Second(u.two, u.sync))
<1>1. u.sync /= NoSync
    BY DEF Demodulator
<1>2. 0 \in Samples /\ 1 \in Samples
    BY DEF Samples
<1>3. /\ [AddBit(u, 0) EXCEPT !.state = "Z"] \in Demodulator(MillerStates)
      /\ [AddBit(u, 1) EXCEPT !.state = "X"] \in Demodulator(MillerStates)
      /\ [AddBit(u, 0) EXCEPT !.state = "Y"] \in Demodulator(MillerStates)
    <2>1. "X" \in MillerStates /\ "Y" \in MillerStates /\ "Z" \in MillerStates
        BY DEF MillerStates
    <2> QED
        BY <1>1, <1>2, <2>1, StateType
<1>4. MillerError \in Demodulator(MillerStates)
    BY ResetType
<1>5. CASE top /\ bottom
    BY <1>4, <1>5 DEF MillerPeriod
<1>6. CASE top /\ ~bottom
    BY <1>3, <1>4, <1>6 DEF MillerPeriod
<1>7. CASE ~top /\ bottom
    BY <1>3, <1>7 DEF MillerPeriod
<1>8. CASE ~top /\ ~bottom
    BY <1>3, <1>4, <1>8 DEF MillerPeriod
<1> QED
    BY <1>5, <1>6, <1>7, <1>8

\* The end of a frame leaves the output for the record.
LEMMA MillerRestType ==
    ASSUME NEW u \in Demodulator(MillerStates)
    PROVE  /\ [miller_rest(u) EXCEPT !.state = "unsync"] \in Demodulator(MillerStates)
           /\ [MillerRest(u) EXCEPT !.state = "unsync"] \in Demodulator(MillerStates)
<1>1. "unsync" \in MillerStates
    BY DEF MillerStates
<1>2. \A d \in Demodulator(MillerStates) :
          [d EXCEPT !.state = "unsync"] \in Demodulator(MillerStates)
    BY <1>1 DEF Demodulator
<1>3. PushRest(u) \in Demodulator(MillerStates)
    BY PushRestType
<1>4. /\ miller_rest(u) \in Demodulator(MillerStates)
      /\ MillerRest(u) \in Demodulator(MillerStates)
    BY <1>3 DEF miller_rest, MillerRest
<1> QED
    BY <1>2, <1>4

\* Eight samples of the reader, to nfcdump and to the firmware.
LEMMA MillerType ==
    ASSUME NEW u \in Demodulator(MillerStates), NEW byte \in Byte
    PROVE  /\ miller_decode_bits(u, byte) \in Demodulator(MillerStates)
           /\ MillerDecoding(u, byte) \in Demodulator(MillerStates)
<1>1. miller_offsets \in SUBSET (0..7) /\ MillerOffsets \in SUBSET (0..7)
    BY DEF miller_offsets, MillerOffsets
<1>2. ASSUME NEW v \in Demodulator(MillerStates), NEW offsets \in SUBSET (0..7)
      PROVE  /\ v.state = "unsync" => MillerSync(v, offsets) \in Demodulator(MillerStates)
             /\ [miller_rest(v) EXCEPT !.state = "unsync"] \in Demodulator(MillerStates)
             /\ [MillerRest(v) EXCEPT !.state = "unsync"] \in Demodulator(MillerStates)
             /\ v.state /= "unsync" => MillerPeriod(v) \in Demodulator(MillerStates)
    BY MillerSyncType, MillerRestType, MillerPeriodType
<1>3. miller_decode_bits(u, byte) \in Demodulator(MillerStates)
    <2> DEFINE v == Kept(Took(u, byte))
    <2>1. v \in Demodulator(MillerStates)
        BY TookType
    <2>2. miller_decode_bits(u, byte) =
            IF v.state = "unsync" THEN MillerSync(v, miller_offsets)
            ELSE IF MillerEnds(v) THEN [miller_rest(v) EXCEPT !.state = "unsync"]
            ELSE MillerPeriod(v)
        BY DEF miller_decode_bits
    <2> HIDE DEF v
    <2> QED
        BY <1>1, <1>2, <2>1, <2>2
<1>4. MillerDecoding(u, byte) \in Demodulator(MillerStates)
    <2> DEFINE v == Took(u, byte)
    <2>1. v \in Demodulator(MillerStates)
        BY TookType
    <2>2. MillerDecoding(u, byte) =
            IF v.state = "unsync" THEN MillerSync(v, MillerOffsets)
            ELSE IF MillerEnds(v) THEN [MillerRest(v) EXCEPT !.state = "unsync"]
            ELSE MillerPeriod(v)
        BY DEF MillerDecoding
    <2> HIDE DEF v
    <2> QED
        BY <1>1, <1>2, <2>1, <2>2
<1> QED
    BY <1>3, <1>4

\* A bit period of the card's frame, the last one included.
LEMMA ManchesterPeriodType ==
    ASSUME NEW m \in Demodulator(ManchesterStates),
           NEW reset \in Demodulator(ManchesterStates)
    PROVE  ManchesterPeriod(m, reset) \in Demodulator(ManchesterStates)
<1>1. /\ AddBit(m, 0) \in Demodulator(ManchesterStates)
      /\ AddBit(m, 1) \in Demodulator(ManchesterStates)
    <2>1. 0 \in Samples /\ 1 \in Samples
        BY DEF Samples
    <2> QED
        BY <2>1, AddBitType
<1>2. PushRest(m) \in Demodulator(ManchesterStates)
    BY PushRestType
<1> DEFINE top == IsManchesterModulation(First(m.two, m.sync))
           bottom == IsManchesterModulation(Second(m.two, m.sync))
<1>3. CASE top
    BY <1>1, <1>3 DEF ManchesterPeriod
<1>4. CASE ~top /\ bottom
    BY <1>1, <1>4 DEF ManchesterPeriod
<1>5. CASE ~top /\ ~bottom
    BY <1>2, <1>5 DEF ManchesterPeriod
<1> QED
    BY <1>3, <1>4, <1>5

\* Eight samples of the card, to nfcdump and to the firmware.
LEMMA ManchesterType ==
    ASSUME NEW m \in Demodulator(ManchesterStates), NEW byte \in Byte
    PROVE  /\ manchester_decode_bits(m, byte) \in Demodulator(ManchesterStates)
           /\ ManchesterDecoding(m, byte) \in Demodulator(ManchesterStates)
<1>1. /\ Took(m, byte) \in Demodulator(ManchesterStates)
      /\ Kept(Took(m, byte)) \in Demodulator(ManchesterStates)
    BY TookType
<1>2. /\ ManchesterReset \in Demodulator(ManchesterStates)
      /\ DemodReset \in Demodulator(ManchesterStates)
    BY ResetType
<1>3. manchester_decode_bits(m, byte) \in Demodulator(ManchesterStates)
    BY <1>1, <1>2, ManchesterSyncType, ManchesterPeriodType DEF manchester_decode_bits
<1>4. ManchesterDecoding(m, byte) \in Demodulator(ManchesterStates)
    BY <1>1, <1>2, ManchesterSyncType, ManchesterPeriodType DEF ManchesterDecoding
<1> QED
    BY <1>3, <1>4
=============================================================================
