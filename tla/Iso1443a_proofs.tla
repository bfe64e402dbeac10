--------------------------- MODULE Iso1443a_proofs ---------------------------
(* iso1443a.c: SnoopIso14443a for every signal, every parameter and every   *)
(* trace size, and ReaderIso14443a with iso14443a_select_card for every     *)
(* population of cards, any requests and any losses.                        *)
EXTENDS Snoop, SelectCard, Demod_proofs, FiniteSetTheorems, SequenceTheorems,
        WellFoundedInduction
-----------------------------------------------------------------------------
(* SnoopIso14443a.                                                          *)
EntryType == [by: {"reader", "card"}, bytes: Seq(Byte)]

Types ==
    /\ now \in Nat
    /\ Uart \in Demodulator(MillerStates)
    /\ Demod \in Demodulator(ManchesterStates)
    /\ ReaderIsActive \in BOOLEAN
    /\ TagIsActive \in BOOLEAN
    /\ param \in Params
    /\ triggered \in BOOLEAN
    /\ half \in {"miller", "manchester"}
    /\ trace \in Seq(EntryType)
    /\ traceLen \in Nat
    /\ main \in {"cycle", "finished"}

IInv == Types /\ TraceFits

----------------------------------------------------------------------------
\* The samples of a pair of bytes.
LEMMA BytesType == ReaderByte \in Byte /\ CardByte \in Byte
BY DEF ReaderByte, CardByte, Byte, Samples

\* Arithmetic of the two tests of LogTrace: an entry that is accepted fits.
LEMMA FitsBound ==
    ASSUME NEW used \in Nat, NEW output \in Seq(Byte), Fits(used, output)
    PROVE  /\ used + EntrySize(output) \in Nat
           /\ used + EntrySize(output) <= TRACE_SIZE
<1> DEFINE n == Len(output)
<1>1. n \in Nat
    OBVIOUS
<1>2. used + 4 + 4 + n < TRACE_SIZE
    BY DEF Fits
<1>3. TRACE_SIZE \in Nat
    BY SnoopAssumption
<1>4. EntrySize(output) = 4 + 4 + 1 + n
    BY DEF EntrySize
<1> HIDE DEF n
<1> QED
    BY <1>1, <1>2, <1>3, <1>4

\* A frame is logged whole, by its first entry, or not at all; the trace keeps
\* its bounds and the loop ends when an entry is refused.
LEMMA LogFrameInv ==
    ASSUME Types, TraceFits, main = "cycle",
           NEW by \in {"reader", "card"}, NEW output \in Seq(Byte),
           LogFrame(by, output)
    PROVE  /\ trace' \in Seq(EntryType) /\ traceLen' \in Nat
           /\ main' \in {"cycle", "finished"}
           /\ TraceFits'
<1> DEFINE e1 == Entry(by, output)
           e2 == Entry(by, <<>>)
           afterStart == traceLen + EntrySize(output)
           afterEnd == afterStart + EntrySize(<<>>)
<1>1. e1 \in EntryType /\ e2 \in EntryType
    BY DEF Entry, EntryType
<1>2. traceLen \in Nat /\ traceLen <= TRACE_SIZE
    BY DEF Types, TraceFits
<1>3. <<>> \in Seq(Byte)
    OBVIOUS
<1>4. CASE ~Fits(traceLen, output)
    BY <1>2, <1>4 DEF LogFrame, Types, TraceFits
<1>5. CASE Fits(traceLen, output) /\ ~Fits(afterStart, <<>>)
    <2>1. afterStart \in Nat /\ afterStart <= TRACE_SIZE
        BY <1>2, <1>5, FitsBound
    <2>2. trace' = Append(trace, e1) /\ traceLen' = afterStart
          /\ main' = "finished"
        BY <1>5 DEF LogFrame
    <2>3. trace' \in Seq(EntryType)
        BY <1>1, <2>2 DEF Types
    <2> QED
        BY <2>1, <2>2, <2>3 DEF TraceFits
<1>6. CASE Fits(traceLen, output) /\ Fits(afterStart, <<>>)
    <2>1. afterStart \in Nat
        BY <1>2, <1>6, FitsBound
    <2>2. afterEnd \in Nat /\ afterEnd <= TRACE_SIZE
        BY <1>3, <1>6, <2>1, FitsBound
    <2>3. trace' = trace \o <<e1, e2>> /\ traceLen' = afterEnd
          /\ UNCHANGED main
        BY <1>6 DEF LogFrame
    <2>4. <<e1, e2>> \in Seq(EntryType)
        BY <1>1
    <2>5. trace' \in Seq(EntryType)
        BY <2>3, <2>4 DEF Types
    <2>6. TraceFits'
        BY <2>2, <2>3 DEF TraceFits
    <2> QED
        BY <2>2, <2>3, <2>5, <2>6 DEF Types
<1> QED
    BY <1>4, <1>5, <1>6

LEMMA InitInv == Init => IInv
<1> SUFFICES ASSUME Init PROVE IInv
    OBVIOUS
<1>1. now = 0
    BY DEF Init, AirInit
<1>2. trace \in Seq(EntryType) /\ triggered \in BOOLEAN
    BY DEF Init
<1>3. TRACE_SIZE \in Nat
    BY SnoopAssumption
<1>4. Uart \in Demodulator(MillerStates) /\ Demod \in Demodulator(ManchesterStates)
    BY ResetType DEF Init
<1>5. traceLen = 0 /\ half = "miller" /\ main = "cycle"
    BY DEF Init
<1>6. ReaderIsActive \in BOOLEAN /\ TagIsActive \in BOOLEAN
      /\ param \in Params
    BY DEF Init
<1>7. TraceFits
    BY <1>3, <1>5 DEF TraceFits
<1>8. Types
    BY <1>1, <1>2, <1>4, <1>5, <1>6 DEF Types
<1> QED
    BY <1>7, <1>8 DEF IInv

LEMMA NextInv == IInv /\ [Next]_vars => IInv'
<1> SUFFICES ASSUME IInv, [Next]_vars PROVE IInv'
    OBVIOUS
<1> USE DEF IInv
<1>1. ReaderByte \in Byte /\ CardByte \in Byte
    BY BytesType
<1>2. /\ MillerDecoding(Uart, ReaderByte) \in Demodulator(MillerStates)
      /\ ManchesterDecoding(Demod, CardByte) \in Demodulator(ManchesterStates)
    BY <1>1, MillerType, ManchesterType DEF Types
<1>3. /\ MillerDecoding(Uart, ReaderByte).output \in Seq(Byte)
      /\ ManchesterDecoding(Demod, CardByte).output \in Seq(Byte)
    BY <1>2 DEF Demodulator
<1>4. /\ MillerReset \in Demodulator(MillerStates)
      /\ DemodReset \in Demodulator(ManchesterStates)
    BY ResetType
<1>5. NextPair => now' \in Nat /\ half' = "miller"
    BY DEF NextPair, Types
<1>6. CASE SkipMiller
    BY <1>6 DEF SkipMiller, Unlogged, airVars, Types, TraceFits
<1>7. CASE MillerBits
    <2>1. Types'
        BY <1>2, <1>7 DEF MillerBits, Unlogged, airVars, Types
    <2>2. TraceFits'
        BY <1>7 DEF MillerBits, Unlogged, TraceFits
    <2> QED
        BY <2>1, <2>2
<1>8. CASE MillerFrame
    <2> DEFINE done == MillerDecoding(Uart, ReaderByte)
    <2>1. /\ main = "cycle" /\ half = "miller"
          /\ IF triggered' THEN LogFrame("reader", done.output) ELSE Unlogged
          /\ triggered' = (triggered \/ (OnShortRequest(param) /\ ShortRequest(Uart, done)))
          /\ IF main' = "finished"
             THEN Uart' = done /\ UNCHANGED <<Demod, ReaderIsActive, half>>
             ELSE /\ Uart' = MillerReset
                  /\ Demod' = DemodReset
                  /\ ReaderIsActive' = FALSE
                  /\ half' = "manchester"
          /\ UNCHANGED <<airVars, TagIsActive, param>>
        BY <1>8 DEF MillerFrame, Reading
    <2>2. /\ trace' \in Seq(EntryType) /\ traceLen' \in Nat
          /\ main' \in {"cycle", "finished"}
          /\ TraceFits'
        <3>1. CASE triggered'
            BY <1>3, <2>1, <3>1, LogFrameInv
        <3>2. CASE ~triggered'
            BY <2>1, <3>2 DEF Unlogged, Types, TraceFits
        <3> QED
            BY <3>1, <3>2
    <2>3. triggered' \in BOOLEAN
        BY <2>1
    <2>4. /\ Uart' \in Demodulator(MillerStates)
          /\ Demod' \in Demodulator(ManchesterStates)
          /\ ReaderIsActive' \in BOOLEAN
          /\ half' \in {"miller", "manchester"}
        BY <1>2, <1>4, <2>1 DEF Types
    <2>5. now' \in Nat /\ TagIsActive' \in BOOLEAN /\ param' \in Params
        BY <2>1 DEF airVars, Types
    <2> QED
        BY <2>2, <2>3, <2>4, <2>5 DEF Types
<1>9. CASE SkipManchester
    BY <1>5, <1>9 DEF SkipManchester, Unlogged, Types, TraceFits
<1>10. CASE ManchesterBits
    <2>1. Types'
        BY <1>2, <1>5, <1>10 DEF ManchesterBits, Unlogged, Types
    <2>2. TraceFits'
        BY <1>10 DEF ManchesterBits, Unlogged, TraceFits
    <2> QED
        BY <2>1, <2>2
<1>11. CASE ManchesterFrame
    <2> DEFINE done == ManchesterDecoding(Demod, CardByte)
    <2>1. /\ main = "cycle"
          /\ LogFrame("card", done.output)
          /\ IF main' = "finished"
             THEN Demod' = done /\ UNCHANGED <<airVars, TagIsActive, half, triggered>>
             ELSE /\ triggered' = (triggered \/ OnCardAnswer(param))
                  /\ Demod' = DemodReset
                  /\ TagIsActive' = FALSE
                  /\ NextPair
          /\ UNCHANGED <<Uart, ReaderIsActive, param>>
        BY <1>11 DEF ManchesterFrame, Reading
    <2>2. /\ trace' \in Seq(EntryType) /\ traceLen' \in Nat
          /\ main' \in {"cycle", "finished"}
          /\ TraceFits'
        BY <1>3, <2>1, LogFrameInv
    <2>3. CASE main' = "finished"
        BY <1>2, <2>1, <2>2, <2>3 DEF airVars, Types
    <2>4. CASE main' /= "finished"
        <3>1. triggered' \in BOOLEAN
            BY <2>1, <2>4
        <3> QED
            BY <1>4, <1>5, <2>1, <2>2, <2>4, <3>1 DEF Types
    <2> QED
        BY <2>3, <2>4
<1>12. CASE Cancel
    BY <1>12 DEF Cancel, airVars, Types, TraceFits
<1>13. CASE UNCHANGED vars
    BY <1>13 DEF vars, airVars, snoopVars, Types, TraceFits
<1> QED
    BY <1>6, <1>7, <1>8, <1>9, <1>10, <1>11, <1>12, <1>13 DEF Next

\* The invariant the others follow from.
THEOREM Invariance == Spec => []IInv
<1>1. Init => IInv
    BY InitInv
<1>2. IInv /\ [Next]_vars => IInv'
    BY NextInv
<1> QED
    BY <1>1, <1>2, PTL DEF Spec

\* LogTrace never writes past the trace, whatever its size and the frames.
THEOREM TraceBounded == Spec => []TraceFits
<1>1. IInv => TraceFits
    BY DEF IInv
<1> QED
    BY <1>1, Invariance, PTL

\* The demodulators and the trace keep their types and bounds.
THEOREM TypeCorrect == Spec => []TypeOK
<1>1. IInv => TypeOK
    <2> SUFFICES ASSUME IInv PROVE TypeOK
        OBVIOUS
    <2>1. Bit = Samples
        BY DEF Bit, Samples
    <2>2. \A d \in {Uart, Demod} :
            /\ d.two \in [1..16 -> Samples]
            /\ d.high \in 0..7
            /\ d.sync \in 0..7 \cup {NoSync}
            /\ d.state /= "unsync" => d.sync /= NoSync
            /\ d.bits \in Seq(Bit) /\ Len(d.bits) <= 8
            /\ d.output \in Seq(Byte)
        BY <2>1 DEF IInv, Types, Demodulator
    <2>3. Uart.state \in MillerStates /\ Demod.state \in ManchesterStates
        BY DEF IInv, Types, Demodulator
    <2> QED
        BY <2>2, <2>3
        DEF IInv, Types, TypeOK, MillerStates, ManchesterStates, EntryType
<1> QED
    BY <1>1, Invariance, PTL
-----------------------------------------------------------------------------
(* ReaderIso14443a.                                                         *)

\* Every set of numbers has a smallest one: the intervals 0..x are ordered by
\* inclusion, which is well-founded on finite sets.
LEMMA SmallestIs ==
    ASSUME NEW S \in SUBSET Nat, S # {}
    PROVE  Smallest(S) \in S /\ \A y \in S : Smallest(S) <= y
<1> DEFINE T == { 0..x : x \in S }
           R == StrictSubsetOrdering(Nat)
<1>1. T \subseteq FiniteSubsetsOf(Nat)
    <2> SUFFICES ASSUME NEW x \in S
                 PROVE  0..x \in FiniteSubsetsOf(Nat)
        OBVIOUS
    <2>1. IsFiniteSet(0..x)
        BY FS_Interval
    <2> QED
        BY <2>1 DEF FiniteSubsetsOf
<1>2. IsWellFoundedOn(R, FiniteSubsetsOf(Nat))
    BY FS_StrictSubsetOrderingWellFounded
<1>3. T # {}
    OBVIOUS
<1> HIDE DEF T, R
<1>4. PICK t \in T : \A u \in T : ~ (<<u, t>> \in R)
    BY <1>1, <1>2, <1>3, WFMin
<1> USE DEF T
<1>5. PICK x \in S : t = 0..x
    OBVIOUS
<1>6. ASSUME NEW y \in S
      PROVE  x <= y
    <2> SUFFICES ASSUME y < x
                 PROVE  FALSE
        OBVIOUS
    <2>1. 0..y \subseteq 0..x /\ 0..y # 0..x
        OBVIOUS
    <2>2. <<0..y, t>> \in R
        BY <2>1, <1>1, <1>5 DEF R, StrictSubsetOrdering, FiniteSubsetsOf
    <2> QED
        BY <2>2, <1>4
<1> QED
    BY <1>6 DEF Smallest
----------------------------------------------------------------------------
\* The bits on the air.
LEMMA FullBits ==
    ASSUME NEW p \in SUBSET Position
    PROVE  /\ Full(p) \subseteq 0..39
           /\ p = { b \in Full(p) : b < 32 }
<1>1. Bcc(p) \subseteq { 32 + j : j \in 0..7 }
    BY DEF Bcc
<1>2. \A b \in Bcc(p) : b \in 32..39
    BY <1>1
<1>3. \A b \in p : b \in 0..31
    BY DEF Position
<1>4. Full(p) = p \cup Bcc(p)
    BY DEF Full
<1> QED
    BY <1>2, <1>3, <1>4

\* Two parts that agree in the bits of the UID agree in their check byte.
LEMMA FullByPrefix ==
    ASSUME NEW p \in SUBSET Position, NEW q \in SUBSET Position, NEW n \in Nat, 32 <= n,
           Prefix(Full(p), n) = Prefix(Full(q), n)
    PROVE  p = q
<1>1. ASSUME NEW r \in SUBSET Position
      PROVE  r = { b \in Prefix(Full(r), n) : b < 32 }
    BY FullBits DEF Prefix
<1> QED
    BY <1>1

\* One answer does not collide.
LEMMA NoCollision ==
    ASSUME NEW a, NEW n \in Nat
    PROVE  CollisionPos({a}, n) = 0
BY DEF CollisionPos

\* The first collision is in the five bytes of the answers, if these agree
\* in the bits that were sent.  A parity bit alone would be found behind them:
\* that of the check byte is, but then a bit of that byte differs before.
LEMMA CollisionBound ==
    ASSUME NEW fulls, \A a \in fulls : \E p \in SUBSET Position : a = Full(p),
           NEW n \in 0..40,
           \A a, b \in fulls : Prefix(a, n) = Prefix(b, n)
    PROVE  /\ CollisionPos(fulls, n) \in Nat
           /\ CollisionPos(fulls, n) # 0 => 8 * (n \div 8) + CollisionPos(fulls, n) <= 39
<1> DEFINE differ(q) == \E a, b \in fulls : q \in a /\ q \notin b
           odd(a, k) == Odd(a \cap (8*k .. 8*k + 7))
           base == 8 * (n \div 8)
           data == { q - base : q \in { r \in n..39 : differ(r) } }
           parity == { 8 * (k - n \div 8) + 8 :
                         k \in { j \in (n \div 8)..4 : \E a, b \in fulls : odd(a, j) # odd(b, j) } }
           seen == (data \cup parity) \ {0}
<1>1. CollisionPos(fulls, n) = IF seen = {} THEN 0 ELSE Smallest(seen)
    BY DEF CollisionPos
<1>2. n \div 8 \in Nat /\ base <= n /\ n < base + 8
    OBVIOUS
<1>3. data \subseteq Nat /\ \A x \in data : base + x <= 39
    <2> HIDE DEF differ
    <2> QED
        BY <1>2
<1>4. parity \subseteq Nat /\ \A x \in parity : \E k \in (n \div 8)..4 :
            x = 8 * (k - n \div 8) + 8 /\ \E a, b \in fulls : odd(a, k) # odd(b, k)
    <2> HIDE DEF odd, base
    <2> QED
        BY <1>2
<1>5. seen \in SUBSET Nat
    BY <1>3, <1>4
<1>6. ASSUME seen # {}
      PROVE  base + Smallest(seen) <= 39
    <2> DEFINE s == Smallest(seen)
    <2>1. s \in seen /\ \A y \in seen : s <= y
        BY <1>5, <1>6, SmallestIs
    <2>0. s \in Nat
        BY <2>1, <1>5
    <2> HIDE DEF s
    <2>2. CASE s \in data
        BY <2>2, <1>3 DEF s
    <2>3. CASE s \in parity
        <3>1. PICK k \in (n \div 8)..4 :
                s = 8 * (k - n \div 8) + 8 /\ \E a, b \in fulls : odd(a, k) # odd(b, k)
            BY <2>3, <1>4
        <3>2. CASE k <= 3
            BY <3>1, <3>2, <1>2 DEF s
        <3>3. CASE k = 4
            <4>1. PICK a \in fulls, b \in fulls : odd(a, 4) # odd(b, 4)
                BY <3>1, <3>3
            <4>2. a \cap (32..39) # b \cap (32..39)
                BY <4>1
            <4>3. PICK q \in 32..39 : differ(q)
                BY <4>2
            <4>4. n < 32
                <5> SUFFICES ASSUME 32 <= n
                             PROVE  a = b
                    BY <4>2
                <5>1. PICK p \in SUBSET Position, r \in SUBSET Position : a = Full(p) /\ b = Full(r)
                    OBVIOUS
                <5> QED
                    BY <5>1, FullByPrefix
            <4>5. q - base \in seen
                <5>1. q \in n..39 /\ q - base # 0
                    BY <4>4, <1>2
                <5> HIDE DEF differ, base
                <5> QED
                    BY <5>1, <4>3
            <4>6. s <= q - base
                BY <2>1, <4>5
            <4> QED
                BY <4>6, <2>0, <1>2 DEF s
        <3> QED
            BY <3>2, <3>3
    <2> QED
        BY <2>1, <2>2, <2>3
<1>7. seen # {} => Smallest(seen) \in Nat
    BY <1>5, SmallestIs
<1> HIDE DEF seen
<1> QED
    BY <1>1, <1>6, <1>7
----------------------------------------------------------------------------
\* What the variables hold; no card is at a level that its UID does not have,
\* and uid has one part for every level passed.
AtLevel(c, s) == s.level <= Len(pop[c].parts)
SelectTypes ==
    /\ SelectTypeOK
    /\ \A c \in Cards : AtLevel(c, card[c])
    /\ uid \in Seq(SUBSET Position)
    /\ pc \in {"wupa", "selall"} => known = {} /\ bits = 0
    /\ pc \in {"selall", "partial", "select"} => Len(uid) = level - 1

\* Without a field no card remembers anything.
Rested == ~field => \A c \in Cards : card[c] = Idle(c)

\* The first j - 1 parts of the card's UID are those stored.
Path(c, j) == \A l \in 1..(j - 1) : uid[l] = DropFirstByte(pop[c].parts[l])

\* A card that was left behind at a level is where its UID leads.
Passing(c) ==
    \/ card[c].st = "idle"
    \/ /\ card[c].st = "ready"
       /\ card[c].level <= level /\ card[c].level <= Len(pop[c].parts)
       /\ Path(c, card[c].level)

\* SimulateIso14443aTag looks at no UID: it is the reader that holds its own.
Emulating(c) ==
    /\ level <= Len(pop[c].parts) /\ Path(c, level)
    /\ pc # "partial"
    /\ pc = "select" => known = pop[c].parts[level]

Selecting ==
    fresh /\ pc \in {"wupa", "selall", "partial", "select"} =>
      /\ \A c \in Cards : Passing(c)
      /\ pc = "wupa" => \A c \in Cards : card[c].st = "idle"
      /\ \A c \in Cards : pop[c].kind = "simtag" => Emulating(c)

\* The card that has just been selected is the one RATS is for.
Chosen(c) ==
    { d \in Cards : card[d].st \in {"active", "protocol"} } = {c} /\ uid = UidOf(c)
Activating ==
    pc = "rats" =>
      \E c \in Cards :
        /\ pop[c].iso4
        /\ pop[c].kind = "card" => card[c].st = "active"
        /\ fresh => Chosen(c)

\* The cards that take part, the part of the UID asked of them, and those among
\* them whose part begins with the bits known.
Ready == { c \in Cards : card[c].st = "ready" }
Here(c) == pop[c].parts[level]
Matching == { c \in Ready : Prefix(Full(Here(c)), bits) = known }
Alike(C) == \A c, d \in C : Here(c) = Here(d)

\* With nothing lost and collisions that can be resolved: the cards that take
\* part are at the level of the reader with the same parts before it, and the
\* bits known are the beginning of the part of one that is there.  A second
\* collision is in the first byte and leaves one part.
Resolving ==
    fresh /\ quiet /\ Resolvable /\ pc \in {"selall", "partial", "select"} =>
      /\ Ready # {}
      /\ \A c \in Ready : card[c].level = level
      /\ \A c, d \in Ready : SameUpTo(c, d, level)
      /\ pc = "partial" =>
           /\ \A c \in Cards : pop[c].kind = "card"
           /\ bits \in 1..32 /\ known \subseteq 0..(bits - 1)
           /\ Matching # {}
           /\ \/ Alike(Matching)
              \/ /\ bits <= 7
                 /\ \E a, b \in Matching : \A c \in Matching : Here(c) \in {Here(a), Here(b)}
      /\ pc = "select" => \E c \in Ready : Here(c) = known \cap Position

SelectIInv ==
    /\ SelectTypes /\ Rested /\ Selecting /\ Activating /\ OneSelected
    /\ Resolving /\ Resolves /\ NumberInStep
----------------------------------------------------------------------------
\* What is known of the cards in the field.
LEMMA Population ==
    ASSUME pop \in Populations, NEW c \in Cards
    PROVE  /\ pop[c].kind \in CardKinds /\ pop[c].iso4 \in BOOLEAN
           /\ pop[c].parts \in Seq(SUBSET Position) /\ Len(pop[c].parts) \in 1..3
           /\ \A l \in 1..Len(pop[c].parts) :
                /\ pop[c].parts[l] \subseteq Position
                /\ l < Len(pop[c].parts) <=> pop[c].parts[l] \cap 0..7 = {3, 7}
           /\ pop[c].kind = "mf1k" => ~pop[c].iso4
           /\ pop[c].kind # "card" => Cards = {c}
           /\ \A d \in Cards : d # c => pop[d].parts # pop[c].parts
<1>1. pop \in Seq(CardType)
    BY SelectConstants
<1>2. pop[c] \in CardType
    BY <1>1 DEF Cards
<1>3. pop[c].parts \in Seq(SUBSET Position)
    BY <1>2 DEF CardType
<1>4. /\ Len(pop[c].parts) \in 1..3
      /\ \A l \in 1..Len(pop[c].parts) :
           l < Len(pop[c].parts) <=> pop[c].parts[l] \cap 0..7 = {3, 7}
      /\ pop[c].kind = "mf1k" => ~pop[c].iso4
      /\ \A j \in 1..Len(pop) :
           c # j => pop[c].kind = "card" /\ pop[c].parts # pop[j].parts
    BY SelectConstants DEF Cards
<1>5. \A l \in 1..Len(pop[c].parts) : pop[c].parts[l] \subseteq Position
    BY <1>3
<1>6. pop[c].kind # "card" => Cards = {c}
    BY <1>4 DEF Cards
<1> QED
    BY <1>2, <1>3, <1>4, <1>5, <1>6 DEF Cards, CardType

States == [st : {"idle", "ready", "active", "protocol", "halt"}, level : 1..3, num : {0, 1}]
Frames == [op : {"WUPA", "SELALL", "PARTIAL", "SELECT", "RATS", "APDU", "HLTA"},
           level : 0..3, known : SUBSET Nat, n : 0..40]

\* A card that misses a frame stays what it is.
LEMMA StayIs ==
    ASSUME SelectTypeOK, NEW c \in Cards
    PROVE  Stay(c).to = card[c] /\ Stay(c).ans = "none" /\ card[c] \in States
<1>1. card[c] \in States
    BY DEF SelectTypeOK, States
<1> QED
    BY <1>1 DEF Stay, At, States

\* Every reaction leads to a state of the card.
LEMMA NextLevel ==
    ASSUME NEW m \in 1..3
    PROVE  \A i \in 1..m : i \in 1..3 /\ (i < m => i + 1 \in 1..m)
OBVIOUS

LEMMA ReactionType ==
    ASSUME SelectTypeOK, NEW c \in Cards, AtLevel(c, card[c]), NEW f \in Frames
    PROVE  Reaction(c, f).to \in { s \in States : AtLevel(c, s) }
<1> DEFINE S == { s \in States : AtLevel(c, s) }
<1>1. card[c] \in S /\ Stay(c).to = card[c]
    BY StayIs
<1>2. pop[c].kind \in CardKinds /\ Len(pop[c].parts) \in 1..3
    BY Population DEF SelectTypeOK
<1>0. \A ans : \A st \in {"idle", "ready", "active", "protocol", "halt"},
                     l \in 1..Len(pop[c].parts), num \in {0, 1} : At(c, st, l, num, ans).to \in S
    <2>1. \A l \in 1..Len(pop[c].parts) : l \in 1..3 /\ l <= Len(pop[c].parts)
        <3>1. PICK m \in 1..3 : m = Len(pop[c].parts)
            BY <1>2
        <3>2. \A l \in 1..m : l \in 1..3 /\ l <= m
            OBVIOUS
        <3> QED
            BY <3>1, <3>2, Zenon
    <2> QED
        BY <2>1 DEF At, States, AtLevel
<1>7. /\ card[c].level \in 1..Len(pop[c].parts) /\ card[c].num \in {0, 1} /\ 1 - card[c].num \in {0, 1}
      /\ card[c].st \in {"idle", "ready", "active", "protocol", "halt"}
      /\ 1 \in 1..Len(pop[c].parts)
    BY <1>1, <1>2 DEF States, AtLevel
<1> HIDE DEF S
<1>3. Selected(c).to \in S
    <2>1. card[c].level < Len(pop[c].parts) => card[c].level + 1 \in 1..Len(pop[c].parts)
        BY <1>2, <1>7, NextLevel
    <2> QED
        BY <2>1, <1>0, <1>7 DEF Selected
<1>4. CASE pop[c].kind = "card"
    <2>1. ReadyCard(c, f).to \in S
        BY <1>0, <1>1, <1>3, <1>7 DEF ReadyCard
    <2>2. IsoCard(c, f).to \in S
        BY <1>0, <1>1, <1>7, <2>1 DEF IsoCard
    <2> QED
        BY <1>4, <2>2 DEF Reaction, S
<1>5. CASE pop[c].kind = "simtag"
    <2> DEFINE parts == Len(pop[c].parts)
    <2>1. f.level \in 1..parts => (f.level < parts => f.level + 1 \in 1..parts)
        BY <1>2, NextLevel
    <2>2. blocknum \in {0, 1}
        BY DEF SelectTypeOK
    <2>3. SimTag(c, f).to \in S
        BY <1>0, <1>1, <1>7, <2>1, <2>2, ZenonT(60) DEF SimTag
    <2> QED
        BY <1>5, <2>3 DEF Reaction, S
<1>6. CASE pop[c].kind = "mf1k"
    <2>1. f.level = card[c].level => f.level \in 1..Len(pop[c].parts)
        BY <1>7
    <2>2. Mf1k(c, f).to \in S
        BY <1>0, <1>1, <1>3, <1>7, <2>1 DEF Mf1k
    <2> QED
        BY <1>6, <2>2 DEF Reaction, S
<1> QED
    BY <1>2, <1>4, <1>5, <1>6 DEF CardKinds

----------------------------------------------------------------------------
\* Exchange, whatever the reader makes of what it hears: the cards of H are
\* heard, those of `missed' have not heard the frame.
Answered(f, missed) == { c \in Cards \ missed : Reaction(c, f).ans # "none" }
Swapped(f, missed, H) ==
    /\ missed \in SUBSET Cards /\ H \in SUBSET Answered(f, missed)
    /\ card' = [c \in Cards |-> IF c \in missed THEN card[c] ELSE Reaction(c, f).to]
    /\ quiet' \in BOOLEAN /\ insync' \in BOOLEAN
    /\ quiet' => missed = {} /\ H = Answered(f, {}) /\ quiet
    /\ insync' => missed = {} /\ H = Answered(f, {}) /\ (f.op = "RATS" \/ insync)
    /\ field' = TRUE
    /\ UNCHANGED <<pop, flags, fresh>>

\* What became of the cards and of the answers in an exchange.
Does(missed, c, f) == IF c \in missed THEN Stay(c) ELSE Reaction(c, f)
Answers(missed, f) == { c \in Cards : Does(missed, c, f).ans # "none" }
OnAir(missed, lost, f) ==
    /\ card' = [c \in Cards |-> Does(missed, c, f).to]
    /\ quiet' = (quiet /\ missed = {} /\ lost = {})
    /\ insync' = IF f.op = "RATS" THEN missed = {} /\ lost = {}
                 ELSE insync /\ missed = {} /\ lost = {}
    /\ field' = TRUE
    /\ UNCHANGED <<pop, flags, fresh>>

LEMMA SwappedIs ==
    ASSUME SelectTypeOK, NEW f, NEW missed \in SUBSET Cards,
           NEW lost \in SUBSET Answers(missed, f), OnAir(missed, lost, f)
    PROVE  Swapped(f, missed, Answers(missed, f) \ lost)
<1>1. \A c \in Cards : Does(missed, c, f).to = IF c \in missed THEN card[c] ELSE Reaction(c, f).to
    BY StayIs DEF Does
<1>2. \A c \in Answers(missed, f) : c \notin missed /\ Does(missed, c, f) = Reaction(c, f)
    BY StayIs DEF Does, Answers
<1>3. missed = {} => Answers(missed, f) = Answered(f, {})
    BY DEF Answered, Answers, Does
<1>4. Answers(missed, f) \ lost \subseteq Answered(f, missed)
    BY <1>2 DEF Answered, Answers
<1>5. card' = [c \in Cards |-> IF c \in missed THEN card[c] ELSE Reaction(c, f).to]
    BY <1>1 DEF OnAir
<1>6. quiet' \in BOOLEAN /\ insync' \in BOOLEAN
    BY DEF SelectTypeOK, OnAir
<1>7. /\ insync' => missed = {} /\ lost = {} /\ (f.op = "RATS" \/ insync)
      /\ quiet' => missed = {} /\ lost = {} /\ quiet
    BY DEF OnAir
<1> QED
    BY <1>2, <1>3, <1>4, <1>5, <1>6, <1>7 DEF Swapped, OnAir

LEMMA WupaSteps ==
    ASSUME SelectTypeOK, Wupa
    PROVE  \E missed, H :
             /\ Swapped(Bare("WUPA"), missed, H)
             /\ IF H = {} THEN Return(0) ELSE pc' = "selall" /\ ret' = ret
             /\ level' = 1 /\ uid' = <<>>
             /\ UNCHANGED <<known, bits, blocknum>>
<1> DEFINE f == Bare("WUPA")
<1>1. PICK missed \in SUBSET Cards, lost \in SUBSET Cards :
        /\ lost \subseteq Answers(missed, f) /\ OnAir(missed, lost, f)
        /\ IF Answers(missed, f) \ lost = {} THEN Return(0) ELSE pc' = "selall" /\ ret' = ret
        /\ level' = 1 /\ uid' = <<>>
        /\ UNCHANGED <<known, bits, blocknum>>
    BY DEF Wupa, Exchange, Nobody, OnAir, Answers, Does
<1> HIDE DEF f
<1>2. Swapped(f, missed, Answers(missed, f) \ lost)
    BY <1>1, SwappedIs
<1> QED
    BY <1>1, <1>2 DEF f

LEMMA SelectSteps ==
    ASSUME SelectTypeOK, SelectUid
    PROVE  \E missed, H :
             LET f == Frame("SELECT", level, known \cap Position, 0)
                 says(sak) == \E c \in H : Reaction(c, f).ans = sak
             IN  /\ Swapped(f, missed, H)
                 /\ CASE H = {} -> Return(0) /\ UNCHANGED <<uid, level>>
                      [] H # {} /\ says("cascade") ->
                           /\ uid' = Append(uid, DropFirstByte(known \cap Position))
                           /\ level' = level + 1 /\ pc' = "selall" /\ ret' = ret
                      [] OTHER ->
                           /\ uid' = Append(uid, known \cap Position) /\ UNCHANGED level
                           /\ IF \E c \in H : pop[c].iso4
                              THEN pc' = "rats" /\ ret' = ret ELSE Return(2)
                 /\ known' = {} /\ bits' = 0 /\ UNCHANGED blocknum
<1> DEFINE f == Frame("SELECT", level, known \cap Position, 0)
<1>1. PICK missed \in SUBSET Cards, lost \in SUBSET Cards :
        LET heard == [c \in Answers(missed, f) \ lost |-> Does(missed, c, f).ans]
            says(sak) == \E c \in DOMAIN heard : heard[c] = sak
        IN  /\ lost \subseteq Answers(missed, f) /\ OnAir(missed, lost, f)
            /\ CASE Nobody(heard)   -> Return(0) /\ UNCHANGED <<uid, level>>
                [] ~Nobody(heard) /\ says("cascade") ->
                     /\ uid' = Append(uid, DropFirstByte(known \cap Position))
                     /\ level' = level + 1 /\ pc' = "selall" /\ ret' = ret
                [] OTHER ->
                     /\ uid' = Append(uid, known \cap Position) /\ UNCHANGED level
                     /\ IF \E c \in DOMAIN heard : pop[c].iso4
                        THEN pc' = "rats" /\ ret' = ret ELSE Return(2)
            /\ known' = {} /\ bits' = 0 /\ UNCHANGED blocknum
    BY ZenonT(60) DEF SelectUid, Exchange, OnAir, Answers, Does
<1> HIDE DEF f
<1> DEFINE H == Answers(missed, f) \ lost
<1>2. Swapped(f, missed, H) /\ \A c \in H : Does(missed, c, f).ans = Reaction(c, f).ans
    <2>1. \A c \in H : Does(missed, c, f) = Reaction(c, f)
        BY StayIs DEF Does, Answers
    <2> QED
        BY <1>1, <2>1, SwappedIs
<1>3. (\E c \in H : Does(missed, c, f).ans = "cascade") <=> (\E c \in H : Reaction(c, f).ans = "cascade")
    BY <1>2
<1> HIDE DEF H
<1> QED
    BY <1>1, <1>2, <1>3 DEF f, Nobody, H
LEMMA AnticollisionSteps ==
    ASSUME SelectTypeOK, NEW op, Anticollision(op)
    PROVE  \E missed, H :
             LET fulls == { Full(pop[c].parts[level]) : c \in H }
                 p     == CollisionPos(fulls, bits)
             IN  /\ Swapped(Frame(op, level, Prefix(known, bits), bits), missed, H)
                 /\ IF H = {} THEN Return(0) /\ UNCHANGED <<known, bits>>
                    ELSE IF p # 0 THEN Colliding(fulls, p) ELSE Complete(fulls)
                 /\ UNCHANGED <<level, uid, blocknum>>
<1> DEFINE f == Frame(op, level, Prefix(known, bits), bits)
<1>1. PICK missed \in SUBSET Cards, lost \in SUBSET Cards :
        LET heard == [c \in Answers(missed, f) \ lost |-> Does(missed, c, f).ans]
            fulls == Fulls(heard)
            p     == CollisionPos(fulls, bits)
        IN  /\ lost \subseteq Answers(missed, f) /\ OnAir(missed, lost, f)
            /\ IF Nobody(heard) THEN Return(0) /\ UNCHANGED <<known, bits>>
               ELSE IF p # 0 THEN Colliding(fulls, p) ELSE Complete(fulls)
            /\ UNCHANGED <<level, uid, blocknum>>
    BY ZenonT(60) DEF Anticollision, Exchange, OnAir, Answers, Does
<1> HIDE DEF f
<1> DEFINE H == Answers(missed, f) \ lost
           heard == [c \in H |-> Does(missed, c, f).ans]
<1>2. Swapped(f, missed, H)
    BY <1>1, SwappedIs
<1>3. Fulls(heard) = { Full(pop[c].parts[level]) : c \in H } /\ (Nobody(heard) <=> H = {})
    BY DEF Fulls, Nobody
<1>4. /\ IF Nobody(heard) THEN Return(0) /\ UNCHANGED <<known, bits>>
         ELSE IF CollisionPos(Fulls(heard), bits) # 0
              THEN Colliding(Fulls(heard), CollisionPos(Fulls(heard), bits))
              ELSE Complete(Fulls(heard))
      /\ UNCHANGED <<level, uid, blocknum>>
    BY <1>1
<1> HIDE DEF H, heard
<1> QED
    BY <1>2, <1>3, <1>4 DEF f

LEMMA RatsSteps ==
    ASSUME SelectTypeOK, Rats
    PROVE  \E missed, H :
             /\ Swapped(Bare("RATS"), missed, H)
             /\ IF H = {} THEN Return(0) /\ UNCHANGED blocknum ELSE Return(1) /\ blocknum' = 0
             /\ UNCHANGED <<level, uid, known, bits>>
<1> DEFINE f == Bare("RATS")
<1>1. PICK missed \in SUBSET Cards, lost \in SUBSET Cards :
        LET H == Answers(missed, f) \ lost
        IN  /\ lost \subseteq Answers(missed, f) /\ OnAir(missed, lost, f)
            /\ IF H = {} THEN Return(0) /\ UNCHANGED blocknum ELSE Return(1) /\ blocknum' = 0
            /\ UNCHANGED <<level, uid, known, bits>>
    BY DEF Rats, Exchange, Nobody, OnAir, Answers, Does
<1> HIDE DEF f
<1>2. Swapped(f, missed, Answers(missed, f) \ lost)
    BY <1>1, SwappedIs
<1> QED
    BY <1>1, <1>2 DEF f

LEMMA ApduSteps ==
    ASSUME SelectTypeOK, Apdu
    PROVE  \E missed, H :
             /\ Swapped(Bare("APDU"), missed, H)
             /\ blocknum' = IF H # {} /\ (\E c \in H : Reaction(c, Bare("APDU")).to.num = 1)
                                          = (blocknum = 1)
                            THEN 1 - blocknum ELSE blocknum
             /\ pc' = "raw"
             /\ UNCHANGED <<level, uid, known, bits, ret>>
<1> DEFINE f == Bare("APDU")
<1>1. PICK missed \in SUBSET Cards, lost \in SUBSET Cards :
        LET heard == [c \in Answers(missed, f) \ lost |-> Does(missed, c, f).ans]
        IN  /\ lost \subseteq Answers(missed, f) /\ OnAir(missed, lost, f)
            /\ blocknum' = IF ~Nobody(heard) /\ (\E c \in DOMAIN heard : Reaction(c, f).to.num = 1)
                                                 = (blocknum = 1)
                           THEN 1 - blocknum ELSE blocknum
            /\ pc' = "raw"
            /\ UNCHANGED <<level, uid, known, bits, ret>>
    BY DEF Apdu, Exchange, OnAir, Answers, Does
<1> HIDE DEF f
<1> DEFINE H == Answers(missed, f) \ lost
<1>2. Swapped(f, missed, H)
    BY <1>1, SwappedIs
<1> HIDE DEF H
<1> QED
    BY <1>1, <1>2 DEF f, Nobody, H

LEMMA RawSteps ==
    ASSUME SelectTypeOK, Raw
    PROVE  \E missed, H :
             /\ Swapped(Bare("HLTA"), missed, H)
             /\ pc' = "done" /\ UNCHANGED <<level, uid, known, bits, ret, blocknum>>
<1> DEFINE f == Bare("HLTA")
<1>1. PICK missed \in SUBSET Cards, lost \in SUBSET Cards :
        /\ lost \subseteq Answers(missed, f) /\ OnAir(missed, lost, f)
        /\ pc' = "done" /\ UNCHANGED <<level, uid, known, bits, ret, blocknum>>
    BY DEF Raw, Exchange, OnAir, Answers, Does
<1> HIDE DEF f
<1>2. Swapped(f, missed, Answers(missed, f) \ lost)
    BY <1>1, SwappedIs
<1> QED
    BY <1>1, <1>2 DEF f
----------------------------------------------------------------------------
\* Types.
LEMMA SwappedTypes ==
    ASSUME SelectTypes, NEW f \in Frames, NEW missed, NEW H, Swapped(f, missed, H)
    PROVE  /\ pop' \in Populations /\ Cards' = Cards
           /\ card' \in [Cards -> States]
           /\ \A c \in Cards : AtLevel(c, card[c])'
           /\ field' \in BOOLEAN /\ flags' \in Requests \cup {{}}
           /\ fresh' \in BOOLEAN /\ quiet' \in BOOLEAN /\ insync' \in BOOLEAN
<1>1. \A c \in Cards : /\ card[c] \in States /\ Reaction(c, f).to \in States
                       /\ AtLevel(c, card[c]) /\ AtLevel(c, Reaction(c, f).to)
    BY StayIs, ReactionType DEF SelectTypes
<1>2. Cards' = Cards
    BY DEF Swapped, Cards
<1>3. card' \in [Cards -> States]
    BY <1>1 DEF Swapped
<1>4. \A c \in Cards : card'[c] = IF c \in missed THEN card[c] ELSE Reaction(c, f).to
    BY DEF Swapped
<1>5. \A c \in Cards : AtLevel(c, card'[c])
    BY <1>1, <1>4
<1>6. \A c \in Cards : AtLevel(c, card[c])'
    BY <1>5 DEF AtLevel, Swapped
<1> QED
    BY <1>2, <1>3, <1>6 DEF Swapped, SelectTypeOK, SelectTypes

LEMMA BareFrames ==
    \A op \in {"WUPA", "RATS", "APDU", "HLTA"} : Bare(op) \in Frames /\ Bare(op).op = op
BY DEF Bare, Frame, Frames

\* The anticollision loop: what it knows stays within uid_resp and the check
\* byte behind it.
LEMMA PrefixTypes ==
    ASSUME SelectTypeOK, NEW op \in {"SELALL", "PARTIAL", "SELECT"}
    PROVE  /\ Frame(op, level, Prefix(known, bits), bits) \in Frames
           /\ Frame(op, level, known \cap Position, 0) \in Frames
<1>1. level \in 0..3 /\ bits \in 0..40 /\ 0 \in 0..40
    BY DEF SelectTypeOK
<1>0. known \subseteq 0..39
    BY DEF SelectTypeOK
<1>2. Prefix(known, bits) \in SUBSET Nat /\ known \cap Position \in SUBSET Nat
    <2>1. Prefix(known, bits) \subseteq known
        BY DEF Prefix
    <2> QED
        <3>1. \A b \in known : b \in Nat
            BY <1>0
        <3> QED
            BY <2>1, <3>1, Zenon
<1> QED
    BY <1>1, <1>2 DEF Frame, Frames

\* Who answers an anticollision frame is at its level, with the bits that
\* were sent; the emulations answer a SELECT ALL only.
LEMMA Answering ==
    ASSUME SelectTypes, NEW c \in Cards, NEW f, f.op \in {"SELALL", "PARTIAL"},
           Reaction(c, f).ans # "none"
    PROVE  /\ f.level \in 1..Len(pop[c].parts)
           /\ pop[c].kind # "card" => f.op = "SELALL"
           /\ pop[c].kind = "card" =>
                Prefix(Full(pop[c].parts[f.level]), f.n) = f.known /\ f.n < 40
<1>1. pop[c].kind \in CardKinds
    BY Population DEF SelectTypes, SelectTypeOK
<1>2. card[c].level \in 1..Len(pop[c].parts)
    <2>1. card[c] \in States
        BY StayIs DEF SelectTypes
    <2>2. Len(pop[c].parts) \in 1..3
        BY Population DEF SelectTypes, SelectTypeOK
    <2> QED
        BY <2>1, <2>2 DEF SelectTypes, AtLevel, States
<1>3. Stay(c).ans = "none" /\ \A st, l, num : At(c, st, l, num, "none").ans = "none"
    BY DEF Stay, At
<1>4. CASE pop[c].kind = "card"
    <2>1. card[c].st = "ready" /\ Reaction(c, f) = ReadyCard(c, f)
        BY <1>3, <1>4 DEF Reaction, IsoCard
    <2>2. f.level = card[c].level /\ Matches(c, f) /\ f.n < 40
        BY <1>3, <2>1 DEF ReadyCard
    <2> QED
        BY <1>2, <1>4, <2>2 DEF Matches, Part
<1>5. CASE pop[c].kind = "simtag"
    BY <1>3, <1>5 DEF Reaction, SimTag
<1>6. CASE pop[c].kind = "mf1k"
    BY <1>2, <1>3, <1>6 DEF Reaction, Mf1k
<1> QED
    BY <1>1, <1>4, <1>5, <1>6 DEF CardKinds

\* What the cards heard sent: UID parts with their check bytes that agree in
\* the bits the reader sent.
LEMMA Superposed ==
    ASSUME SelectTypes, NEW op \in {"SELALL", "PARTIAL"}, op = "SELALL" => bits = 0,
           NEW missed, NEW H, Swapped(Frame(op, level, Prefix(known, bits), bits), missed, H)
    PROVE  LET fulls == { Full(pop[c].parts[level]) : c \in H }
           IN  /\ \A a \in fulls : \E p \in SUBSET Position : a = Full(p)
               /\ \A a, b \in fulls : Prefix(a, bits) = Prefix(b, bits)
<1> DEFINE fulls == { Full(pop[c].parts[level]) : c \in H }
           f == Frame(op, level, Prefix(known, bits), bits)
<1>1. f.op = op /\ f.level = level /\ f.known = Prefix(known, bits) /\ f.n = bits
    BY DEF Frame
<1>2. \A c \in H : c \in Cards /\ Reaction(c, f).ans # "none"
    BY DEF Swapped, Answered
<1> HIDE DEF f
<1>3. \A c \in H : /\ level \in 1..Len(pop[c].parts)
                   /\ pop[c].kind # "card" => op = "SELALL"
                   /\ pop[c].kind = "card" =>
                        Prefix(Full(pop[c].parts[level]), bits) = Prefix(known, bits)
    BY <1>1, <1>2, Answering
<1>4. \A c \in H : pop[c].parts[level] \in SUBSET Position
    BY <1>2, <1>3, Population DEF SelectTypes, SelectTypeOK
<1>5. CASE op = "SELALL"
    <2>1. \A p \in SUBSET Position : Prefix(Full(p), 0) = {}
        BY FullBits DEF Prefix
    <2> QED
        <3>1. bits = 0
            BY <1>5
        <3>2. \A a \in fulls : \E p \in SUBSET Position : a = Full(p)
            BY <1>4
        <3>3. \A a \in fulls : Prefix(a, 0) = {}
            BY <2>1, <3>2
        <3> QED
            BY <3>1, <3>2, <3>3
<1>6. CASE op = "PARTIAL"
    BY <1>3, <1>4, <1>6
<1> QED
    BY <1>5, <1>6

LEMMA CollidingTypes ==
    ASSUME SelectTypes, NEW fulls, NEW p \in Nat, p # 0,
           8 * (bits \div 8) + p <= 39, Colliding(fulls, p)
    PROVE  known' \subseteq 0..39 /\ bits' \in 0..40 /\ pc' = "partial" /\ ret' = ret
<1> DEFINE offset == bits % 8
           base   == 8 * (bits \div 8)
           at     == bits + p - offset
           valid  == { i \in offset..(p - 1) : i + base \in UNION fulls }
<1>1. PICK junk \in SUBSET (33..(at - 1)) : known' = known \cup valid \cup {at} \cup junk
    BY DEF Colliding
<1>2. bits' = at + 1 /\ pc' = "partial" /\ ret' = ret
    BY DEF Colliding
<1>3. bits \in 0..40 /\ known \subseteq 0..39
    BY DEF SelectTypes, SelectTypeOK
<1>4. offset \in 0..7 /\ base \in Nat /\ at = base + p /\ base + p <= 39
    BY <1>3
<1> HIDE DEF offset, base, at
<1>5. at \in 0..39 /\ p - 1 <= 39
    BY <1>4
<1>6. valid \subseteq 0..39
    <2>1. valid \subseteq offset..(p - 1)
        OBVIOUS
    <2>2. offset..(p - 1) \subseteq 0..39
        BY <1>4, <1>5
    <2> QED
        BY <2>1, <2>2, Zenon
<1> HIDE DEF valid
<1>7. junk \subseteq 0..39
    BY <1>5
<1> QED
    BY <1>1, <1>2, <1>3, <1>5, <1>6, <1>7

\* The parts of SelectTypes that a step of the selection or of an exchange
\* disturbs.
LEMMA TypesKept ==
    ASSUME SelectTypes, NEW f \in Frames, NEW missed, NEW H, Swapped(f, missed, H),
           pc' \in {"selall", "partial", "select", "rats", "apdu", "raw", "done"},
           level' \in 1..3, known' \subseteq 0..39, bits' \in 0..40,
           uid' \in Seq(SUBSET Position), Len(uid') <= 3,
           ret' \in 0..2, blocknum' \in {0, 1},
           pc' = "selall" => known' = {} /\ bits' = 0,
           pc' \in {"selall", "partial", "select"} => Len(uid') = level' - 1
    PROVE  SelectTypes'
BY SwappedTypes, Zenon DEF SelectTypes, SelectTypeOK, States

LEMMA WupaTypes ==
    ASSUME SelectTypes, Wupa
    PROVE  SelectTypes'
<1>1. PICK missed, H :
             /\ Swapped(Bare("WUPA"), missed, H)
             /\ IF H = {} THEN Return(0) ELSE pc' = "selall" /\ ret' = ret
             /\ level' = 1 /\ uid' = <<>>
             /\ UNCHANGED <<known, bits, blocknum>>
    BY WupaSteps DEF SelectTypes
<1>2. known = {} /\ bits = 0 /\ blocknum \in {0, 1} /\ ret \in 0..2
    BY DEF SelectTypes, SelectTypeOK, Wupa
<1>3. ret' \in 0..2 /\ pc' \in {"selall", "apdu"}
    BY <1>1, <1>2 DEF Return
<1>4. uid' \in Seq(SUBSET Position) /\ Len(uid') = 0 /\ level' - 1 = 0 /\ level' \in 1..3
    BY <1>1
<1> QED
    BY <1>1, <1>2, <1>3, <1>4, BareFrames, TypesKept

LEMMA AnticollisionTypes ==
    ASSUME SelectTypes, NEW op \in {"SELALL", "PARTIAL"}, op = "SELALL" => bits = 0,
           pc \in {"selall", "partial"}, Anticollision(op)
    PROVE  SelectTypes'
<1> DEFINE f == Frame(op, level, Prefix(known, bits), bits)
<1>1. PICK missed, H :
             LET fulls == { Full(pop[c].parts[level]) : c \in H }
                 p     == CollisionPos(fulls, bits)
             IN  /\ Swapped(f, missed, H)
                 /\ IF H = {} THEN Return(0) /\ UNCHANGED <<known, bits>>
                    ELSE IF p # 0 THEN Colliding(fulls, p) ELSE Complete(fulls)
                 /\ UNCHANGED <<level, uid, blocknum>>
    BY AnticollisionSteps DEF SelectTypes
<1> DEFINE fulls == { Full(pop[c].parts[level]) : c \in H }
           p     == CollisionPos(fulls, bits)
<1>2. /\ level \in 1..3 /\ known \subseteq 0..39 /\ bits \in 0..40 /\ ret \in 0..2
      /\ blocknum \in {0, 1} /\ uid \in Seq(SUBSET Position) /\ Len(uid) <= 3
      /\ Len(uid) = level - 1
    BY DEF SelectTypes, SelectTypeOK
<1>3. /\ \A a \in fulls : \E q \in SUBSET Position : a = Full(q)
      /\ \A a, b \in fulls : Prefix(a, bits) = Prefix(b, bits)
    <2>1. Swapped(Frame(op, level, Prefix(known, bits), bits), missed, H)
        BY <1>1
    <2> QED
        BY <2>1, Superposed, Zenon
<1>4. p \in Nat /\ (p # 0 => 8 * (bits \div 8) + p <= 39)
    BY <1>2, <1>3, CollisionBound
<1> HIDE DEF fulls
<1>5. \/ Return(0) /\ UNCHANGED <<known, bits>>
      \/ p # 0 /\ Colliding(fulls, p)
      \/ Complete(fulls)
    BY <1>1 DEF fulls
<1> HIDE DEF p
<1>6. /\ known' \subseteq 0..39 /\ bits' \in 0..40 /\ ret' \in 0..2
      /\ pc' \in {"partial", "select", "apdu"}
    <2>1. CASE Return(0) /\ UNCHANGED <<known, bits>>
        BY <2>1, <1>2 DEF Return
    <2>2. CASE p # 0 /\ Colliding(fulls, p)
        BY <2>2, <1>2, <1>4, CollidingTypes
    <2>3. CASE Complete(fulls)
        <3>1. known' \subseteq known \cup Position /\ bits' = bits /\ pc' = "select" /\ ret' = ret
            BY <2>3 DEF Complete
        <3>2. known \cup Position \subseteq 0..39
            BY <1>2 DEF Position
        <3> QED
            BY <1>2, <3>1, <3>2, Zenon
    <2> QED
        BY <1>5, <2>1, <2>2, <2>3
<1>7. Swapped(f, missed, H) /\ UNCHANGED <<level, uid, blocknum>> /\ f \in Frames
    BY <1>1, PrefixTypes DEF SelectTypes
<1> HIDE DEF f
<1> QED
    BY <1>2, <1>6, <1>7, TypesKept

\* What a card answers to a SELECT, and who answers.
LEMMA Selects ==
    ASSUME SelectTypes, NEW c \in Cards, NEW f, f.op = "SELECT", f.level = level
    PROVE  LET r == Reaction(c, f)
               own == pop[c].kind # "simtag" =>
                        /\ card[c].st = "ready" /\ card[c].level = level
                        /\ pop[c].parts[level] = f.known
           IN  \/ /\ r.ans = "cascade" /\ level < Len(pop[c].parts) /\ own
                  /\ r.to.st = "ready" /\ r.to.level = level + 1
               \/ /\ r.ans = "sak" /\ level = Len(pop[c].parts) /\ own
                  /\ r.to.st = "active"
               \/ /\ r.ans = "none"
                  /\ card[c].st \in {"idle", "ready"} => r.to = card[c] \/ r.to.st = "idle"
<1>1. pop[c].kind \in CardKinds
    BY Population DEF SelectTypes, SelectTypeOK
<1>2. card[c].level \in 1..Len(pop[c].parts) /\ level \in 1..3 /\ Len(pop[c].parts) \in 1..3
    <2>1. card[c] \in States
        BY StayIs DEF SelectTypes
    <2>2. Len(pop[c].parts) \in 1..3 /\ level \in 1..3
        BY Population DEF SelectTypes, SelectTypeOK
    <2> QED
        BY <2>1, <2>2 DEF SelectTypes, AtLevel, States
<1>3. Stay(c).to = card[c] /\ Stay(c).ans = "none"
    BY StayIs DEF SelectTypes
<1>4. \A st, l, num, ans : /\ At(c, st, l, num, ans).ans = ans
                           /\ At(c, st, l, num, ans).to.st = st
                           /\ At(c, st, l, num, ans).to.level = l
    BY DEF At
<1>5. card[c].level = level => IF level < Len(pop[c].parts) THEN TRUE ELSE level = Len(pop[c].parts)
    BY <1>2
<1>6. card[c].level = level =>
        \/ /\ level < Len(pop[c].parts) /\ Selected(c) = At(c, "ready", level + 1, 0, "cascade")
        \/ /\ level = Len(pop[c].parts) /\ Selected(c) = At(c, "active", level, 0, "sak")
    BY <1>5 DEF Selected
<1>7. CASE pop[c].kind = "card"
    <2>1. Reaction(c, f) = IsoCard(c, f)
        BY <1>7 DEF Reaction
    <2>2. CASE card[c].st = "ready"
        <3>1. \/ /\ card[c].level = level /\ pop[c].parts[level] = f.known
                 /\ Reaction(c, f) = Selected(c)
              \/ Reaction(c, f) = At(c, "idle", 1, 0, "none")
            BY <2>1, <2>2 DEF IsoCard, ReadyCard, Part
        <3> QED
            BY <2>2, <3>1, <1>4, <1>6
    <2>3. CASE card[c].st = "idle"
        BY <2>1, <2>3, <1>3 DEF IsoCard
    <2>4. CASE card[c].st \notin {"idle", "ready"}
        BY <2>1, <2>4, <1>3, <1>4 DEF IsoCard
    <2> QED
        BY <2>2, <2>3, <2>4
<1>8. CASE pop[c].kind = "simtag"
    <2>1. Reaction(c, f) = SimTag(c, f)
        BY <1>8 DEF Reaction
    <2>2. CASE level < Len(pop[c].parts)
        BY <2>1, <2>2, <1>2, <1>4, <1>8 DEF SimTag
    <2>3. CASE level = Len(pop[c].parts)
        BY <2>1, <2>3, <1>2, <1>4, <1>8 DEF SimTag
    <2>4. CASE level > Len(pop[c].parts)
        BY <2>1, <2>4, <1>2, <1>3 DEF SimTag
    <2> QED
        BY <1>2, <2>2, <2>3, <2>4
<1>9. CASE pop[c].kind = "mf1k"
    <2>1. Reaction(c, f) = Mf1k(c, f)
        BY <1>9 DEF Reaction
    <2>2. \/ /\ card[c].st = "ready" /\ card[c].level = level /\ pop[c].parts[level] = f.known
             /\ Reaction(c, f) = Selected(c)
          \/ Reaction(c, f) = Stay(c)
        BY <2>1 DEF Mf1k, Part
    <2> QED
        BY <2>2, <1>3, <1>4, <1>6
<1> QED
    BY <1>1, <1>7, <1>8, <1>9 DEF CardKinds

LEMMA DroppedType ==
    \A S \in SUBSET Position : DropFirstByte(S) \in SUBSET Position
<1> SUFFICES ASSUME NEW S \in SUBSET Position
             PROVE  DropFirstByte(S) \subseteq Position
    OBVIOUS
<1>1. \A b \in S : b >= 8 => b - 8 \in 0..31
    BY DEF Position
<1> QED
    BY <1>1 DEF DropFirstByte, Position

LEMMA SelectUidTypes ==
    ASSUME SelectTypes, SelectUid
    PROVE  SelectTypes'
<1> DEFINE f == Frame("SELECT", level, known \cap Position, 0)
<1>1. PICK missed, H :
             LET says(sak) == \E c \in H : Reaction(c, f).ans = sak
             IN  /\ Swapped(f, missed, H)
                 /\ CASE H = {} -> Return(0) /\ UNCHANGED <<uid, level>>
                      [] H # {} /\ says("cascade") ->
                           /\ uid' = Append(uid, DropFirstByte(known \cap Position))
                           /\ level' = level + 1 /\ pc' = "selall" /\ ret' = ret
                      [] OTHER ->
                           /\ uid' = Append(uid, known \cap Position) /\ UNCHANGED level
                           /\ IF \E c \in H : pop[c].iso4
                              THEN pc' = "rats" /\ ret' = ret ELSE Return(2)
                 /\ known' = {} /\ bits' = 0 /\ UNCHANGED blocknum
    BY SelectSteps DEF SelectTypes
<1>2. f.op = "SELECT" /\ f.level = level /\ f \in Frames /\ \A c \in H : c \in Cards
    BY <1>1, PrefixTypes DEF Frame, SelectTypes, Swapped, Answered
<1>3. /\ level \in 1..3 /\ known' \subseteq 0..39 /\ bits' \in 0..40 /\ ret \in 0..2
      /\ blocknum' \in {0, 1} /\ uid \in Seq(SUBSET Position) /\ Len(uid) <= 3
      /\ Len(uid) = level - 1 /\ known' = {} /\ bits' = 0
    <2>1. pc = "select"
        BY DEF SelectUid
    <2> QED
        BY <1>1, <2>1 DEF SelectTypes, SelectTypeOK
<1>4. known \cap Position \in SUBSET Position /\ DropFirstByte(known \cap Position) \in SUBSET Position
    BY DroppedType
<1>5. \A s \in SUBSET Position : Append(uid, s) \in Seq(SUBSET Position) /\ Len(Append(uid, s)) = level
    BY <1>3
<1>6. \/ pc' = "apdu" /\ ret' \in 0..2 /\ UNCHANGED <<uid, level>>
      \/ /\ \E c \in H : Reaction(c, f).ans = "cascade"
         /\ uid' = Append(uid, DropFirstByte(known \cap Position))
         /\ level' = level + 1 /\ pc' = "selall" /\ ret' \in 0..2
      \/ /\ uid' = Append(uid, known \cap Position) /\ UNCHANGED level
         /\ pc' \in {"rats", "apdu"} /\ ret' \in 0..2
    <2> HIDE DEF f
    <2>1. CASE H = {}
        BY <1>1, <2>1 DEF Return
    <2>2. CASE H # {} /\ \E c \in H : Reaction(c, f).ans = "cascade"
        BY <1>1, <1>3, <2>2
    <2>3. CASE H # {} /\ ~ \E c \in H : Reaction(c, f).ans = "cascade"
        BY <1>1, <1>3, <2>3 DEF Return
    <2> QED
        BY <2>1, <2>2, <2>3
<1>7. Swapped(f, missed, H)
    BY <1>1
<1> HIDE DEF f
<1>8. CASE \E c \in H : Reaction(c, f).ans = "cascade"
             /\ uid' = Append(uid, DropFirstByte(known \cap Position))
             /\ level' = level + 1 /\ pc' = "selall" /\ ret' \in 0..2
    <2>1. PICK c \in H : Reaction(c, f).ans = "cascade"
        BY <1>8
    <2>2. level < Len(pop[c].parts) /\ Len(pop[c].parts) \in 1..3
        BY <1>2, <2>1, Selects, Population DEF SelectTypes, SelectTypeOK
    <2>3. level' \in 1..3 /\ level' - 1 = level
        <3>1. PICK m \in 1..3 : level < m
            BY <2>2
        <3> QED
            BY <1>3, <1>8, <3>1
    <2>4. uid' \in Seq(SUBSET Position) /\ Len(uid') = level' - 1 /\ Len(uid') <= 3
        <3>1. uid' \in Seq(SUBSET Position) /\ Len(uid') = level
            BY <1>4, <1>5, <1>8, Zenon
        <3> QED
            <4>1. level \in 1..3
                BY <1>3, Zenon
            <4>2. level <= 3
                BY <4>1
            <4> QED
                BY <2>3, <3>1, <4>2, Zenon
    <2> QED
        BY <1>2, <1>3, <1>7, <1>8, <2>3, <2>4, TypesKept
<1>9. CASE pc' = "apdu" /\ ret' \in 0..2 /\ UNCHANGED <<uid, level>>
    BY <1>2, <1>3, <1>7, <1>9, TypesKept
<1>10. CASE /\ uid' = Append(uid, known \cap Position) /\ UNCHANGED level
            /\ pc' \in {"rats", "apdu"} /\ ret' \in 0..2
    BY <1>2, <1>3, <1>4, <1>5, <1>7, <1>10, TypesKept
<1> QED
    BY <1>6, <1>8, <1>9, <1>10

LEMMA RatsTypes ==
    ASSUME SelectTypes, Rats
    PROVE  SelectTypes'
<1>1. PICK missed, H :
             /\ Swapped(Bare("RATS"), missed, H)
             /\ IF H = {} THEN Return(0) /\ UNCHANGED blocknum ELSE Return(1) /\ blocknum' = 0
             /\ UNCHANGED <<level, uid, known, bits>>
    BY RatsSteps DEF SelectTypes
<1>2. /\ level \in 1..3 /\ known \subseteq 0..39 /\ bits \in 0..40 /\ blocknum \in {0, 1}
      /\ uid \in Seq(SUBSET Position) /\ Len(uid) <= 3
    BY DEF SelectTypes, SelectTypeOK
<1>3. ret' \in 0..2 /\ pc' = "apdu" /\ blocknum' \in {0, 1}
    BY <1>1, <1>2 DEF Return
<1> QED
    BY <1>1, <1>2, <1>3, BareFrames, TypesKept

LEMMA ApduTypes ==
    ASSUME SelectTypes, Apdu
    PROVE  SelectTypes'
<1>1. PICK missed, H :
             /\ Swapped(Bare("APDU"), missed, H)
             /\ blocknum' = IF H # {} /\ (\E c \in H : Reaction(c, Bare("APDU")).to.num = 1)
                                          = (blocknum = 1)
                            THEN 1 - blocknum ELSE blocknum
             /\ pc' = "raw"
             /\ UNCHANGED <<level, uid, known, bits, ret>>
    BY ApduSteps DEF SelectTypes
<1>2. /\ level \in 1..3 /\ known \subseteq 0..39 /\ bits \in 0..40 /\ blocknum \in {0, 1}
      /\ uid \in Seq(SUBSET Position) /\ Len(uid) <= 3 /\ ret \in 0..2
    BY DEF SelectTypes, SelectTypeOK
<1>3. blocknum' \in {0, 1}
    <2>1. blocknum' = 1 - blocknum \/ blocknum' = blocknum
        BY <1>1, Zenon
    <2> QED
        BY <1>2, <2>1
<1> QED
    BY <1>1, <1>2, <1>3, BareFrames, TypesKept

LEMMA RawTypes ==
    ASSUME SelectTypes, Raw
    PROVE  SelectTypes'
<1>1. PICK missed, H :
             /\ Swapped(Bare("HLTA"), missed, H)
             /\ pc' = "done" /\ UNCHANGED <<level, uid, known, bits, ret, blocknum>>
    BY RawSteps DEF SelectTypes
<1>2. /\ level \in 1..3 /\ known \subseteq 0..39 /\ bits \in 0..40 /\ blocknum \in {0, 1}
      /\ uid \in Seq(SUBSET Position) /\ Len(uid) <= 3 /\ ret \in 0..2
    BY DEF SelectTypes, SelectTypeOK
<1> QED
    BY <1>1, <1>2, BareFrames, TypesKept

\* The steps without a frame.
LEMMA Quiet ==
    ASSUME SelectTypes,
           (\E f \in Requests : Request(f)) \/ SkipApdu \/ SkipRaw \/ UNCHANGED selectVars
    PROVE  SelectTypes' /\ pop' = pop /\ Cards' = Cards /\ card' = card
           /\ blocknum' = blocknum /\ insync' = insync
<1>1. pop' = pop /\ Cards' = Cards /\ card' = card /\ blocknum' = blocknum /\ insync' = insync
    BY DEF Request, SkipApdu, SkipRaw, selectVars, Cards
<1>2. \A c \in Cards : AtLevel(c, card[c])' <=> AtLevel(c, card[c])
    BY <1>1 DEF AtLevel
<1>3. CASE \E f \in Requests : Request(f)
    <2>1. PICK f \in Requests : Request(f)
        BY <1>3
    <2>2. /\ flags' = f /\ fresh' = ~field /\ quiet' = TRUE
          /\ field' \in BOOLEAN /\ level' = 1 /\ known' = {} /\ bits' = 0 /\ uid' = <<>> /\ ret' = 0
          /\ pc' \in {"wupa", "apdu"}
        BY <2>1 DEF Request, SelectTypes, SelectTypeOK
    <2>3. <<>> \in Seq(SUBSET Position) /\ Len(<<>>) = 0 /\ {} \subseteq 0..39 /\ 0 \in 0..40
          /\ 1 \in 1..3 /\ 0 \in 0..2 /\ 0 <= 3
        OBVIOUS
    <2> QED
        BY <1>1, <1>2, <2>2, <2>3 DEF SelectTypes, SelectTypeOK
<1>4. CASE SkipApdu \/ SkipRaw
    BY <1>1, <1>2, <1>4 DEF SkipApdu, SkipRaw, SelectTypes, SelectTypeOK
<1>5. CASE UNCHANGED selectVars
    BY <1>1, <1>2, <1>5 DEF selectVars, SelectTypes, SelectTypeOK
<1> QED
    BY <1>1, <1>3, <1>4, <1>5

LEMMA DisconnectTypes ==
    ASSUME SelectTypes, Disconnect
    PROVE  /\ SelectTypes' /\ pop' = pop /\ Cards' = Cards /\ pc' = "idle"
           /\ \/ UNCHANGED <<field, card, insync, blocknum>>
              \/ field' = FALSE /\ insync' = FALSE /\ \A c \in Cards : card'[c] = Idle(c)
<1>1. pop' = pop /\ Cards' = Cards /\ pc' = "idle"
    BY DEF Disconnect, Cards
<1>2. \/ UNCHANGED <<field, card, insync, blocknum>>
      \/ /\ field' = FALSE /\ insync' = FALSE /\ \A c \in Cards : card'[c] = Idle(c)
         /\ card' = [c \in Cards |-> Idle(c)]
    BY DEF Disconnect
<1>3. \A c \in Cards : Idle(c) \in States /\ AtLevel(c, Idle(c))
    <2>1. \A c \in Cards : Len(pop[c].parts) \in 1..3
        BY Population DEF SelectTypes, SelectTypeOK
    <2> QED
        BY <2>1, SMTT(20) DEF Idle, States, AtLevel
<1>4. card' \in [Cards -> States] /\ \A c \in Cards : AtLevel(c, card[c])'
    BY <1>1, <1>2, <1>3 DEF SelectTypes, SelectTypeOK, States, AtLevel
<1>5. /\ level' = 1 /\ known' = {} /\ bits' = 0 /\ uid' = <<>> /\ ret' = 0
      /\ flags' = {} /\ fresh' = FALSE /\ quiet' = TRUE /\ blocknum' = blocknum
      /\ field' \in BOOLEAN /\ insync' \in BOOLEAN
    BY DEF Disconnect, SelectTypes, SelectTypeOK
<1>6. <<>> \in Seq(SUBSET Position) /\ Len(<<>>) = 0 /\ {} \subseteq 0..39 /\ 0 \in 0..40
          /\ 1 \in 1..3 /\ 0 \in 0..2 /\ 0 <= 3
    OBVIOUS
<1> QED
    BY <1>1, <1>2, <1>4, <1>5, <1>6 DEF SelectTypes, SelectTypeOK, States
----------------------------------------------------------------------------
\* The block number.  A card is in the block protocol from RATS on; no other
\* frame makes it leave, and only an APDU changes its number.
LEMMA InProtocol ==
    ASSUME SelectTypes, NEW c \in Cards, pop[c].kind = "card", NEW f
    PROVE  LET r == Reaction(c, f)
           IN  /\ f.op \notin {"RATS", "APDU"} =>
                    /\ r.to.st = "protocol" <=> card[c].st = "protocol"
                    /\ card[c].st = "protocol" => r.to.num = card[c].num
               /\ f.op = "RATS" /\ card[c].st = "active" /\ pop[c].iso4 =>
                    r.ans = "ats" /\ r.to.st = "protocol" /\ r.to.num = 1
               /\ f.op = "APDU" =>
                    /\ r.to.st = "protocol" <=> card[c].st = "protocol"
                    /\ r.ans # "none" <=> card[c].st = "protocol"
                    /\ card[c].st = "protocol" => r.to.num = 1 - card[c].num
<1>1. Reaction(c, f) = IsoCard(c, f)
    BY DEF Reaction
<1>2. Stay(c).to = card[c] /\ Stay(c).ans = "none" /\ card[c] \in States
    BY StayIs DEF SelectTypes
<1>3. \A st, l, num, ans : /\ At(c, st, l, num, ans).ans = ans
                           /\ At(c, st, l, num, ans).to.st = st
                           /\ At(c, st, l, num, ans).to.num = num
    BY DEF At
<1>4. CASE card[c].st = "ready"
    <2>1. f.op # "APDU" => Selected(c).to.st # "protocol"
        BY <1>3 DEF Selected
    <2>2. /\ ReadyCard(c, f).to.st # "protocol"
          /\ f.op = "APDU" => ReadyCard(c, f).ans = "none"
        BY <1>2, <1>3, <1>4, <2>1 DEF ReadyCard
    <2> QED
        BY <1>1, <1>4, <2>2 DEF IsoCard
<1>5. CASE card[c].st \in {"idle", "halt"}
    BY <1>1, <1>2, <1>3, <1>5 DEF IsoCard
<1>6. CASE card[c].st = "active"
    BY <1>1, <1>3, <1>6 DEF IsoCard
<1>7. CASE card[c].st = "protocol"
    BY <1>1, <1>2, <1>3, <1>7 DEF IsoCard
<1> QED
    BY <1>2, <1>4, <1>5, <1>6, <1>7 DEF States

\* With a card in the field there are cards only.
LEMMA CardsOnly ==
    ASSUME SelectTypes, NEW c \in Cards, pop[c].kind = "card"
    PROVE  \A d \in Cards : pop[d].kind = "card"
BY Population DEF SelectTypes, SelectTypeOK

LEMMA NumberKept ==
    ASSUME SelectTypes, NumberInStep, NEW f, f.op \notin {"RATS", "APDU"},
           NEW missed, NEW H, Swapped(f, missed, H), blocknum' = blocknum
    PROVE  NumberInStep'
<1>1. Cards' = Cards /\ pop' = pop /\ (insync' => insync)
      /\ \A d \in Cards : card'[d] = IF d \in missed THEN card[d] ELSE Reaction(d, f).to
    BY DEF Swapped, Cards
<1> SUFFICES ASSUME insync', NEW c \in Cards,
                    { d \in Cards : card'[d].st = "protocol" } = {c}, pop[c].kind = "card"
             PROVE  blocknum = 1 - card'[c].num
    BY <1>1 DEF NumberInStep
<1>2. \A d \in Cards : /\ card'[d].st = "protocol" <=> card[d].st = "protocol"
                       /\ card[d].st = "protocol" => card'[d].num = card[d].num
    BY <1>1, CardsOnly, InProtocol
<1>3. { d \in Cards : card[d].st = "protocol" } = {c}
    BY <1>2
<1>4. blocknum = 1 - card[c].num
    BY <1>1, <1>3 DEF NumberInStep
<1> QED
    BY <1>2, <1>3, <1>4

LEMMA RatsNumber ==
    ASSUME SelectTypes, Activating, Rats
    PROVE  NumberInStep'
<1>1. PICK missed, H :
             /\ Swapped(Bare("RATS"), missed, H)
             /\ IF H = {} THEN Return(0) /\ UNCHANGED blocknum ELSE Return(1) /\ blocknum' = 0
             /\ UNCHANGED <<level, uid, known, bits>>
    BY RatsSteps DEF SelectTypes
<1>2. /\ Cards' = Cards /\ pop' = pop
      /\ insync' => missed = {} /\ H = Answered(Bare("RATS"), {})
      /\ \A d \in Cards : card'[d] = IF d \in missed THEN card[d] ELSE Reaction(d, Bare("RATS")).to
    BY <1>1 DEF Swapped, Cards
<1> SUFFICES ASSUME insync', NEW c \in Cards,
                    { d \in Cards : card'[d].st = "protocol" } = {c}, pop[c].kind = "card"
             PROVE  blocknum' = 1 - card'[c].num
    BY <1>2 DEF NumberInStep
<1>3. PICK e \in Cards : pop[e].iso4 /\ (pop[e].kind = "card" => card[e].st = "active")
    BY DEF Activating, Rats
<1>4. pop[e].kind = "card"
    BY CardsOnly
<1>5. LET r == Reaction(e, Bare("RATS"))
      IN  r.ans = "ats" /\ r.to.st = "protocol" /\ r.to.num = 1
    BY <1>3, <1>4, InProtocol, BareFrames
<1>6. e \in H
    BY <1>2, <1>5 DEF Answered
<1>7. card'[e].st = "protocol" /\ card'[e].num = 1
    BY <1>2, <1>5
<1>8. e = c
    BY <1>7
<1>9. blocknum' = 0
    BY <1>1, <1>6
<1> QED
    BY <1>7, <1>8, <1>9

LEMMA ApduNumber ==
    ASSUME SelectTypes, NumberInStep, Apdu
    PROVE  NumberInStep'
<1> DEFINE f == Bare("APDU")
<1>1. PICK missed, H :
             /\ Swapped(f, missed, H)
             /\ blocknum' = IF H # {} /\ (\E c \in H : Reaction(c, f).to.num = 1)
                                          = (blocknum = 1)
                            THEN 1 - blocknum ELSE blocknum
             /\ pc' = "raw"
             /\ UNCHANGED <<level, uid, known, bits, ret>>
    BY ApduSteps DEF SelectTypes
<1>2. f.op = "APDU"
    BY BareFrames
<1> HIDE DEF f
<1>3. /\ Cards' = Cards /\ pop' = pop
      /\ insync' => insync /\ missed = {} /\ H = Answered(f, {})
      /\ \A d \in Cards : card'[d] = IF d \in missed THEN card[d] ELSE Reaction(d, f).to
    BY <1>1, <1>2 DEF Swapped, Cards
<1> SUFFICES ASSUME insync', NEW c \in Cards,
                    { d \in Cards : card'[d].st = "protocol" } = {c}, pop[c].kind = "card"
             PROVE  blocknum' = 1 - card'[c].num
    BY <1>3 DEF NumberInStep
<1>4. \A d \in Cards :
        /\ card'[d].st = "protocol" <=> card[d].st = "protocol"
        /\ Reaction(d, f).ans # "none" <=> card[d].st = "protocol"
        /\ card[d].st = "protocol" => card'[d].num = 1 - card[d].num
                                      /\ Reaction(d, f).to.num = 1 - card[d].num
    BY <1>2, <1>3, CardsOnly, InProtocol
<1>5. { d \in Cards : card[d].st = "protocol" } = {c}
    BY <1>4
<1>6. blocknum = 1 - card[c].num
    BY <1>3, <1>5 DEF NumberInStep
<1>7. H = {c}
    BY <1>3, <1>4, <1>5 DEF Answered
<1>8. card[c].num \in {0, 1} /\ blocknum \in {0, 1}
    BY StayIs DEF SelectTypes, SelectTypeOK, States
<1>9. (\E d \in H : Reaction(d, f).to.num = 1) <=> blocknum = 1
    BY <1>4, <1>5, <1>6, <1>7
<1>10. blocknum' = 1 - blocknum
    BY <1>1, <1>7, <1>9
<1> QED
    BY <1>4, <1>5, <1>6, <1>8, <1>10
----------------------------------------------------------------------------
\* The cards left behind.  A step that leaves a card where it is, or sends it
\* back to idle, and keeps the parts of uid stored so far, leaves it passing.
LEMMA PassingKept ==
    ASSUME SelectTypes, NEW c \in Cards, Passing(c), pop' = pop, level' \in Nat, level <= level',
           \A l \in 1..(level - 1) : uid'[l] = uid[l],
           \/ card'[c].st = card[c].st /\ card'[c].level = card[c].level
           \/ card'[c].st = "idle"
    PROVE  Passing(c)'
<1>1. level \in 1..3 /\ card[c].level \in 1..3
    BY StayIs DEF SelectTypes, SelectTypeOK, States
<1>2. CASE card'[c].st = "idle"
    BY <1>2 DEF Passing
<1>3. CASE card'[c].st = card[c].st /\ card'[c].level = card[c].level /\ card[c].st = "ready"
    <2>1. card[c].level <= level' /\ \A l \in 1..(card[c].level - 1) : l \in 1..(level - 1)
        BY <1>1, <1>3 DEF Passing
    <2>2. Path(c, card[c].level)'
        BY <1>3, <2>1 DEF Passing, Path
    <2> QED
        BY <1>3, <2>1, <2>2 DEF Passing
<1> QED
    BY <1>2, <1>3 DEF Passing

LEMMA PartsLeast ==
    ASSUME SelectTypes, NEW c \in Cards
    PROVE  Len(pop[c].parts) \in 1..3 /\ 1 <= Len(pop[c].parts)
<1>1. Len(pop[c].parts) \in 1..3
    BY Population DEF SelectTypes, SelectTypeOK
<1>2. \A m \in 1..3 : 1 <= m
    OBVIOUS
<1> QED
    BY <1>1, <1>2, Zenon

\* With everything at rest the first part is asked of everyone.
LEMMA WupaSelecting ==
    ASSUME SelectTypes, Selecting, Wupa
    PROVE  Selecting'
<1>1. PICK missed, H :
             /\ Swapped(Bare("WUPA"), missed, H)
             /\ IF H = {} THEN Return(0) ELSE pc' = "selall" /\ ret' = ret
             /\ level' = 1 /\ uid' = <<>>
             /\ UNCHANGED <<known, bits, blocknum>>
    BY WupaSteps DEF SelectTypes
<1>2. pc' \in {"selall", "apdu"}
    BY <1>1 DEF Return
<1> SUFFICES ASSUME fresh', pc' = "selall"
             PROVE  \A c \in Cards : Passing(c)' /\ Emulating(c)'
    BY <1>1, <1>2 DEF Selecting, Swapped, Cards
<1> TAKE c \in Cards
<1>3. card[c].st = "idle" /\ pop' = pop
    BY <1>1 DEF Swapped, Selecting, Wupa
<1>4. Len(pop[c].parts) \in 1..3 /\ pop[c].kind \in CardKinds
    BY Population DEF SelectTypes, SelectTypeOK
<1>5. Reaction(c, Bare("WUPA")) = At(c, "ready", 1, 0, "atqa")
    BY <1>3, <1>4, BareFrames DEF Reaction, IsoCard, SimTag, Mf1k, CardKinds
<1>6. card'[c].st = "idle" \/ (card'[c].st = "ready" /\ card'[c].level = 1)
    BY <1>1, <1>3, <1>5 DEF Swapped, At
<1>7. Path(c, 1)'
    BY DEF Path
<1>8. 1 <= Len(pop[c].parts) /\ level' = 1
    BY <1>1, PartsLeast
<1> QED
    BY <1>3, <1>6, <1>7, <1>8 DEF Passing, Emulating

LEMMA Rest ==
    ASSUME SelectTypes, Rested, ~field, NEW f, Request(f)
    PROVE  Selecting'
<1>1. Cards' = Cards /\ pop' = pop /\ card' = card /\ level' = 1 /\ uid' = <<>>
      /\ pc' \in {"wupa", "apdu"}
    BY DEF Request, Cards
<1> SUFFICES ASSUME pc' = "wupa", NEW c \in Cards
             PROVE  card'[c].st = "idle" /\ Emulating(c)'
    BY <1>1 DEF Selecting, Passing
<1>2. card'[c].st = "idle"
    BY <1>1 DEF Rested, Idle
<1>3. 1 <= Len(pop[c].parts)
    BY PartsLeast
<1>4. Path(c, 1)'
    BY DEF Path
<1> QED
    BY <1>1, <1>2, <1>3, <1>4 DEF Emulating

\* An anticollision frame moves nobody on.
LEMMA Keeping ==
    ASSUME SelectTypes, NEW c \in Cards, NEW f, f.op \in {"SELALL", "PARTIAL"},
           card[c].st \in {"idle", "ready"}, pop[c].kind # "simtag"
    PROVE  LET s == Reaction(c, f).to
           IN  (s.st = card[c].st /\ s.level = card[c].level) \/ s.st = "idle"
<1>1. pop[c].kind \in CardKinds
    BY Population DEF SelectTypes, SelectTypeOK
<1>2. Stay(c).to = card[c]
    BY StayIs DEF SelectTypes
<1>3. \A st, l, num, ans : /\ At(c, st, l, num, ans).to.st = st
                           /\ At(c, st, l, num, ans).to.level = l
    BY DEF At
<1>4. CASE pop[c].kind = "card"
    <2>1. Reaction(c, f) = IF card[c].st = "ready" THEN ReadyCard(c, f) ELSE Stay(c)
        BY <1>4 DEF Reaction, IsoCard
    <2>2. card[c].st = "ready" =>
            \/ ReadyCard(c, f) = At(c, "ready", card[c].level, 0, "uid")
            \/ ReadyCard(c, f) = Stay(c)
            \/ ReadyCard(c, f) = At(c, "idle", 1, 0, "none")
        BY DEF ReadyCard
    <2> QED
        BY <1>2, <1>3, <2>1, <2>2
<1>5. CASE pop[c].kind = "mf1k"
    <2>1. \/ Reaction(c, f) = Stay(c)
          \/ /\ Reaction(c, f) = At(c, "ready", f.level, 0, "uid")
             /\ card[c].st = "ready" /\ f.level = card[c].level
        BY <1>5 DEF Reaction, Mf1k
    <2> QED
        BY <1>2, <1>3, <2>1
<1> QED
    BY <1>1, <1>4, <1>5 DEF CardKinds

LEMMA Emulates ==
    ASSUME SelectTypes, NEW c \in Cards, NEW f, f.op \in {"SELALL", "PARTIAL"},
           pop[c].kind = "simtag"
    PROVE  LET r == Reaction(c, f)
           IN  \/ r.to = card[c] /\ r.ans = "none"
               \/ f.op = "SELALL" /\ r.to.st = "ready" /\ r.to.level = f.level
<1>1. Stay(c).to = card[c] /\ Stay(c).ans = "none"
    BY StayIs DEF SelectTypes
<1>2. \A st, l, num, ans : /\ At(c, st, l, num, ans).to.st = st
                           /\ At(c, st, l, num, ans).to.level = l
    BY DEF At
<1>3. \/ Reaction(c, f) = Stay(c)
      \/ f.op = "SELALL" /\ Reaction(c, f) = At(c, "ready", f.level, 0, "uid")
    BY DEF Reaction, SimTag
<1> QED
    BY <1>1, <1>2, <1>3

LEMMA AnticollisionSelecting ==
    ASSUME SelectTypes, Selecting, NEW op \in {"SELALL", "PARTIAL"},
           op = "SELALL" <=> pc = "selall", pc \in {"selall", "partial"}, Anticollision(op)
    PROVE  Selecting'
<1> DEFINE f == Frame(op, level, Prefix(known, bits), bits)
<1>1. PICK missed, H :
             LET fulls == { Full(pop[c].parts[level]) : c \in H }
                 p     == CollisionPos(fulls, bits)
             IN  /\ Swapped(f, missed, H)
                 /\ IF H = {} THEN Return(0) /\ UNCHANGED <<known, bits>>
                    ELSE IF p # 0 THEN Colliding(fulls, p) ELSE Complete(fulls)
                 /\ UNCHANGED <<level, uid, blocknum>>
    BY AnticollisionSteps DEF SelectTypes
<1> DEFINE fulls == { Full(pop[c].parts[level]) : c \in H }
<1>2. pc' \in {"partial", "select", "apdu"}
    BY <1>1 DEF Return, Colliding, Complete
<1>3. f.op = op /\ f.level = level
    BY DEF Frame
<1> HIDE DEF f
<1>4. Swapped(f, missed, H) /\ level' = level /\ uid' = uid /\ pop' = pop /\ Cards' = Cards
      /\ fresh' = fresh
    BY <1>1 DEF Swapped, Cards
<1>5. level \in 1..3 /\ level' \in Nat /\ level <= level'
    BY <1>4 DEF SelectTypes, SelectTypeOK
<1> SUFFICES ASSUME fresh', pc' \in {"partial", "select"}, NEW c \in Cards
             PROVE  Passing(c)' /\ (pop[c].kind = "simtag" => Emulating(c)')
    BY <1>2, <1>4 DEF Selecting
<1>6. Passing(c) /\ (pop[c].kind = "simtag" => Emulating(c))
    BY <1>4 DEF Selecting
<1>7. card'[c] = card[c] \/ card'[c] = Reaction(c, f).to
    BY <1>4 DEF Swapped
<1>8. card[c].st \in {"idle", "ready"}
    BY <1>6 DEF Passing
<1>9. CASE pop[c].kind # "simtag"
    <2>1. \/ card'[c].st = card[c].st /\ card'[c].level = card[c].level
          \/ card'[c].st = "idle"
        BY <1>3, <1>7, <1>8, <1>9, Keeping
    <2>2. \A l \in 1..(level - 1) : uid'[l] = uid[l]
        BY <1>4
    <2> QED
        BY <1>4, <1>5, <1>6, <1>9, <2>1, <2>2, PassingKept
<1>10. CASE pop[c].kind = "simtag"
    <2>1. level <= Len(pop[c].parts) /\ Path(c, level) /\ pc # "partial"
        BY <1>6, <1>10 DEF Emulating
    <2>2. Path(c, level)'
        BY <1>4, <2>1 DEF Path
    <2>3. Passing(c)'
        <3>1. CASE card'[c] = card[c]
            <4>1. \A l \in 1..(level - 1) : uid'[l] = uid[l]
                BY <1>4
            <4> QED
                BY <1>4, <1>5, <1>6, <3>1, <4>1, PassingKept
        <3>2. CASE card'[c].st = "ready" /\ card'[c].level = level
            BY <1>4, <1>5, <2>1, <2>2, <3>2 DEF Passing
        <3> QED
            BY <1>3, <1>7, <1>10, <3>1, <3>2, Emulates
    <2>4. known = {} /\ bits = 0
        BY <2>1 DEF SelectTypes
    <2>5. Cards = {c}
        BY <1>10, Population DEF SelectTypes, SelectTypeOK
    <2>6. H = {c}
        <3>1. H \subseteq Cards /\ H # {}
            BY <1>1, <1>4 DEF Swapped, Answered, Return
        <3> QED
            BY <2>5, <3>1
    <2>7. fulls = {Full(pop[c].parts[level])}
        BY <2>6
    <2> HIDE DEF fulls
    <2>8. CollisionPos(fulls, bits) = 0
        BY <2>4, <2>7, NoCollision
    <2>9. Complete(fulls)
        BY <1>1, <2>6, <2>8 DEF fulls
    <2>10. level \in 1..Len(pop[c].parts)
        BY <1>5, <2>1, PartsLeast
    <2>11. pop[c].parts[level] \in SUBSET Position
        BY <2>10, Population DEF SelectTypes, SelectTypeOK
    <2>12. known' = { b \in Position : b \in Full(pop[c].parts[level]) } /\ pc' = "select"
        BY <2>4, <2>7, <2>9 DEF Complete, Position
    <2>13. known' = pop[c].parts[level]
        BY <2>11, <2>12, FullBits DEF Position
    <2> QED
        BY <1>4, <2>1, <2>2, <2>3, <2>12, <2>13 DEF Emulating
<1> QED
    BY <1>9, <1>10
----------------------------------------------------------------------------
\* A part of the UID without its first byte.
LEMMA DroppedIs ==
    ASSUME NEW p \in SUBSET Position
    PROVE  DropFirstByte(p) = { b \in Position : b + 8 \in p }
<1>1. \A b \in p : b \in 0..31
    BY DEF Position
<1>2. ASSUME NEW b \in DropFirstByte(p)
      PROVE  b \in Position /\ b + 8 \in p
    <2>1. PICK x \in p : x >= 8 /\ b = x - 8
        BY DEF DropFirstByte
    <2>2. x \in 0..31
        BY <1>1
    <2>3. b \in 0..31 /\ b + 8 = x
        BY <2>1, <2>2
    <2> QED
        BY <2>1, <2>3 DEF Position
<1>3. ASSUME NEW b \in Position, b + 8 \in p
      PROVE  b \in DropFirstByte(p)
    <2>1. b + 8 >= 8 /\ b = (b + 8) - 8
        BY DEF Position
    <2> QED
        BY <1>3, <2>1 DEF DropFirstByte
<1> QED
    BY <1>2, <1>3

LEMMA DropInjective ==
    ASSUME NEW p \in SUBSET Position, NEW q \in SUBSET Position,
           DropFirstByte(p) = DropFirstByte(q), p \cap 0..7 = q \cap 0..7
    PROVE  p = q
<1>1. ASSUME NEW r \in SUBSET Position
      PROVE  \A b : b \in r <=>
                 \/ b \in r \cap 0..7
                 \/ b \in 8..31 /\ b - 8 \in DropFirstByte(r)
    <2>1. \A b \in r : b \in 0..7 \/ b \in 8..31
        BY DEF Position
    <2>2. \A b \in 8..31 : b \in r => b - 8 \in DropFirstByte(r)
        BY DEF DropFirstByte
    <2>3. ASSUME NEW b \in 8..31, b - 8 \in DropFirstByte(r)
          PROVE  b \in r
        <3>1. (b - 8) + 8 \in r
            BY <2>3, DroppedIs
        <3>2. (b - 8) + 8 = b
            OBVIOUS
        <3> QED
            BY <3>1, <3>2
    <2> QED
        BY <2>1, <2>2, <2>3
<1> QED
    BY <1>1

\* The parts stored and the last part heard are one card's UID.
LEMMA SamePath ==
    ASSUME SelectTypes, NEW c \in Cards, NEW d \in Cards,
           level = Len(pop[c].parts), level = Len(pop[d].parts),
           Path(c, level), Path(d, level), pop[c].parts[level] = pop[d].parts[level]
    PROVE  c = d
<1>0. pop \in Populations
    BY DEF SelectTypes, SelectTypeOK
<1>1. \A e \in {c, d} :
        /\ pop[e].parts \in Seq(SUBSET Position) /\ Len(pop[e].parts) = level
        /\ \A l \in 1..level : /\ pop[e].parts[l] \in SUBSET Position
                               /\ l < level <=> pop[e].parts[l] \cap 0..7 = {3, 7}
    <2> TAKE e \in {c, d}
    <2>1. e \in Cards /\ Len(pop[e].parts) = level
        OBVIOUS
    <2> QED
        BY <1>0, <2>1, Population, SMTT(20)
<1>2. level \in 1..3
    BY DEF SelectTypes, SelectTypeOK
<1>3. ASSUME NEW l \in 1..level
      PROVE  pop[c].parts[l] = pop[d].parts[l]
    <2>1. CASE l = level
        BY <2>1
    <2>2. CASE l < level
        <3>1. l \in 1..(level - 1)
            BY <1>2, <2>2
        <3>2. DropFirstByte(pop[c].parts[l]) = DropFirstByte(pop[d].parts[l])
            BY <3>1 DEF Path
        <3>3. pop[c].parts[l] \cap 0..7 = pop[d].parts[l] \cap 0..7
            BY <1>1, <2>2
        <3> QED
            BY <1>1, <3>2, <3>3, DropInjective, SMTT(20)
    <2> QED
        BY <1>2, <2>1, <2>2
<1>4. pop[c].parts = pop[d].parts
    BY <1>1, <1>3, SMTT(20)
<1> QED
    BY <1>0, <1>4, Population

LEMMA UidIs ==
    ASSUME SelectTypes, NEW c \in Cards, Len(uid) = level - 1, Path(c, level),
           level = Len(pop[c].parts)
    PROVE  Append(uid, pop[c].parts[level]) = UidOf(c)
<1> DEFINE part == pop[c].parts
<1>0. pop \in Populations /\ uid \in Seq(SUBSET Position) /\ level \in 1..3
    BY DEF SelectTypes, SelectTypeOK
<1>1. part \in Seq(SUBSET Position) /\ Len(part) = level
      /\ \A l \in 1..level : part[l] \in SUBSET Position
    BY <1>0, Population
<1> DEFINE new == Append(uid, part[level])
<1>2. new = [l \in 1..level |-> IF l < level THEN uid[l] ELSE part[level]]
    <2>1. \A s \in Seq(SUBSET Position), x \in SUBSET Position, n \in 1..3 :
            Len(s) = n - 1 => Append(s, x) = [l \in 1..n |-> IF l < n THEN s[l] ELSE x]
        <3> SUFFICES ASSUME NEW s \in Seq(SUBSET Position), NEW x \in SUBSET Position,
                            NEW n \in 1..3, Len(s) = n - 1
                     PROVE  Append(s, x) = [l \in 1..n |-> IF l < n THEN s[l] ELSE x]
            OBVIOUS
        <3>1. Append(s, x) \in Seq(SUBSET Position) /\ Len(Append(s, x)) = n
            OBVIOUS
        <3>4. Append(s, x) \in [1..n -> SUBSET Position]
            BY <3>1, LenProperties
        <3>2. Append(s, x) = [l \in 1..n |-> Append(s, x)[l]]
            BY <3>4
        <3>3. \A l \in 1..n : Append(s, x)[l] = IF l < n THEN s[l] ELSE x
            <4>1. \A l \in 1..n : IF l < n THEN l \in 1..Len(s) ELSE l = Len(s) + 1
                OBVIOUS
            <4> QED
                BY <4>1
        <3> QED
            BY <3>2, <3>3
    <2>2. part[level] \in SUBSET Position
        BY <1>0, <1>1
    <2> QED
        BY <1>0, <2>1, <2>2
<1>3. \A l \in 1..level : l < level =>
         uid[l] = { b \in Position : b + 8 \in part[l] }
    <2> SUFFICES ASSUME NEW l \in 1..level, l < level
                 PROVE  uid[l] = { b \in Position : b + 8 \in part[l] }
        OBVIOUS
    <2>1. l \in 1..(level - 1)
        BY <1>0
    <2>2. uid[l] = DropFirstByte(part[l])
        BY <2>1 DEF Path
    <2> QED
        BY <1>1, <2>2, DroppedIs
<1>4. UidOf(c) = [l \in 1..level |-> IF l < level THEN { b \in Position : b + 8 \in part[l] }
                                                  ELSE part[l]]
    BY <1>1 DEF UidOf
<1> HIDE DEF part, new
<1>5. \A l \in 1..level : ~ (l < level) => l = level
    BY <1>0
<1>6. \A l \in 1..level : (IF l < level THEN uid[l] ELSE part[level])
                          = IF l < level THEN { b \in Position : b + 8 \in part[l] } ELSE part[l]
    BY <1>3, <1>5
<1>7. new = UidOf(c)
    BY <1>2, <1>4, <1>6
<1> QED
    BY <1>7 DEF new, part

\* What is known of a card that answers a SELECT: the part sent is its own, and
\* the parts before are those stored.
LEMMA OwnPart ==
    ASSUME SelectTypes, Selecting, fresh, pc = "select", NEW c \in Cards,
           Reaction(c, Frame("SELECT", level, known \cap Position, 0)).ans # "none"
    PROVE  /\ level \in 1..Len(pop[c].parts)
           /\ Path(c, level) /\ pop[c].parts[level] = known \cap Position
<1> DEFINE f == Frame("SELECT", level, known \cap Position, 0)
<1>1. f.op = "SELECT" /\ f.level = level /\ f.known = known \cap Position
    BY DEF Frame
<1> HIDE DEF f
<1>2. level \in 1..3 /\ Len(pop[c].parts) \in 1..3
    BY PartsLeast DEF SelectTypes, SelectTypeOK
<1>3. /\ level < Len(pop[c].parts) \/ level = Len(pop[c].parts)
      /\ pop[c].kind # "simtag" =>
           card[c].st = "ready" /\ card[c].level = level /\ pop[c].parts[level] = f.known
    BY <1>1, Selects DEF f
<1>4. level \in 1..Len(pop[c].parts)
    BY <1>2, <1>3
<1>5. Passing(c) /\ (pop[c].kind = "simtag" => Emulating(c))
    BY DEF Selecting
<1>6. pop[c].parts[level] \in SUBSET Position
    BY <1>4, Population DEF SelectTypes, SelectTypeOK
<1>7. CASE pop[c].kind = "simtag"
    <2>1. Path(c, level) /\ known = pop[c].parts[level]
        BY <1>5, <1>7 DEF Emulating
    <2> QED
        BY <1>4, <1>6, <2>1
<1>8. CASE pop[c].kind # "simtag"
    BY <1>1, <1>3, <1>4, <1>5, <1>8 DEF Passing
<1> QED
    BY <1>7, <1>8

LEMMA SelectSelecting ==
    ASSUME SelectTypes, Selecting, SelectUid
    PROVE  Selecting'
<1> DEFINE f == Frame("SELECT", level, known \cap Position, 0)
<1>1. PICK missed, H :
             LET says(sak) == \E c \in H : Reaction(c, f).ans = sak
             IN  /\ Swapped(f, missed, H)
                 /\ CASE H = {} -> Return(0) /\ UNCHANGED <<uid, level>>
                      [] H # {} /\ says("cascade") ->
                           /\ uid' = Append(uid, DropFirstByte(known \cap Position))
                           /\ level' = level + 1 /\ pc' = "selall" /\ ret' = ret
                      [] OTHER ->
                           /\ uid' = Append(uid, known \cap Position) /\ UNCHANGED level
                           /\ IF \E c \in H : pop[c].iso4
                              THEN pc' = "rats" /\ ret' = ret ELSE Return(2)
                 /\ known' = {} /\ bits' = 0 /\ UNCHANGED blocknum
    BY SelectSteps DEF SelectTypes
<1>2. f.op = "SELECT" /\ f.level = level
    BY DEF Frame
<1>3. Swapped(f, missed, H) /\ pop' = pop /\ Cards' = Cards /\ fresh' = fresh
    BY <1>1 DEF Swapped, Cards
<1>4. \/ pc' \in {"rats", "apdu"}
      \/ /\ \E c \in H : Reaction(c, f).ans = "cascade"
         /\ uid' = Append(uid, DropFirstByte(known \cap Position))
         /\ level' = level + 1 /\ pc' = "selall"
    <2> HIDE DEF f
    <2>1. CASE H = {}
        BY <1>1, <2>1 DEF Return
    <2>2. CASE H # {} /\ \E c \in H : Reaction(c, f).ans = "cascade"
        BY <1>1, <2>2
    <2>3. CASE H # {} /\ ~ \E c \in H : Reaction(c, f).ans = "cascade"
        BY <1>1, <2>3 DEF Return
    <2> QED
        BY <2>1, <2>2, <2>3
<1> SUFFICES ASSUME fresh', pc' = "selall"
             PROVE  \A d \in Cards : Passing(d)' /\ (pop[d].kind = "simtag" => Emulating(d)')
    BY <1>3, <1>4 DEF Selecting
<1>5. fresh /\ pc = "select"
    BY <1>3 DEF SelectUid
<1>6. PICK c \in H : Reaction(c, f).ans = "cascade"
    BY <1>4
<1>7. c \in Cards
    BY <1>3 DEF Swapped, Answered
<1>8. level \in 1..3 /\ Len(uid) = level - 1 /\ uid \in Seq(SUBSET Position)
      /\ known \cap Position \in SUBSET Position /\ pop \in Populations
    BY <1>5 DEF SelectTypes, SelectTypeOK
<1>9. level' \in Nat /\ level <= level' /\ level' = level + 1 /\ level' - 1 = level
    BY <1>4, <1>8
<1>10. /\ \A l \in 1..(level - 1) : uid'[l] = uid[l]
       /\ uid'[level] = DropFirstByte(known \cap Position)
    <2>1. \A s \in Seq(SUBSET Position), x \in SUBSET Position, n \in 1..3 :
            Len(s) = n - 1 => /\ \A l \in 1..(n - 1) : Append(s, x)[l] = s[l]
                              /\ Append(s, x)[n] = x
        OBVIOUS
    <2>2. DropFirstByte(known \cap Position) \in SUBSET Position
        BY <1>8, DroppedType
    <2> QED
        BY <1>4, <1>8, <2>1, <2>2
<1>11. \A d \in Cards : /\ card[d].st \in {"idle", "ready"}
                        /\ Passing(d) /\ (pop[d].kind = "simtag" => Emulating(d))
    BY <1>5 DEF Selecting, Passing
<1>12. \A d \in Cards : card'[d] = card[d] \/ card'[d] = Reaction(d, f).to
    BY <1>3 DEF Swapped
<1>13. /\ level < Len(pop[c].parts) /\ level \in 1..Len(pop[c].parts)
       /\ pop[c].parts[level] = known \cap Position
    BY <1>2, <1>5, <1>6, <1>7, Selects, OwnPart
<1>14. (known \cap Position) \cap 0..7 = {3, 7}
    BY <1>7, <1>8, <1>13, Population
<1> TAKE d \in Cards
<1>15. Reaction(d, f).ans # "sak"
    <2> SUFFICES ASSUME Reaction(d, f).ans = "sak"
                 PROVE  FALSE
        OBVIOUS
    <2>1. level \in 1..Len(pop[d].parts) /\ pop[d].parts[level] = known \cap Position
        BY <1>5, OwnPart
    <2>2. level = Len(pop[d].parts)
        BY <1>2, Selects
    <2>3. level < Len(pop[d].parts)
        BY <1>8, <1>14, <2>1, Population
    <2> QED
        BY <1>8, <2>2, <2>3
<1>16. Path(d, level) /\ pop[d].parts[level] = known \cap Position => Path(d, level)'
    <2> SUFFICES ASSUME Path(d, level), pop[d].parts[level] = known \cap Position,
                        NEW l \in 1..level
                 PROVE  uid'[l] = DropFirstByte(pop[d].parts[l])
        BY <1>3, <1>9 DEF Path
    <2>1. l = level \/ l \in 1..(level - 1)
        BY <1>8
    <2> QED
        BY <1>10, <2>1 DEF Path
<1> HIDE DEF f
<1>17. \/ /\ Reaction(d, f).ans = "cascade" /\ level < Len(pop[d].parts)
          /\ Reaction(d, f).to.st = "ready" /\ Reaction(d, f).to.level = level + 1
       \/ Reaction(d, f).to = card[d] \/ Reaction(d, f).to.st = "idle"
    BY <1>2, <1>11, <1>15, Selects
<1>18. level < Len(pop[d].parts) => level + 1 <= Len(pop[d].parts)
    BY <1>8, PartsLeast
<1>19. Passing(d)'
    <2>1. CASE card'[d] = card[d] \/ card'[d].st = "idle"
        BY <1>3, <1>9, <1>10, <1>11, <2>1, PassingKept
    <2>2. CASE /\ Reaction(d, f).ans = "cascade" /\ level < Len(pop[d].parts)
               /\ card'[d].st = "ready" /\ card'[d].level = level + 1
        <3>1. Path(d, level)'
            BY <1>5, <1>16, <2>2, OwnPart DEF f
        <3> QED
            BY <1>3, <1>8, <1>9, <1>18, <2>2, <3>1 DEF Passing
    <2> QED
        BY <1>12, <1>17, <2>1, <2>2
<1>20. ASSUME pop[d].kind = "simtag"
       PROVE  Emulating(d)'
    <2>1. d = c
        BY <1>7, <1>8, <1>20, Population
    <2>2. Path(d, level) /\ level + 1 <= Len(pop[d].parts)
        BY <1>11, <1>13, <1>18, <1>20, <2>1 DEF Emulating
    <2>3. Path(d, level)'
        BY <1>13, <1>16, <2>1, <2>2
    <2> QED
        BY <1>3, <1>9, <2>2, <2>3 DEF Emulating
<1> QED
    BY <1>19, <1>20

\* The card whose SAK ends the selection is the only one: another that took
\* the SELECT for its own would have the same UID.
LEMMA SelectedIs ==
    ASSUME SelectTypes, Selecting, fresh, pc = "select",
           NEW missed, NEW H,
           Swapped(Frame("SELECT", level, known \cap Position, 0), missed, H),
           uid' = Append(uid, known \cap Position), NEW c \in H,
           Reaction(c, Frame("SELECT", level, known \cap Position, 0)).ans = "sak"
    PROVE  c \in Cards /\ card'[c].st = "active" /\ Chosen(c)'
<1> DEFINE f == Frame("SELECT", level, known \cap Position, 0)
<1>1. f.op = "SELECT" /\ f.level = level
    BY DEF Frame
<1> HIDE DEF f
<1>2. /\ c \in Cards \ missed /\ pop' = pop /\ Cards' = Cards
      /\ \A d \in Cards : card'[d] = card[d] \/ card'[d] = Reaction(d, f).to
      /\ card'[c] = Reaction(c, f).to
    BY DEF Swapped, Answered, Cards, f
<1>3. level = Len(pop[c].parts) /\ card'[c].st = "active"
    BY <1>1, <1>2, Selects DEF f
<1>4. Path(c, level) /\ pop[c].parts[level] = known \cap Position
    BY <1>2, OwnPart
<1>5. ASSUME NEW d \in Cards, card'[d].st \in {"active", "protocol"}
      PROVE  d = c
    <2>1. card[d].st \in {"idle", "ready"}
        BY DEF Selecting, Passing
    <2>2. card'[d] = Reaction(d, f).to
        BY <1>2, <1>5, <2>1
    <2>3. Reaction(d, f).ans = "sak" /\ level = Len(pop[d].parts)
        BY <1>1, <1>5, <2>1, <2>2, Selects
    <2>4. Path(d, level) /\ pop[d].parts[level] = known \cap Position
        BY <2>3, OwnPart DEF f
    <2> QED
        BY <1>2, <1>3, <1>4, <2>3, <2>4, SamePath
<1>6. { d \in Cards : card'[d].st \in {"active", "protocol"} } = {c}
    BY <1>2, <1>3, <1>5
<1>7. uid' = UidOf(c)
    <2>1. Len(uid) = level - 1
        BY DEF SelectTypes
    <2> QED
        BY <1>2, <1>3, <1>4, <2>1, UidIs
<1>8. UidOf(c)' = UidOf(c)
    BY <1>2 DEF UidOf
<1> QED
    BY <1>2, <1>3, <1>6, <1>7, <1>8 DEF Chosen

\* The end of the selection, at a SAK or without an answer.
LEMMA SelectEnds ==
    ASSUME SelectTypes, Selecting, SelectUid
    PROVE  Activating' /\ OneSelected'
<1> DEFINE f == Frame("SELECT", level, known \cap Position, 0)
<1>1. PICK missed, H :
             LET says(sak) == \E c \in H : Reaction(c, f).ans = sak
             IN  /\ Swapped(f, missed, H)
                 /\ CASE H = {} -> Return(0) /\ UNCHANGED <<uid, level>>
                      [] H # {} /\ says("cascade") ->
                           /\ uid' = Append(uid, DropFirstByte(known \cap Position))
                           /\ level' = level + 1 /\ pc' = "selall" /\ ret' = ret
                      [] OTHER ->
                           /\ uid' = Append(uid, known \cap Position) /\ UNCHANGED level
                           /\ IF \E c \in H : pop[c].iso4
                              THEN pc' = "rats" /\ ret' = ret ELSE Return(2)
                 /\ known' = {} /\ bits' = 0 /\ UNCHANGED blocknum
    BY SelectSteps DEF SelectTypes
<1>2. f.op = "SELECT" /\ f.level = level /\ pc = "select"
    BY DEF Frame, SelectUid
<1>3. /\ Swapped(f, missed, H) /\ pop' = pop /\ Cards' = Cards /\ fresh' = fresh
      /\ \A c \in H : c \in Cards /\ Reaction(c, f).ans # "none" /\ card'[c] = Reaction(c, f).to
    BY <1>1 DEF Swapped, Cards, Answered
<1>4. \/ pc' = "selall"
      \/ pc' = "apdu" /\ ret' = 0
      \/ /\ H # {} /\ \A c \in H : Reaction(c, f).ans # "cascade"
         /\ uid' = Append(uid, known \cap Position)
         /\ IF \E c \in H : pop[c].iso4 THEN pc' = "rats" ELSE pc' = "apdu" /\ ret' = 2
    <2> HIDE DEF f
    <2>1. CASE H = {}
        BY <1>1, <2>1 DEF Return
    <2>2. CASE H # {} /\ \E c \in H : Reaction(c, f).ans = "cascade"
        BY <1>1, <2>2
    <2>3. CASE H # {} /\ ~ \E c \in H : Reaction(c, f).ans = "cascade"
        BY <1>1, <2>3 DEF Return
    <2> QED
        BY <2>1, <2>2, <2>3
<1>5. CASE pc' = "selall" \/ (pc' = "apdu" /\ ret' = 0)
    BY <1>5 DEF Activating, OneSelected, SelectDone
<1>6. CASE /\ H # {} /\ \A c \in H : Reaction(c, f).ans # "cascade"
           /\ uid' = Append(uid, known \cap Position)
           /\ IF \E c \in H : pop[c].iso4 THEN pc' = "rats" ELSE pc' = "apdu" /\ ret' = 2
    <2>1. \A c \in H : Reaction(c, f).ans = "sak" /\ card'[c].st = "active"
        <3> HIDE DEF f
        <3> QED
            BY <1>2, <1>3, <1>6, Selects
    <2>2. \A c \in H : fresh => Chosen(c)'
        <3> TAKE c \in H
        <3>1. Swapped(Frame("SELECT", level, known \cap Position, 0), missed, H)
            BY <1>3
        <3>2. Reaction(c, Frame("SELECT", level, known \cap Position, 0)).ans = "sak"
            BY <2>1
        <3> HIDE DEF f
        <3> QED
            BY <1>2, <1>6, <3>1, <3>2, SelectedIs
    <2>3. PICK c \in H : (\E d \in H : pop[d].iso4) => pop[c].iso4
        BY <1>6
    <2> HIDE DEF f
    <2>4. c \in Cards' /\ card'[c].st = "active" /\ (fresh' => Chosen(c)')
        BY <1>3, <2>1, <2>2
    <2>5. CASE pc' = "rats"
        <3>1. pop'[c].iso4
            BY <1>3, <1>6, <2>3, <2>5
        <3> QED
            BY <2>4, <2>5, <3>1 DEF Activating, OneSelected, SelectDone
    <2>6. CASE pc' = "apdu" /\ ret' = 2
        BY <2>4, <2>6 DEF Activating, OneSelected, Chosen
    <2> QED
        BY <1>6, <2>5, <2>6
<1> QED
    BY <1>4, <1>5, <1>6

\* RATS is answered by an active card and by the emulation.
LEMMA RatsAnswer ==
    ASSUME SelectTypes, NEW c \in Cards, NEW f, f.op = "RATS", pop[c].iso4,
           pop[c].kind = "card" => card[c].st = "active"
    PROVE  /\ Reaction(c, f).to.st = "protocol" /\ Reaction(c, f).ans # "none"
<1>1. pop[c].kind \in CardKinds /\ pop[c].kind # "mf1k"
    BY Population DEF SelectTypes, SelectTypeOK
<1>2. Reaction(c, f) = At(c, "protocol", 1, 1, "ats")
    <2>1. CASE pop[c].kind = "card"
        BY <2>1 DEF Reaction, IsoCard
    <2>2. CASE pop[c].kind = "simtag"
        BY <2>2 DEF Reaction, SimTag
    <2> QED
        BY <1>1, <2>1, <2>2 DEF CardKinds
<1> QED
    BY <1>2 DEF At

\* The card chosen is the only one that answers, which is then in the block protocol.
LEMMA RatsEnds ==
    ASSUME SelectTypes, Activating, Rats
    PROVE  OneSelected'
<1> DEFINE f == Bare("RATS")
<1>1. PICK missed, H :
             /\ Swapped(f, missed, H)
             /\ IF H = {} THEN Return(0) /\ UNCHANGED blocknum ELSE Return(1) /\ blocknum' = 0
             /\ UNCHANGED <<level, uid, known, bits>>
    BY RatsSteps DEF SelectTypes
<1>2. f.op = "RATS" /\ pc = "rats"
    BY BareFrames DEF Rats
<1> HIDE DEF f
<1>3. /\ pop' = pop /\ Cards' = Cards /\ fresh' = fresh
      /\ H \subseteq Cards \ missed
      /\ \A d \in Cards : card'[d] = card[d] \/ card'[d] = Reaction(d, f).to
      /\ \A d \in H : Reaction(d, f).ans # "none" /\ card'[d] = Reaction(d, f).to
    BY <1>1 DEF Swapped, Answered, Cards
<1> SUFFICES ASSUME fresh, ret' # 0
             PROVE  \E c \in Cards :
                      /\ { d \in Cards : card'[d].st \in {"active", "protocol"} } = {c}
                      /\ uid' = UidOf(c)'
                      /\ ret' = IF card'[c].st = "protocol" THEN 1 ELSE 2
    BY <1>3 DEF OneSelected
<1>4. H # {} /\ ret' = 1
    BY <1>1 DEF Return
<1>5. PICK c \in Cards : /\ pop[c].iso4 /\ Chosen(c)
                         /\ pop[c].kind = "card" => card[c].st = "active"
    BY <1>2 DEF Activating
<1>6. \A d \in Cards : d # c => pop[d].kind = "card"
    BY Population DEF SelectTypes, SelectTypeOK
<1>7. Reaction(c, f).to.st = "protocol"
    BY <1>2, <1>5, RatsAnswer
<1>8. ASSUME NEW d \in Cards, d # c
      PROVE  Reaction(d, f).ans = "none" /\ card'[d].st \notin {"active", "protocol"}
    <2>1. card[d].st \notin {"active", "protocol"} /\ card[d].st \in {"idle", "ready", "halt"}
        <3>1. card[d] \in States
            BY StayIs DEF SelectTypes
        <3> QED
            BY <1>5, <1>8, <3>1 DEF Chosen, States
    <2>2. pop[d].kind = "card"
        BY <1>6, <1>8
    <2>3. Reaction(d, f) = Stay(d) \/ Reaction(d, f) = At(d, "idle", 1, 0, "none")
        BY <1>2, <2>1, <2>2 DEF Reaction, IsoCard, ReadyCard
    <2>4. Reaction(d, f).ans = "none" /\ (Reaction(d, f).to = card[d] \/ Reaction(d, f).to.st = "idle")
        BY <2>3, StayIs DEF At, SelectTypes
    <2> QED
        BY <1>3, <2>1, <2>4
<1>9. H = {c}
    BY <1>3, <1>4, <1>8
<1>10. card'[c].st = "protocol"
    BY <1>3, <1>7, <1>9
<1>11. { d \in Cards : card'[d].st \in {"active", "protocol"} } = {c}
    BY <1>8, <1>10
<1>12. uid' = UidOf(c)'
    BY <1>1, <1>3, <1>5 DEF Chosen, UidOf
<1> QED
    BY <1>4, <1>10, <1>11, <1>12
----------------------------------------------------------------------------
\* The first collision of answers that agree in the bits below n, where these
\* are in the first byte and do not differ in bit 0: a parity bit that differs
\* comes after a bit of its byte that does.
LEMMA FirstCollision ==
    ASSUME NEW fulls, \A a \in fulls : \E p \in SUBSET Position : a = Full(p),
           bits \in 0..7, \A a, b \in fulls : Prefix(a, bits) = Prefix(b, bits),
           \A a, b \in fulls : 0 \in a => 0 \in b,
           NEW x \in fulls, NEW y \in fulls, x # y
    PROVE  LET p == CollisionPos(fulls, bits)
           IN  /\ p \in bits..31 /\ p # 0
               /\ \E a, b \in fulls : p \in a /\ p \notin b
               /\ \A a, b \in fulls : Prefix(a, p) = Prefix(b, p)
<1> DEFINE differ(q) == \E a, b \in fulls : q \in a /\ q \notin b
           odd(a, k) == Odd(a \cap (8*k .. 8*k + 7))
           data == { q - 8 * (bits \div 8) : q \in { r \in bits..39 : differ(r) } }
           parity == { 8 * (k - bits \div 8) + 8 :
                         k \in { j \in (bits \div 8)..4 : \E a, b \in fulls : odd(a, j) # odd(b, j) } }
           seen == (data \cup parity) \ {0}
           s == Smallest(seen)
<1>1. CollisionPos(fulls, bits) = IF seen = {} THEN 0 ELSE s
    BY DEF CollisionPos
<1>2. bits \div 8 = 0 /\ 8 * (bits \div 8) = 0
    OBVIOUS
<1>3. \A a \in fulls : a \subseteq 0..39
    BY FullBits
<1>4. \A q : differ(q) => q \in bits..39 /\ q # 0
    <2> SUFFICES ASSUME NEW a \in fulls, NEW b \in fulls, NEW q, q \in a, q \notin b
                 PROVE  q \in bits..39 /\ q # 0
        OBVIOUS
    <2>1. q \in 0..39
        BY <1>3
    <2>2. ~ (q < bits)
        BY DEF Prefix
    <2> QED
        BY <2>1, <2>2
<1>5. \A q : q \in data <=> differ(q)
    <2>1. data = { q - 0 : q \in { r \in bits..39 : differ(r) } }
        BY <1>2
    <2> HIDE DEF differ, data
    <2>2. \A q \in bits..39 : q - 0 = q
        OBVIOUS
    <2> QED
        BY <1>4, <2>1, <2>2
<1>6. \A t \in parity : \E k \in 0..4 :
            t = 8 * k + 8 /\ \E a, b \in fulls : odd(a, k) # odd(b, k)
    <2> HIDE DEF odd
    <2> QED
        BY <1>2
<1>7. \A t \in parity : \E q : differ(q) /\ q < t /\ t \in Nat
    <2> SUFFICES ASSUME NEW t \in parity
                 PROVE  \E q : differ(q) /\ q < t /\ t \in Nat
        OBVIOUS
    <2>1. PICK k \in 0..4 : t = 8 * k + 8 /\ \E a, b \in fulls : odd(a, k) # odd(b, k)
        BY <1>6
    <2>2. PICK a \in fulls, b \in fulls : odd(a, k) # odd(b, k)
        BY <2>1
    <2>3. a \cap (8*k .. 8*k + 7) # b \cap (8*k .. 8*k + 7)
        BY <2>2
    <2>4. PICK q \in 8*k .. 8*k + 7 : differ(q)
        BY <2>3
    <2>5. q < t /\ t \in Nat
        BY <2>1
    <2> QED
        BY <2>4, <2>5
<1>8. \E q : differ(q) /\ q < 32
    <2>1. PICK p \in SUBSET Position, r \in SUBSET Position : x = Full(p) /\ y = Full(r)
        OBVIOUS
    <2>2. p # r
        BY <2>1
    <2>3. PICK q : (q \in p /\ q \notin r) \/ (q \in r /\ q \notin p)
        BY <2>2
    <2>4. q < 32 /\ ((q \in x /\ q \notin y) \/ (q \in y /\ q \notin x))
        <3>1. p = { b \in x : b < 32 } /\ r = { b \in y : b < 32 }
            BY <2>1, FullBits
        <3> QED
            BY <2>3, <3>1
    <2> QED
        BY <2>4
<1> HIDE DEF differ, data, parity
<1>9. seen \in SUBSET Nat /\ \A q : differ(q) => q \in seen
    <2>1. \A q \in bits..39 : q \in Nat
        OBVIOUS
    <2> QED
        BY <1>4, <1>5, <1>7, <2>1
<1>10. seen # {}
    BY <1>8, <1>9
<1> HIDE DEF seen
<1>11. s \in seen /\ (\A q \in seen : s <= q) /\ s \in Nat
    BY <1>9, <1>10, SmallestIs
<1> HIDE DEF s
<1>12. differ(s)
    <2>1. CASE s \in parity
        <3>1. PICK q : differ(q) /\ q < s
            BY <1>7, <2>1
        <3>2. s <= q /\ q \in Nat
            BY <1>9, <1>11, <3>1
        <3> QED
            BY <1>11, <3>1, <3>2
    <2> QED
        BY <1>5, <1>11, <2>1 DEF seen
<1>13. s \in bits..31
    <2>1. PICK q : differ(q) /\ q < 32
        BY <1>8
    <2>2. s <= q /\ q \in Nat /\ s \in bits..39
        BY <1>4, <1>9, <1>11, <1>12, <2>1
    <2> QED
        BY <1>11, <2>1, <2>2
<1>14. ASSUME NEW a \in fulls, NEW b \in fulls
       PROVE  Prefix(a, s) \subseteq Prefix(b, s)
    <2> SUFFICES ASSUME NEW q \in a, q < s, q \notin b
                 PROVE  FALSE
        BY DEF Prefix
    <2>1. differ(q)
        BY DEF differ
    <2>2. s <= q /\ q \in Nat
        BY <1>9, <1>11, <2>1
    <2> QED
        BY <1>11, <2>2
<1>15. \A a, b \in fulls : Prefix(a, s) = Prefix(b, s)
    <2> TAKE a \in fulls, b \in fulls
    <2>1. Prefix(a, s) \subseteq Prefix(b, s) /\ Prefix(b, s) \subseteq Prefix(a, s)
        BY <1>14
    <2> QED
        BY <2>1
<1>16. s # 0 /\ \E a, b \in fulls : s \in a /\ s \notin b
    BY <1>4, <1>12 DEF differ
<1> QED
    BY <1>1, <1>10, <1>13, <1>15, <1>16

\* Such a collision leaves the bits before it and a 1.
LEMMA NextKnown ==
    ASSUME NEW fulls, NEW a \in fulls, a \subseteq 0..39, bits \in 0..7,
           known = Prefix(a, bits), NEW p \in bits..31, p # 0,
           \A b \in fulls : Prefix(a, p) = Prefix(b, p), Colliding(fulls, p)
    PROVE  known' = Prefix(a, p) \cup {p} /\ bits' = p + 1 /\ pc' = "partial" /\ ret' = ret
<1> DEFINE offset == bits % 8
           base   == 8 * (bits \div 8)
           at     == bits + p - offset
           valid  == { i \in offset..(p - 1) : i + base \in UNION fulls }
<1>1. PICK junk \in SUBSET (33..(at - 1)) : known' = known \cup valid \cup {at} \cup junk
    BY DEF Colliding
<1>2. bits' = at + 1 /\ pc' = "partial" /\ ret' = ret
    BY DEF Colliding
<1>3. offset = bits /\ base = 0 /\ at = p
    BY Z3
<1>4. junk = {}
    <2>1. 33..(at - 1) = {}
        <3>1. at - 1 < 33 /\ at - 1 \in Int
            BY <1>3
        <3> QED
            BY <3>1
    <2> QED
        BY <2>1
<1>5. valid = { i \in bits..(p - 1) : i \in UNION fulls }
    <2>1. \A i \in bits..(p - 1) : i + 0 = i
        OBVIOUS
    <2>2. valid = { i \in bits..(p - 1) : i + 0 \in UNION fulls }
        BY <1>3
    <2> QED
        BY <2>1, <2>2
<1>6. Prefix(a, p) = Prefix(a, bits) \cup valid
    <2>1. \A i \in bits..(p - 1) : i \in UNION fulls <=> i \in a
        <3> TAKE i \in bits..(p - 1)
        <3>1. i < p
            OBVIOUS
        <3>2. \A b \in fulls : i \in b <=> i \in a
            BY <3>1 DEF Prefix
        <3> QED
            BY <3>2
    <2>2. \A i \in a : i < p <=> i < bits \/ i \in bits..(p - 1)
        OBVIOUS
    <2>3. \A i \in bits..(p - 1) : i < p
        OBVIOUS
    <2> QED
        BY <1>5, <2>1, <2>2, <2>3 DEF Prefix
<1> QED
    BY <1>1, <1>2, <1>3, <1>4, <1>6
----------------------------------------------------------------------------
\* Who answers when everyone hears.
LEMMA AnswersPart ==
    ASSUME SelectTypes, NEW c \in Cards, NEW f, f.op \in {"SELALL", "PARTIAL"}, f.level = level,
           f.n < 40, f.op = "SELALL" => f.n = 0 /\ f.known = {},
           card[c].st \in {"idle", "ready"},
           card[c].st = "ready" => card[c].level = level,
           pop[c].kind # "card" => f.op = "SELALL" /\ card[c].st = "ready"
    PROVE  LET r == Reaction(c, f)
           IN  /\ r.ans # "none" <=>
                    card[c].st = "ready" /\ Prefix(Full(Here(c)), f.n) = f.known
               /\ r.to.st = card[c].st
               /\ card[c].st = "ready" => r.to.level = card[c].level
<1>1. pop[c].kind \in CardKinds
    BY Population DEF SelectTypes, SelectTypeOK
<1>2. Stay(c).to = card[c] /\ Stay(c).ans = "none"
    BY StayIs DEF SelectTypes
<1>3. \A st, l, num, ans : /\ At(c, st, l, num, ans).ans = ans
                           /\ At(c, st, l, num, ans).to.st = st
                           /\ At(c, st, l, num, ans).to.level = l
    BY DEF At
<1>4. card[c].st = "ready" => level \in 1..Len(pop[c].parts)
    <2>1. level \in 1..3
        BY DEF SelectTypes, SelectTypeOK
    <2> QED
        BY <2>1, PartsLeast DEF SelectTypes, AtLevel
<1>5. f.op = "SELALL" /\ card[c].st = "ready" => Prefix(Full(Here(c)), f.n) = f.known
    <2> SUFFICES ASSUME f.op = "SELALL", card[c].st = "ready"
                 PROVE  Prefix(Full(Here(c)), 0) = {}
        OBVIOUS
    <2>1. Here(c) \in SUBSET Position
        BY <1>4, Population DEF Here, SelectTypes, SelectTypeOK
    <2>2. Full(Here(c)) \subseteq 0..39
        BY <2>1, FullBits
    <2> QED
        BY <2>2 DEF Prefix
<1>6. CASE pop[c].kind = "card" /\ card[c].st = "ready"
    <2>1. Reaction(c, f) = ReadyCard(c, f)
        BY <1>6 DEF Reaction, IsoCard
    <2>2. Matches(c, f) <=> Prefix(Full(Here(c)), f.n) = f.known
        BY <1>6 DEF Matches, Part, Here
    <2>3. ReadyCard(c, f) = IF Matches(c, f) THEN At(c, "ready", level, 0, "uid") ELSE Stay(c)
        BY <1>6 DEF ReadyCard
    <2> QED
        BY <1>2, <1>3, <1>6, <2>1, <2>2, <2>3
<1>7. CASE pop[c].kind = "card" /\ card[c].st = "idle"
    <2>1. Reaction(c, f) = Stay(c)
        BY <1>7 DEF Reaction, IsoCard
    <2> QED
        BY <1>2, <1>7, <2>1
<1>8. CASE pop[c].kind # "card"
    <2>1. Reaction(c, f) = At(c, "ready", level, 0, "uid")
        BY <1>1, <1>4, <1>8 DEF Reaction, SimTag, Mf1k, CardKinds
    <2> QED
        BY <1>3, <1>5, <1>8, <2>1
<1> QED
    BY <1>6, <1>7, <1>8

LEMMA AnswersSelect ==
    ASSUME SelectTypes, NEW c \in Cards, NEW f, f.op = "SELECT", f.level = level,
           card[c].st \in {"idle", "ready"},
           card[c].st = "ready" => card[c].level = level,
           pop[c].kind # "card" => card[c].st = "ready" /\ Here(c) = f.known
    PROVE  LET r == Reaction(c, f)
           IN  IF card[c].st = "ready" /\ Here(c) = f.known
               THEN \/ /\ r.ans = "cascade" /\ level < Len(pop[c].parts)
                       /\ r.to.st = "ready" /\ r.to.level = level + 1
                    \/ r.ans = "sak"
               ELSE r.ans = "none" /\ r.to.st = "idle"
<1>1. pop[c].kind \in CardKinds
    BY Population DEF SelectTypes, SelectTypeOK
<1>2. Stay(c).to = card[c] /\ Stay(c).ans = "none"
    BY StayIs DEF SelectTypes
<1>3. \A st, l, num, ans : /\ At(c, st, l, num, ans).ans = ans
                           /\ At(c, st, l, num, ans).to.st = st
                           /\ At(c, st, l, num, ans).to.level = l
    BY DEF At
<1>4. card[c].st = "ready" => level \in 1..Len(pop[c].parts)
    <2>1. level \in 1..3
        BY DEF SelectTypes, SelectTypeOK
    <2> QED
        BY <2>1, PartsLeast DEF SelectTypes, AtLevel
<1>5. card[c].st = "ready" =>
        \/ /\ level < Len(pop[c].parts) /\ Selected(c) = At(c, "ready", level + 1, 0, "cascade")
        \/ Selected(c) = At(c, "active", level, 0, "sak")
    BY DEF Selected
<1>6. CASE pop[c].kind = "card" /\ card[c].st = "ready"
    <2>1. Reaction(c, f) = IF Here(c) = f.known THEN Selected(c) ELSE At(c, "idle", 1, 0, "none")
        BY <1>6 DEF Reaction, IsoCard, ReadyCard, Part, Here
    <2> QED
        BY <1>3, <1>5, <1>6, <2>1
<1>7. CASE pop[c].kind = "card" /\ card[c].st = "idle"
    <2>1. Reaction(c, f) = Stay(c)
        BY <1>7 DEF Reaction, IsoCard
    <2> QED
        BY <1>2, <1>7, <2>1
<1>8. CASE pop[c].kind = "simtag"
    <2>1. \/ /\ level < Len(pop[c].parts)
             /\ Reaction(c, f) = At(c, "ready", level + 1, 0, "cascade")
          \/ Reaction(c, f) = At(c, "active", level, 0, "sak")
        BY <1>4, <1>8 DEF Reaction, SimTag
    <2> QED
        BY <1>3, <1>8, <2>1
<1>9. CASE pop[c].kind = "mf1k"
    <2>1. Reaction(c, f) = Selected(c)
        BY <1>9 DEF Reaction, Mf1k, Part, Here
    <2> QED
        BY <1>3, <1>5, <1>9, <2>1
<1> QED
    BY <1>1, <1>6, <1>7, <1>8, <1>9 DEF CardKinds
----------------------------------------------------------------------------
\* What Resolvable says of two cards that differ in the part asked.
LEMMA CanResolve ==
    ASSUME SelectTypes, Resolvable, NEW c \in Cards, NEW d \in Cards,
           level <= Len(pop[c].parts), SameUpTo(c, d, level), Here(c) # Here(d)
    PROVE  /\ 0 \in Here(c) <=> 0 \in Here(d)
           /\ \/ Len(pop) <= 2
              \/ \E a, b \in Cards : \E q \in 0..6 :
                   SameUpTo(c, a, level) /\ SameUpTo(c, b, level) /\ q \in Here(a) /\ q \notin Here(b)
<1> DEFINE group == { e \in Cards : SameUpTo(c, e, level) }
           Diff(e, g) == (Here(e) \ Here(g)) \cup (Here(g) \ Here(e))
           first == { Smallest(S) : S \in { Diff(e, g) : e, g \in group } \ {{}} }
<1>1. level \in 1..3
    BY DEF SelectTypes, SelectTypeOK
<1>2. level \in 1..Len(pop[c].parts)
    BY <1>1, PartsLeast
<1>3. FirstDifferences(c, level) = first
    BY DEF FirstDifferences, Here
<1>4. first # {} => 0 \notin first /\ (Len(pop) <= 2 \/ Smallest(first) <= 6)
    <2> HIDE DEF first
    <2>1. \A l \in 1..Len(pop[c].parts) :
            FirstDifferences(c, l) # {} =>
              0 \notin FirstDifferences(c, l) /\ (Len(pop) <= 2 \/ Smallest(FirstDifferences(c, l)) <= 6)
        BY DEF Resolvable
    <2> QED
        BY <1>2, <1>3, <2>1
<1>5. c \in group /\ d \in group
    BY <1>2 DEF SameUpTo
<1>6. \A e \in group : Here(e) \subseteq 0..31
    <2> SUFFICES ASSUME NEW e \in group
                 PROVE  Here(e) \subseteq 0..31
        OBVIOUS
    <2>1. level <= Len(pop[e].parts)
        BY DEF SameUpTo
    <2>2. level \in 1..Len(pop[e].parts)
        BY <1>1, <2>1, PartsLeast
    <2> QED
        BY <2>2, Population DEF Here, SelectTypes, SelectTypeOK, Position
<1>7. \A e, g \in group : Diff(e, g) \in SUBSET Nat /\ Diff(e, g) \subseteq 0..31
    <2> TAKE e \in group, g \in group
    <2>1. Here(e) \subseteq 0..31 /\ Here(g) \subseteq 0..31
        BY <1>6
    <2>2. Diff(e, g) \subseteq 0..31
        BY <2>1, Zenon
    <2>3. 0..31 \subseteq Nat
        OBVIOUS
    <2> HIDE DEF Diff
    <2> QED
        BY <2>2, <2>3, Zenon
<1> HIDE DEF first
<1>8. \A e, g \in group : Diff(e, g) # {} =>
        /\ Smallest(Diff(e, g)) \in first
        /\ Smallest(Diff(e, g)) \in Diff(e, g)
        /\ \A y \in Diff(e, g) : Smallest(Diff(e, g)) <= y
    <2> SUFFICES ASSUME NEW e \in group, NEW g \in group, Diff(e, g) # {}
                 PROVE  /\ Smallest(Diff(e, g)) \in first
                        /\ Smallest(Diff(e, g)) \in Diff(e, g)
                        /\ \A y \in Diff(e, g) : Smallest(Diff(e, g)) <= y
        OBVIOUS
    <2>1. Smallest(Diff(e, g)) \in first
        BY SMTT(20) DEF first
    <2>2. Diff(e, g) \in SUBSET Nat
        BY <1>7
    <2> HIDE DEF Diff
    <2> QED
        BY <2>1, <2>2, SmallestIs
<1>9. \A t \in first : \E e, g \in group : t = Smallest(Diff(e, g)) /\ Diff(e, g) # {}
    <2> SUFFICES ASSUME NEW t \in first
                 PROVE  \E e, g \in group : t = Smallest(Diff(e, g)) /\ Diff(e, g) # {}
        OBVIOUS
    <2> HIDE DEF Diff, group
    <2>1. PICK S : S \in { Diff(e, g) : e, g \in group } \ {{}} /\ t = Smallest(S)
        BY DEF first
    <2>2. PICK e \in group, g \in group : S = Diff(e, g)
        BY <2>1
    <2> QED
        BY <2>1, <2>2
<1>10. Diff(c, d) # {}
    OBVIOUS
<1> HIDE DEF Diff
<1>11. first # {}
    BY <1>5, <1>8, <1>10
<1>12. 0 \notin Diff(c, d)
    <2> SUFFICES ASSUME 0 \in Diff(c, d)
                 PROVE  FALSE
        OBVIOUS
    <2> DEFINE t == Smallest(Diff(c, d))
    <2>1. t \in first /\ t \in Diff(c, d) /\ t <= 0
        BY <1>5, <1>8
    <2>2. t \in Nat
        BY <1>5, <1>7, <2>1
    <2> HIDE DEF t
    <2>3. t = 0
        BY <2>1, <2>2
    <2> QED
        BY <1>4, <1>11, <2>1, <2>3
<1>13. 0 \in Here(c) <=> 0 \in Here(d)
    BY <1>12 DEF Diff
<1>14. ASSUME ~ (Len(pop) <= 2)
       PROVE  \E a, b \in Cards : \E q \in 0..6 :
                SameUpTo(c, a, level) /\ SameUpTo(c, b, level) /\ q \in Here(a) /\ q \notin Here(b)
    <2> DEFINE t == Smallest(first)
    <2>1. first \in SUBSET Nat
        BY <1>7, <1>8, <1>9
    <2>2. t \in first
        BY <1>11, <2>1, SmallestIs
    <2>3. t <= 6
        BY <1>4, <1>11, <1>14
    <2> HIDE DEF t
    <2>4. PICK e \in group, g \in group : t \in Diff(e, g)
        BY <1>8, <1>9, <2>2
    <2>5. t \in 0..6
        BY <2>1, <2>2, <2>3
    <2>6. (t \in Here(e) /\ t \notin Here(g)) \/ (t \in Here(g) /\ t \notin Here(e))
        BY <2>4 DEF Diff
    <2> QED
        BY <2>5, <2>6
<1> QED
    BY <1>13, <1>14

\* Three cards of at most three are all of them.
LEMMA Crowd ==
    ASSUME Len(pop) \in 1..3, NEW c \in Cards, NEW d \in Cards, NEW e \in Cards,
           c # d, c # e, d # e
    PROVE  Cards = {c, d, e} /\ ~ (Len(pop) <= 2)
<1>1. \A n \in 1..3 : \A x, y, z \in 1..n :
         x # y /\ x # z /\ y # z => n = 3 /\ \A w \in 1..n : w = x \/ w = y \/ w = z
    OBVIOUS
<1>2. Cards = 1..Len(pop)
    BY DEF Cards
<1>3. Len(pop) = 3 /\ \A w \in Cards : w = c \/ w = d \/ w = e
    BY <1>1, <1>2
<1> QED
    BY <1>3
----------------------------------------------------------------------------
\* The bits of a part in its answer.
LEMMA InFull ==
    ASSUME NEW p \in SUBSET Position
    PROVE  /\ \A q \in 0..31 : q \in Full(p) <=> q \in p
           /\ Prefix(Full(p), 0) = {}
<1>1. Full(p) \subseteq 0..39 /\ p = { b \in Full(p) : b < 32 }
    BY FullBits
<1> QED
    BY <1>1 DEF Prefix

\* The cards that answer an anticollision frame that everyone hears.
LEMMA AllAnswer ==
    ASSUME SelectTypes, Selecting, Resolving, fresh, quiet, Resolvable,
           NEW op \in {"SELALL", "PARTIAL"},
           op = "SELALL" <=> pc = "selall", pc \in {"selall", "partial"}
    PROVE  LET f == Frame(op, level, Prefix(known, bits), bits)
           IN  /\ Answered(f, {}) = Matching /\ Matching # {}
               /\ bits \in 0..32 /\ (pc = "selall" => bits = 0 /\ Matching = Ready)
               /\ known \subseteq 0..(bits - 1)
               /\ \A c \in Ready : Here(c) \in SUBSET Position
               /\ \A c \in Cards : LET s == Reaction(c, f).to
                                   IN  s.st = card[c].st /\ (s.st = "ready" => s.level = level)
<1> DEFINE f == Frame(op, level, Prefix(known, bits), bits)
<1>1. f.op = op /\ f.level = level /\ f.known = Prefix(known, bits) /\ f.n = bits
    BY DEF Frame
<1> HIDE DEF f
<1>2. /\ Ready # {} /\ \A c \in Ready : card[c].level = level /\ SameUpTo(c, c, level)
      /\ pc = "partial" =>
           /\ \A c \in Cards : pop[c].kind = "card"
           /\ bits \in 1..32 /\ known \subseteq 0..(bits - 1) /\ Matching # {}
    BY DEF Resolving
<1>3. pc = "selall" => known = {} /\ bits = 0
    BY DEF SelectTypes
<1>4. bits \in 0..32 /\ bits < 40
    BY <1>2, <1>3
<1>5. known \subseteq 0..(bits - 1)
    BY <1>2, <1>3
<1>6. Prefix(known, bits) = known
    <2>1. \A b \in known : b < bits
        BY <1>4, <1>5
    <2> QED
        BY <2>1 DEF Prefix
<1>7. \A c \in Ready : Here(c) \in SUBSET Position
    <2> TAKE c \in Ready
    <2>1. level <= Len(pop[c].parts) /\ level \in 1..3 /\ c \in Cards
        BY <1>2 DEF SameUpTo, SelectTypes, SelectTypeOK, Ready
    <2>2. level \in 1..Len(pop[c].parts)
        BY <2>1, PartsLeast
    <2> QED
        BY <2>1, <2>2, Population DEF Here, SelectTypes, SelectTypeOK
<1>8. \A c \in Cards : /\ card[c].st \in {"idle", "ready"}
                       /\ card[c].st = "ready" => card[c].level = level
                       /\ pop[c].kind # "card" => f.op = "SELALL" /\ card[c].st = "ready"
    <2> TAKE c \in Cards
    <2>1. card[c].st \in {"idle", "ready"}
        BY DEF Selecting, Passing
    <2>2. card[c].st = "ready" => card[c].level = level
        BY <1>2 DEF Ready
    <2>3. ASSUME pop[c].kind # "card"
          PROVE  f.op = "SELALL" /\ card[c].st = "ready"
        <3>1. Cards = {c}
            BY <2>3, Population DEF SelectTypes, SelectTypeOK
        <3>2. c \in Ready
            BY <1>2, <3>1 DEF Ready
        <3>3. op = "SELALL"
            BY <1>2, <2>3
        <3> QED
            BY <1>1, <3>2, <3>3 DEF Ready
    <2> QED
        BY <2>1, <2>2, <2>3
<1>9. \A c \in Cards : LET r == Reaction(c, f)
                       IN  /\ r.ans # "none" <=>
                                card[c].st = "ready" /\ Prefix(Full(Here(c)), bits) = known
                           /\ r.to.st = card[c].st
                           /\ card[c].st = "ready" => r.to.level = level
    BY <1>1, <1>3, <1>4, <1>6, <1>8, AnswersPart
<1>10. Answered(f, {}) = Matching
    BY <1>9 DEF Answered, Matching, Ready
<1>11. pc = "selall" => Matching = Ready
    BY <1>3, <1>7, InFull DEF Matching
<1> QED
    BY <1>2, <1>3, <1>4, <1>5, <1>7, <1>9, <1>10, <1>11 DEF f

\* Resolvable says nothing of what changes.
LEMMA SameUpToKept ==
    ASSUME pop' = pop
    PROVE  /\ \A c, d, l : SameUpTo(c, d, l)' <=> SameUpTo(c, d, l)
           /\ Resolvable' <=> Resolvable
<1>1. Cards' = Cards
    BY DEF Cards
<1>2. \A c, d, l : SameUpTo(c, d, l)' <=> SameUpTo(c, d, l)
    BY DEF SameUpTo
<1>3. \A c, l : FirstDifferences(c, l)' = FirstDifferences(c, l)
    BY <1>1 DEF FirstDifferences, SameUpTo
<1> QED
    BY <1>1, <1>2, <1>3 DEF Resolvable

\* Without a collision the answer completes the part.
LEMMA Completed ==
    ASSUME SelectTypes, NEW p \in SUBSET Position, known = Prefix(Full(p), bits), bits \in 0..32,
           Complete({Full(p)})
    PROVE  pc' = "select" /\ known' \cap Position = p
<1>1. known' = known \cup { b \in Position : b >= bits /\ b \in Full(p) } /\ pc' = "select"
    BY DEF Complete
<1>2. Full(p) \subseteq 0..39 /\ p = { b \in Full(p) : b < 32 }
    BY FullBits
<1>3. \A b \in Position : b \in known' <=> b \in Full(p)
    BY <1>1 DEF Prefix, Position
<1>4. \A b \in Full(p) : b < 32 <=> b \in Position
    BY <1>2 DEF Position
<1> QED
    BY <1>1, <1>2, <1>3, <1>4

\* What these cards send.
Sent == { Full(Here(c)) : c \in Matching }

\* A collision leaves the cards with a 1 there: fewer parts than before.
LEMMA Collided ==
    ASSUME SelectTypes, Selecting, Resolving, fresh, quiet, Resolvable,
           pc \in {"selall", "partial"}, Matching # {}, ~Alike(Matching),
           bits \in 0..7, pc = "selall" => bits = 0 /\ Matching = Ready,
           \A c \in Ready : Here(c) \in SUBSET Position,
           Colliding(Sent, CollisionPos(Sent, bits)) \/ CollisionPos(Sent, bits) = 0
    PROVE  LET p == CollisionPos(Sent, bits)
               left == { c \in Matching : p \in Full(Here(c)) }
           IN  /\ p # 0
               /\ pc' = "partial" /\ bits' = p + 1 /\ p \in 0..31
               /\ known' \subseteq 0..p
               /\ \A c \in Ready : Prefix(Full(Here(c)), bits') = known' <=> c \in left
               /\ left # {}
               /\ \/ Alike(left)
                  \/ p <= 6 /\ \E a, b \in left : \A c \in left : Here(c) \in {Here(a), Here(b)}
               /\ \A c \in Cards : pop[c].kind = "card"
<1> DEFINE p == CollisionPos(Sent, bits)
           left == { c \in Matching : p \in Full(Here(c)) }
<1>1. \A c \in Matching : c \in Ready /\ c \in Cards /\ Here(c) \in SUBSET Position
                          /\ Prefix(Full(Here(c)), bits) = known
    BY DEF Matching, Ready
<1>2. PICK c0 \in Matching, d0 \in Matching : Here(c0) # Here(d0)
    BY DEF Alike
<1>3. \A c, d \in Matching : Here(c) # Here(d) =>
        /\ 0 \in Here(c) <=> 0 \in Here(d)
        /\ \/ Len(pop) <= 2
           \/ \E a, b \in Cards : \E q \in 0..6 :
                SameUpTo(c, a, level) /\ SameUpTo(c, b, level) /\ q \in Here(a) /\ q \notin Here(b)
    <2> TAKE c \in Matching, d \in Matching
    <2>1. SameUpTo(c, c, level) /\ SameUpTo(c, d, level)
        BY <1>1 DEF Resolving
    <2>2. level <= Len(pop[c].parts)
        BY <2>1 DEF SameUpTo
    <2> QED
        BY <1>1, <2>1, <2>2, CanResolve
<1>4. /\ \A a \in Sent : \E q \in SUBSET Position : a = Full(q)
      /\ \A a, b \in Sent : Prefix(a, bits) = Prefix(b, bits)
    BY <1>1 DEF Sent
<1>5. \A a, b \in Sent : 0 \in a => 0 \in b
    <2>1. \A c, d \in Matching : 0 \in Here(c) => 0 \in Here(d)
        BY <1>3
    <2>2. \A c \in Matching : 0 \in Full(Here(c)) <=> 0 \in Here(c)
        BY <1>1, InFull
    <2> QED
        BY <2>1, <2>2 DEF Sent
<1>6. Full(Here(c0)) # Full(Here(d0))
    <2>1. \A c \in Matching : Here(c) = { b \in Full(Here(c)) : b < 32 }
        BY <1>1, FullBits
    <2> QED
        BY <1>2, <2>1
<1> HIDE DEF p
<1>7. /\ p \in bits..31 /\ p # 0
      /\ \E a, b \in Sent : p \in a /\ p \notin b
      /\ \A a, b \in Sent : Prefix(a, p) = Prefix(b, p)
    <2>1. Full(Here(c0)) \in Sent /\ Full(Here(d0)) \in Sent
        BY DEF Sent
    <2> HIDE DEF left
    <2> QED
        BY <1>4, <1>5, <1>6, <2>1, FirstCollision DEF p
<1>8. p \in 0..31
    BY <1>7
<1>9. ASSUME NEW c \in Matching
      PROVE  known' = Prefix(Full(Here(c)), p) \cup {p} /\ bits' = p + 1 /\ pc' = "partial"
    <2>1. Full(Here(c)) \in Sent /\ Full(Here(c)) \subseteq 0..39
          /\ known = Prefix(Full(Here(c)), bits)
        BY <1>1, FullBits DEF Sent
    <2>2. \A b \in Sent : Prefix(Full(Here(c)), p) = Prefix(b, p)
        BY <1>7, <2>1
    <2>3. Colliding(Sent, p)
        BY <1>7 DEF p
    <2> HIDE DEF left
    <2> QED
        BY <1>7, <2>1, <2>2, <2>3, NextKnown
<1>10. bits' = p + 1 /\ pc' = "partial" /\ known' \subseteq 0..p
    <2>1. Full(Here(c0)) \subseteq 0..39
        BY <1>1, FullBits
    <2>2. Prefix(Full(Here(c0)), p) \subseteq 0..p
        BY <1>8, <2>1 DEF Prefix
    <2> QED
        BY <1>8, <1>9, <2>2
<1>11. \A c \in Ready : Prefix(Full(Here(c)), bits') = known' <=> c \in left
    <2> TAKE c \in Ready
    <2> DEFINE a == Full(Here(c))
    <2>0. a \subseteq 0..39
        BY FullBits
    <2> HIDE DEF a
    <2>1. Prefix(a, p + 1) = Prefix(a, p) \cup (a \cap {p})
        <3>1. \A b \in a : b < p + 1 <=> b < p \/ b = p
            BY <1>8, <2>0
        <3> QED
            BY <3>1 DEF Prefix
    <2>2. ASSUME c \in left
          PROVE  Prefix(a, bits') = known'
        <3>1. known' = Prefix(a, p) \cup {p} /\ p \in a
            BY <1>9, <2>2 DEF a
        <3> QED
            BY <1>10, <2>1, <3>1
    <2>3. ASSUME Prefix(a, bits') = known'
          PROVE  c \in left
        <3>1. known' = Prefix(Full(Here(c0)), p) \cup {p}
            BY <1>9
        <3>2. p \in a
            BY <2>3, <3>1 DEF Prefix
        <3>3. Prefix(a, p) = Prefix(Full(Here(c0)), p)
            <4>1. p \notin Prefix(a, p) /\ p \notin Prefix(Full(Here(c0)), p)
                BY <1>8 DEF Prefix
            <4>2. Prefix(a, p) \cup {p} = Prefix(Full(Here(c0)), p) \cup {p}
                BY <1>10, <2>1, <2>3, <3>1, <3>2
            <4> QED
                BY <4>1, <4>2
        <3>4. Prefix(a, bits) = Prefix(Full(Here(c0)), bits)
            <4>1. \A b \in 0..39 : b < bits => b < p
                BY <1>7
            <4>2. Full(Here(c0)) \subseteq 0..39
                BY <1>1, FullBits
            <4>3. \A b \in 0..39 : b < p => (b \in a <=> b \in Full(Here(c0)))
                BY <3>3 DEF Prefix
            <4> QED
                BY <2>0, <4>1, <4>2, <4>3 DEF Prefix
        <3>5. Prefix(a, bits) = known
            BY <1>1, <3>4
        <3> QED
            BY <3>2, <3>5 DEF a, Matching
    <2> QED
        BY <2>2, <2>3 DEF a
<1>12. PICK e \in Matching, m \in Matching : p \notin Full(Here(e)) /\ p \in Full(Here(m))
    BY <1>7 DEF Sent
<1>13. left # {}
    BY <1>12
<1>14. c0 # d0 /\ \A c \in Cards : pop[c].kind = "card"
    BY <1>1, <1>2, Population DEF SelectTypes, SelectTypeOK
<1>15. ASSUME ~Alike(left)
       PROVE  p <= 6 /\ \E a, b \in left : \A c \in left : Here(c) \in {Here(a), Here(b)}
    <2>1. PICK c \in left, d \in left : Here(c) # Here(d)
        BY <1>15 DEF Alike
    <2>2. CASE pc = "selall"
        <3>1. c \in Cards /\ d \in Cards /\ e \in Cards /\ c # d /\ c # e /\ d # e
            BY <1>1, <1>12, <2>1
        <3>2. Cards = {c, d, e} /\ ~ (Len(pop) <= 2)
            BY <3>1, Crowd DEF Resolvable
        <3>3. PICK a \in Cards, b \in Cards, q \in 0..6 : q \in Here(a) /\ q \notin Here(b)
            BY <1>3, <2>1, <3>2
        <3>4. a \in Matching /\ b \in Matching
            BY <2>1, <3>2
        <3>5. p <= q
            <4> SUFFICES ASSUME q < p
                         PROVE  FALSE
                BY <1>8
            <4>1. Prefix(Full(Here(a)), p) = Prefix(Full(Here(b)), p)
                BY <1>7, <3>4 DEF Sent
            <4>2. q \in Full(Here(a)) /\ q \notin Full(Here(b))
                <5>1. q \in 0..31
                    OBVIOUS
                <5> QED
                    BY <1>1, <3>3, <3>4, <5>1, InFull
            <4> QED
                BY <4>1, <4>2 DEF Prefix
        <3>6. p <= 6
            BY <1>8, <3>5
        <3>7. \A x \in left : x = c \/ x = d
            BY <1>1, <1>12, <3>2
        <3> QED
            BY <2>1, <3>6, <3>7
    <2>3. CASE pc = "partial"
        <3>1. PICK a \in Matching, b \in Matching : \A x \in Matching : Here(x) \in {Here(a), Here(b)}
            BY <2>3 DEF Resolving
        <3>2. Here(e) = Here(a) \/ Here(e) = Here(b)
            BY <3>1
        <3>3. \A x \in left : Here(x) # Here(e)
            BY <1>12
        <3> QED
            BY <2>1, <3>1, <3>2, <3>3
    <2> QED
        BY <2>2, <2>3
<1> QED
    BY <1>7, <1>8, <1>10, <1>11, <1>13, <1>14, <1>15 DEF p

\* The steps, when nothing is lost.
LEMMA WupaResolving ==
    ASSUME SelectTypes, Selecting, Wupa
    PROVE  Resolving' /\ Resolves'
<1> DEFINE f == Bare("WUPA")
<1>1. PICK missed, H :
             /\ Swapped(f, missed, H)
             /\ IF H = {} THEN Return(0) ELSE pc' = "selall" /\ ret' = ret
             /\ level' = 1 /\ uid' = <<>>
             /\ UNCHANGED <<known, bits, blocknum>>
    BY WupaSteps DEF SelectTypes
<1>2. f.op = "WUPA"
    BY BareFrames
<1> HIDE DEF f
<1>3. pop' = pop /\ Cards' = Cards /\ fresh' = fresh
    BY <1>1 DEF Swapped, Cards
<1> SUFFICES ASSUME fresh', quiet', Resolvable'
             PROVE  /\ pc' = "selall" /\ Ready' # {}
                    /\ \A c \in Ready' : card'[c].level = level'
                    /\ \A c, d \in Ready' : SameUpTo(c, d, level)'
    BY DEF Resolving, Resolves, SelectDone
<1>4. quiet /\ missed = {} /\ H = Answered(f, {}) /\ \A c \in Cards : card'[c] = Reaction(c, f).to
    BY <1>1 DEF Swapped
<1>5. \A c \in Cards : Reaction(c, f) = At(c, "ready", 1, 0, "atqa")
    <2> TAKE c \in Cards
    <2>1. card[c].st = "idle" /\ pop[c].kind \in CardKinds
        BY <1>3, Population DEF Selecting, Wupa, SelectTypes, SelectTypeOK
    <2> QED
        BY <1>2, <2>1 DEF Reaction, IsoCard, SimTag, Mf1k, CardKinds
<1>6. Cards # {}
    <2>1. \A n \in 1..3 : 1 \in 1..n
        OBVIOUS
    <2>2. 1 \in Cards
        BY <1>3, <2>1 DEF Resolvable, Cards
    <2> QED
        BY <2>2
<1>7. \A c \in Cards : card'[c].st = "ready" /\ card'[c].level = 1 /\ Reaction(c, f).ans # "none"
    BY <1>4, <1>5 DEF At
<1>8. Ready' = Cards /\ H = Cards
    BY <1>3, <1>4, <1>7 DEF Ready, Answered
<1>9. pc' = "selall" /\ level' = 1
    BY <1>1, <1>6, <1>8
<1>10. \A c, d \in Cards : SameUpTo(c, d, level)'
    <2>1. \A c \in Cards : 1 <= Len(pop[c].parts)
        BY PartsLeast
    <2>2. \A k \in 1..(1 - 1) : FALSE
        OBVIOUS
    <2> QED
        BY <1>3, <1>9, <2>1, <2>2 DEF SameUpTo
<1> QED
    BY <1>6, <1>7, <1>8, <1>9, <1>10

LEMMA AnticollisionResolving ==
    ASSUME SelectTypes, Selecting, Resolving, NEW op \in {"SELALL", "PARTIAL"},
           op = "SELALL" <=> pc = "selall", pc \in {"selall", "partial"}, Anticollision(op)
    PROVE  Resolving' /\ Resolves'
<1> DEFINE f == Frame(op, level, Prefix(known, bits), bits)
<1>1. PICK missed, H :
             LET fulls == { Full(pop[c].parts[level]) : c \in H }
                 p     == CollisionPos(fulls, bits)
             IN  /\ Swapped(f, missed, H)
                 /\ IF H = {} THEN Return(0) /\ UNCHANGED <<known, bits>>
                    ELSE IF p # 0 THEN Colliding(fulls, p) ELSE Complete(fulls)
                 /\ UNCHANGED <<level, uid, blocknum>>
    BY AnticollisionSteps DEF SelectTypes
<1>2. Swapped(f, missed, H) /\ pop' = pop /\ Cards' = Cards /\ fresh' = fresh /\ level' = level
    BY <1>1 DEF Swapped, Cards
<1>3. Resolvable' <=> Resolvable
    BY <1>2, SameUpToKept
<1> SUFFICES ASSUME fresh, quiet', Resolvable
             PROVE  Resolving' /\ pc' # "apdu"
    BY <1>2, <1>3 DEF Resolving, Resolves, SelectDone
<1>4. quiet /\ missed = {} /\ H = Answered(f, {}) /\ \A c \in Cards : card'[c] = Reaction(c, f).to
    BY <1>2 DEF Swapped
<1>5. /\ Answered(f, {}) = Matching /\ Matching # {}
      /\ bits \in 0..32 /\ (pc = "selall" => bits = 0 /\ Matching = Ready)
      /\ known \subseteq 0..(bits - 1)
      /\ \A c \in Ready : Here(c) \in SUBSET Position
      /\ \A c \in Cards : LET s == Reaction(c, f).to
                          IN  s.st = card[c].st /\ (s.st = "ready" => s.level = level)
    BY <1>4, AllAnswer
<1>6. /\ Ready' = Ready /\ \A c \in Ready : card'[c].level = level'
      /\ \A c, d \in Ready : SameUpTo(c, d, level)'
      /\ \A c : Here(c)' = Here(c)
    <2>1. Ready' = Ready /\ \A c \in Ready : card'[c].level = level'
        BY <1>2, <1>4, <1>5 DEF Ready
    <2>2. \A c, d \in Ready : SameUpTo(c, d, level)'
        BY <1>2, <1>4 DEF Resolving, SameUpTo
    <2>3. \A c : Here(c)' = Here(c)
        BY <1>2 DEF Here
    <2> QED
        BY <2>1, <2>2, <2>3
<1>7. Ready # {} /\ \A c \in Matching : c \in Ready /\ Prefix(Full(Here(c)), bits) = known
    BY <1>5 DEF Matching
<1>8. /\ H = Matching /\ Sent = { Full(pop[c].parts[level]) : c \in H }
      /\ IF CollisionPos(Sent, bits) # 0 THEN Colliding(Sent, CollisionPos(Sent, bits))
                                         ELSE Complete(Sent)
    <2>1. H = Matching
        BY <1>4, <1>5
    <2>2. Sent = { Full(pop[c].parts[level]) : c \in H }
        BY <2>1 DEF Sent, Here
    <2> HIDE DEF f
    <2> QED
        BY <1>1, <1>5, <2>1, <2>2
<1> HIDE DEF f
<1>9. CASE Alike(Matching)
    <2>1. PICK m \in Matching : TRUE
        BY <1>5
    <2>2. Sent = {Full(Here(m))}
        BY <1>9, <2>1 DEF Sent, Alike
    <2>3. CollisionPos(Sent, bits) = 0
        <3>1. bits \in Nat
            BY <1>5
        <3> QED
            BY <2>2, <3>1, NoCollision
    <2>4. pc' = "select" /\ known' \cap Position = Here(m)
        BY <1>5, <1>7, <1>8, <2>2, <2>3, Completed
    <2> QED
        BY <1>6, <1>7, <2>4 DEF Resolving
<1>10. CASE ~Alike(Matching)
    <2>1. bits \in 0..7
        <3>1. pc = "partial" => bits <= 7
            BY <1>4, <1>10 DEF Resolving
        <3> QED
            BY <1>5, <3>1
    <2> DEFINE p == CollisionPos(Sent, bits)
               left == { c \in Matching : p \in Full(Here(c)) }
    <2>2. /\ pc' = "partial" /\ bits' = p + 1 /\ p \in 0..31
          /\ known' \subseteq 0..p
          /\ \A c \in Ready : Prefix(Full(Here(c)), bits') = known' <=> c \in left
          /\ left # {}
          /\ \/ Alike(left)
             \/ p <= 6 /\ \E a, b \in left : \A c \in left : Here(c) \in {Here(a), Here(b)}
          /\ \A c \in Cards : pop[c].kind = "card"
        BY <1>4, <1>5, <1>8, <1>10, <2>1, Collided
    <2> HIDE DEF p
    <2>3. Matching' = left
        <3>1. left \subseteq Ready
            BY <1>7
        <3>2. Matching' = { c \in Ready : Prefix(Full(Here(c)), bits') = known' }
            BY <1>6 DEF Matching, Full, Prefix, Bcc
        <3> HIDE DEF left
        <3> QED
            BY <2>2, <3>1, <3>2
    <2> HIDE DEF left
    <2>4. bits' \in 1..32 /\ bits' - 1 = p /\ (p <= 6 => bits' <= 7)
        BY <2>2
    <2>5. Alike(Matching)' <=> Alike(left)
        BY <1>6, <2>3 DEF Alike
    <2>6. (\E a, b \in left : \A c \in left : Here(c) \in {Here(a), Here(b)}) =>
          (\E a, b \in Matching' : \A c \in Matching' : Here(c)' \in {Here(a)', Here(b)'})
        BY <1>6, <2>3
    <2> QED
        BY <1>2, <1>6, <1>7, <2>2, <2>3, <2>4, <2>5, <2>6 DEF Resolving
<1> QED
    BY <1>9, <1>10

LEMMA SelectResolving ==
    ASSUME SelectTypes, Selecting, Resolving, SelectUid
    PROVE  Resolving' /\ Resolves'
<1> DEFINE f == Frame("SELECT", level, known \cap Position, 0)
<1>1. PICK missed, H :
             LET says(sak) == \E c \in H : Reaction(c, f).ans = sak
             IN  /\ Swapped(f, missed, H)
                 /\ CASE H = {} -> Return(0) /\ UNCHANGED <<uid, level>>
                      [] H # {} /\ says("cascade") ->
                           /\ uid' = Append(uid, DropFirstByte(known \cap Position))
                           /\ level' = level + 1 /\ pc' = "selall" /\ ret' = ret
                      [] OTHER ->
                           /\ uid' = Append(uid, known \cap Position) /\ UNCHANGED level
                           /\ IF \E c \in H : pop[c].iso4
                              THEN pc' = "rats" /\ ret' = ret ELSE Return(2)
                 /\ known' = {} /\ bits' = 0 /\ UNCHANGED blocknum
    BY SelectSteps DEF SelectTypes
<1>2. f.op = "SELECT" /\ f.level = level /\ f.known = known \cap Position /\ pc = "select"
    BY DEF Frame, SelectUid
<1>3. Swapped(f, missed, H) /\ pop' = pop /\ Cards' = Cards /\ fresh' = fresh
    BY <1>1 DEF Swapped, Cards
<1> HIDE DEF f
<1>4. \/ H = {}
      \/ pc' = "rats" \/ (pc' = "apdu" /\ ret' = 2)
      \/ /\ \E c \in H : Reaction(c, f).ans = "cascade"
         /\ level' = level + 1 /\ pc' = "selall"
    <2>1. CASE H # {} /\ \E c \in H : Reaction(c, f).ans = "cascade"
        BY <1>1, <2>1
    <2>2. CASE H # {} /\ ~ \E c \in H : Reaction(c, f).ans = "cascade"
        BY <1>1, <2>2 DEF Return
    <2> QED
        BY <2>1, <2>2
<1>5. Resolvable' <=> Resolvable
    BY <1>3, SameUpToKept
<1> SUFFICES ASSUME fresh, quiet', Resolvable
             PROVE  Resolving' /\ (pc' = "apdu" => ret' # 0)
    BY <1>3, <1>5 DEF Resolving, Resolves, SelectDone
<1>6. quiet /\ missed = {} /\ H = Answered(f, {}) /\ \A c \in Cards : card'[c] = Reaction(c, f).to
    BY <1>3 DEF Swapped
<1>7. /\ \A c \in Ready : c \in Cards /\ card[c].st = "ready" /\ card[c].level = level
      /\ \A c, d \in Ready : SameUpTo(c, d, level)
    BY <1>2, <1>6 DEF Resolving, Ready
<1>8. PICK w \in Ready : Here(w) = f.known
    BY <1>2, <1>6 DEF Resolving
<1>9. \A c \in Cards :
        LET r == Reaction(c, f)
        IN  IF card[c].st = "ready" /\ Here(c) = f.known
            THEN \/ /\ r.ans = "cascade" /\ level < Len(pop[c].parts)
                    /\ r.to.st = "ready" /\ r.to.level = level + 1
                 \/ r.ans = "sak"
            ELSE r.ans = "none" /\ r.to.st = "idle"
    <2> TAKE c \in Cards
    <2>1. card[c].st \in {"idle", "ready"} /\ (card[c].st = "ready" => card[c].level = level)
        BY <1>2, <1>7 DEF Selecting, Passing, Ready
    <2>2. pop[c].kind # "card" => c = w
        BY <1>7, <1>8, Population DEF SelectTypes, SelectTypeOK
    <2> QED
        BY <1>2, <1>7, <1>8, <2>1, <2>2, AnswersSelect
<1>10. w \in H
    BY <1>6, <1>7, <1>8, <1>9 DEF Answered
<1> SUFFICES ASSUME pc' = "selall", level' = level + 1, \E c \in H : Reaction(c, f).ans = "cascade"
             PROVE  Resolving'
    BY <1>4, <1>10 DEF Resolving
<1>11. level \in 1..3
    BY DEF SelectTypes, SelectTypeOK
<1>12. PICK c \in H : Reaction(c, f).ans = "cascade"
    OBVIOUS
<1>13. c \in Cards
    BY <1>3 DEF Swapped, Answered
<1>14. card'[c].st = "ready" /\ c \in Ready'
    BY <1>3, <1>6, <1>9, <1>12, <1>13 DEF Ready
<1>15. ASSUME NEW d \in Ready'
       PROVE  d \in Ready /\ Here(d) = f.known /\ card'[d].level = level'
    <2>1. d \in Cards /\ card'[d].st = "ready"
        BY <1>3 DEF Ready
    <2>2. card[d].st = "ready" /\ Here(d) = f.known
        BY <1>6, <1>9, <2>1
    <2>3. Reaction(d, f).ans # "sak"
        BY <1>2, <1>6, <2>1, Selects
    <2> QED
        BY <1>6, <1>9, <2>1, <2>2, <2>3 DEF Ready
<1>16. \A d \in Ready' : level < Len(pop[d].parts)
    <2> TAKE d \in Ready'
    <2>1. d \in Ready /\ Here(d) = f.known
        BY <1>15
    <2>2. Reaction(d, f).ans # "sak"
        BY <1>2, <1>3, <1>6, <1>7, <2>1, Selects DEF Ready
    <2> QED
        BY <1>7, <1>9, <2>1, <2>2
<1>17. \A d, e \in Ready' : SameUpTo(d, e, level)'
    <2> TAKE d \in Ready', e \in Ready'
    <2>1. SameUpTo(d, e, level) /\ Here(d) = Here(e)
        BY <1>7, <1>15
    <2>2. level + 1 <= Len(pop[d].parts) /\ level + 1 <= Len(pop[e].parts)
        <3>1. d \in Cards /\ e \in Cards
            BY <1>7, <1>15
        <3> QED
            BY <1>11, <1>16, <3>1, PartsLeast
    <2>3. ASSUME NEW k \in 1..level
          PROVE  pop[d].parts[k] = pop[e].parts[k]
        <3>1. k = level \/ k \in 1..(level - 1)
            BY <1>11
        <3> QED
            BY <2>1, <3>1 DEF SameUpTo, Here
    <2>4. level' - 1 = level
        BY <1>11
    <2> QED
        BY <1>3, <2>2, <2>3, <2>4 DEF SameUpTo
<1> QED
    BY <1>14, <1>15, <1>17 DEF Resolving

LEMMA RatsResolving ==
    ASSUME SelectTypes, Activating, Rats
    PROVE  Resolving' /\ Resolves'
<1> DEFINE f == Bare("RATS")
<1>1. PICK missed, H :
             /\ Swapped(f, missed, H)
             /\ IF H = {} THEN Return(0) /\ UNCHANGED blocknum ELSE Return(1) /\ blocknum' = 0
             /\ UNCHANGED <<level, uid, known, bits>>
    BY RatsSteps DEF SelectTypes
<1>2. f.op = "RATS" /\ pc = "rats"
    BY BareFrames DEF Rats
<1> HIDE DEF f
<1>3. pc' = "apdu" /\ (H # {} => ret' = 1)
    BY <1>1 DEF Return
<1> SUFFICES ASSUME quiet'
             PROVE  H # {}
    BY <1>3 DEF Resolving, Resolves
<1>4. H = Answered(f, {})
    BY <1>1 DEF Swapped
<1>5. PICK c \in Cards : pop[c].iso4 /\ (pop[c].kind = "card" => card[c].st = "active")
    BY <1>2 DEF Activating
<1>6. Reaction(c, f).ans # "none"
    BY <1>2, <1>5, RatsAnswer
<1> QED
    BY <1>4, <1>6 DEF Answered
----------------------------------------------------------------------------
\* Every step keeps the invariant.
LEMMA WupaKeeps ==
    ASSUME SelectIInv, Wupa
    PROVE  SelectIInv'
<1>1. PICK missed, H :
             /\ Swapped(Bare("WUPA"), missed, H)
             /\ IF H = {} THEN Return(0) ELSE pc' = "selall" /\ ret' = ret
             /\ level' = 1 /\ uid' = <<>>
             /\ UNCHANGED <<known, bits, blocknum>>
    BY WupaSteps DEF SelectIInv, SelectTypes
<1>2. SelectTypes' /\ Selecting' /\ Resolving' /\ Resolves'
    BY WupaTypes, WupaSelecting, WupaResolving DEF SelectIInv
<1>3. Rested'
    BY <1>1 DEF Rested, Swapped
<1>4. pc' = "selall" \/ (pc' = "apdu" /\ ret' = 0)
    BY <1>1 DEF Return
<1>5. NumberInStep'
    BY <1>1, BareFrames, NumberKept DEF SelectIInv
<1> QED
    BY <1>2, <1>3, <1>4, <1>5 DEF SelectIInv, Activating, OneSelected, SelectDone

LEMMA AnticollisionKeeps ==
    ASSUME SelectIInv, SelectAll \/ SelectPartial
    PROVE  SelectIInv'
<1>1. PICK op \in {"SELALL", "PARTIAL"} :
        /\ op = "SELALL" <=> pc = "selall"
        /\ pc \in {"selall", "partial"} /\ Anticollision(op)
    BY DEF SelectAll, SelectPartial
<1>2. op = "SELALL" => bits = 0
    BY <1>1 DEF SelectIInv, SelectTypes
<1> DEFINE f == Frame(op, level, Prefix(known, bits), bits)
<1>3. PICK missed, H :
             LET fulls == { Full(pop[c].parts[level]) : c \in H }
                 p     == CollisionPos(fulls, bits)
             IN  /\ Swapped(f, missed, H)
                 /\ IF H = {} THEN Return(0) /\ UNCHANGED <<known, bits>>
                    ELSE IF p # 0 THEN Colliding(fulls, p) ELSE Complete(fulls)
                 /\ UNCHANGED <<level, uid, blocknum>>
    BY <1>1, AnticollisionSteps DEF SelectIInv, SelectTypes
<1>4. f.op \notin {"RATS", "APDU"}
    BY <1>1 DEF Frame
<1>5. pc' \in {"partial", "select"} \/ (pc' = "apdu" /\ ret' = 0)
    BY <1>3 DEF Return, Colliding, Complete
<1>6. Swapped(f, missed, H) /\ blocknum' = blocknum
    BY <1>3
<1> HIDE DEF f
<1>7. SelectTypes' /\ Selecting' /\ Resolving' /\ Resolves'
    BY <1>1, <1>2, AnticollisionTypes, AnticollisionSelecting, AnticollisionResolving DEF SelectIInv
<1>8. Rested'
    BY <1>6 DEF Rested, Swapped
<1>9. NumberInStep'
    BY <1>4, <1>6, NumberKept DEF SelectIInv
<1> QED
    BY <1>5, <1>7, <1>8, <1>9 DEF SelectIInv, Activating, OneSelected, SelectDone

LEMMA SelectKeeps ==
    ASSUME SelectIInv, SelectUid
    PROVE  SelectIInv'
<1> DEFINE f == Frame("SELECT", level, known \cap Position, 0)
<1>1. PICK missed, H : Swapped(f, missed, H) /\ blocknum' = blocknum
    BY SelectSteps DEF SelectIInv, SelectTypes
<1>2. f.op \notin {"RATS", "APDU"}
    BY DEF Frame
<1> HIDE DEF f
<1>3. SelectTypes' /\ Selecting' /\ Activating' /\ OneSelected' /\ Resolving' /\ Resolves'
    BY SelectUidTypes, SelectSelecting, SelectEnds, SelectResolving DEF SelectIInv
<1>4. Rested'
    BY <1>1 DEF Rested, Swapped
<1>5. NumberInStep'
    BY <1>1, <1>2, NumberKept DEF SelectIInv
<1> QED
    BY <1>3, <1>4, <1>5 DEF SelectIInv

LEMMA LaterKeeps ==
    ASSUME SelectIInv, Rats \/ Apdu \/ Raw
    PROVE  SelectIInv'
<1>1. SelectTypes'
    BY RatsTypes, ApduTypes, RawTypes DEF SelectIInv
<1>2. PICK op, missed, H :
        /\ op \in {"RATS", "APDU", "HLTA"}
        /\ Swapped(Bare(op), missed, H)
        /\ Rats \/ Apdu \/ (op = "HLTA" /\ blocknum' = blocknum)
        /\ Rats \/ pc' \in {"raw", "done"}
        /\ pc' \in {"apdu", "raw", "done"}
    <2>0. SelectTypeOK
        BY DEF SelectIInv, SelectTypes
    <2>1. CASE Rats
        <3>1. \E missed, H : Swapped(Bare("RATS"), missed, H) /\ pc' = "apdu"
            BY <2>0, <2>1, RatsSteps DEF Return
        <3> QED
            BY <2>1, <3>1
    <2>2. CASE Apdu
        <3>1. \E missed, H : Swapped(Bare("APDU"), missed, H) /\ pc' = "raw"
            BY <2>0, <2>2, ApduSteps
        <3> QED
            BY <2>2, <3>1
    <2>3. CASE Raw
        <3>1. \E missed, H : Swapped(Bare("HLTA"), missed, H) /\ pc' = "done" /\ blocknum' = blocknum
            BY <2>0, <2>3, RawSteps
        <3> QED
            BY <3>1
    <2> QED
        BY <2>1, <2>2, <2>3
<1>3. Rested'
    BY <1>2 DEF Rested, Swapped
<1>4. Selecting' /\ Activating'
    BY <1>2 DEF Selecting, Activating
<1>5. OneSelected'
    BY <1>2, RatsEnds DEF SelectIInv, OneSelected, SelectDone
<1>7. Resolving' /\ Resolves'
    BY <1>2, RatsResolving DEF SelectIInv, Resolving, Resolves, SelectDone
<1>6. NumberInStep'
    <2>1. CASE op = "HLTA" /\ blocknum' = blocknum
        <3>1. Bare(op).op \notin {"RATS", "APDU"}
            BY <2>1, BareFrames
        <3> QED
            BY <1>2, <2>1, <3>1, NumberKept DEF SelectIInv
    <2> QED
        BY <1>2, <2>1, RatsNumber, ApduNumber DEF SelectIInv
<1> QED
    BY <1>1, <1>3, <1>4, <1>5, <1>6, <1>7 DEF SelectIInv

LEMMA QuietKeeps ==
    ASSUME SelectIInv,
           (\E f \in Requests : Request(f)) \/ SkipApdu \/ SkipRaw \/ UNCHANGED selectVars
    PROVE  SelectIInv'
<1>1. SelectTypes' /\ pop' = pop /\ Cards' = Cards /\ card' = card
      /\ blocknum' = blocknum /\ insync' = insync
    BY Quiet DEF SelectIInv
<1>2. NumberInStep'
    BY <1>1 DEF SelectIInv, NumberInStep
<1>3. \A c \in Cards : Idle(c)' = Idle(c)
    BY DEF Idle
<1>4. Rested'
    <2>2. ~field' => ~field
        BY DEF Request, SkipApdu, SkipRaw, selectVars
    <2> QED
        BY <1>1, <1>3, <2>2 DEF SelectIInv, Rested
<1>5. CASE \E f \in Requests : Request(f)
    <2>1. PICK f \in Requests : Request(f)
        BY <1>5
    <2>2. Selecting'
        <3>1. CASE field
            BY <2>1, <3>1 DEF Request, Selecting
        <3> QED
            BY <2>1, <3>1, Rest DEF SelectIInv
    <2>3. Activating' /\ OneSelected' /\ Resolving' /\ Resolves'
        BY <2>1 DEF Request, Activating, OneSelected, Resolving, Resolves, SelectDone
    <2> QED
        BY <1>1, <1>2, <1>4, <2>2, <2>3 DEF SelectIInv
<1>6. CASE SkipApdu \/ SkipRaw
    <2>1. pc' \in {"raw", "done"}
        BY <1>6 DEF SkipApdu, SkipRaw
    <2> QED
        BY <1>1, <1>2, <1>4, <2>1 DEF SelectIInv, Selecting, Activating, OneSelected, Resolving, Resolves,
                                     SelectDone
<1>7. CASE UNCHANGED selectVars
    <2>1. Selecting'
        BY <1>1, <1>7 DEF SelectIInv, selectVars, Selecting, Passing, Emulating, Path
    <2>2. Activating' /\ OneSelected'
        BY <1>1, <1>7 DEF SelectIInv, selectVars, Activating, Chosen, UidOf, OneSelected, SelectDone
    <2>3. Resolvable' <=> Resolvable
        BY <1>1, SameUpToKept
    <2>4. Matching' = Matching /\ Ready' = Ready /\ \A c : Here(c)' = Here(c)
        BY <1>1, <1>7 DEF selectVars, Matching, Ready, Here, Full, Bcc, Prefix
    <2>5. Resolving'
        BY <1>1, <1>7, <2>3, <2>4 DEF SelectIInv, selectVars, Resolving, SameUpTo, Alike
    <2>6. Resolves'
        BY <1>7, <2>3 DEF SelectIInv, selectVars, Resolves, SelectDone
    <2> QED
        BY <1>1, <1>2, <1>4, <2>1, <2>2, <2>5, <2>6 DEF SelectIInv
<1> QED
    BY <1>5, <1>6, <1>7

LEMMA DisconnectKeeps ==
    ASSUME SelectIInv, Disconnect
    PROVE  SelectIInv'
<1>1. /\ SelectTypes' /\ pop' = pop /\ Cards' = Cards /\ pc' = "idle"
      /\ \/ UNCHANGED <<field, card, insync, blocknum>>
         \/ field' = FALSE /\ insync' = FALSE /\ \A c \in Cards : card'[c] = Idle(c)
    BY DisconnectTypes DEF SelectIInv
<1>2. \A c \in Cards : Idle(c)' = Idle(c)
    BY DEF Idle
<1>3. Rested' /\ NumberInStep'
    BY <1>1, <1>2 DEF SelectIInv, Rested, NumberInStep
<1> QED
    BY <1>1, <1>3 DEF SelectIInv, Selecting, Activating, OneSelected, Resolving, Resolves, SelectDone

LEMMA SelectStart ==
    ASSUME SelectInit
    PROVE  SelectIInv
<1>1. \A c \in Cards : card[c] = Idle(c)
    BY DEF SelectInit
<1>2. pop \in Populations
    BY DEF SelectInit
<1>3. \A c \in Cards : Idle(c) \in States /\ AtLevel(c, Idle(c))
    <2> TAKE c \in Cards
    <2>1. Len(pop[c].parts) \in 1..3
        BY <1>2, Population
    <2>2. \A m \in 1..3 : 1 <= m
        OBVIOUS
    <2>3. 1 <= Len(pop[c].parts)
        BY <2>1, <2>2, Zenon
    <2> QED
        BY <2>3 DEF Idle, States, AtLevel
<1>4. card \in [Cards -> States]
    BY <1>3 DEF SelectInit
<1>5. <<>> \in Seq(SUBSET Position) /\ Len(<<>>) = 0 /\ {} \subseteq 0..39 /\ 0 \in 0..40
          /\ 1 \in 1..3 /\ 0 \in 0..2 /\ 0 <= 3
    OBVIOUS
<1>6. SelectTypes
    BY <1>1, <1>3, <1>4, <1>5 DEF SelectInit, SelectTypes, SelectTypeOK, States
<1>7. Rested /\ NumberInStep
    BY <1>1 DEF SelectInit, Rested, NumberInStep
<1>8. Selecting /\ Activating /\ OneSelected /\ Resolving /\ Resolves
    BY DEF SelectInit, Selecting, Activating, OneSelected, Resolving, Resolves, SelectDone
<1> QED
    BY <1>6, <1>7, <1>8 DEF SelectIInv

\* The inductive invariant of ReaderIso14443a, for any population that
\* ISO 14443-3 allows, any requests, with or without losses.
THEOREM SelectInvariance == SelectSpec => []SelectIInv
<1>1. SelectInit => SelectIInv
    BY SelectStart
<1>2. SelectIInv /\ [SelectNext]_selectVars => SelectIInv'
    <2> SUFFICES ASSUME SelectIInv, [SelectNext]_selectVars
                 PROVE  SelectIInv'
        OBVIOUS
    <2>1. CASE Wupa
        BY <2>1, WupaKeeps
    <2>2. CASE SelectAll \/ SelectPartial
        BY <2>2, AnticollisionKeeps
    <2>3. CASE SelectUid
        BY <2>3, SelectKeeps
    <2>4. CASE Rats \/ Apdu \/ Raw
        BY <2>4, LaterKeeps
    <2>5. CASE (\E f \in Requests : Request(f)) \/ SkipApdu \/ SkipRaw \/ UNCHANGED selectVars
        BY <2>5, QuietKeeps
    <2>6. CASE Disconnect
        BY <2>6, DisconnectKeeps
    <2> QED
        BY <2>1, <2>2, <2>3, <2>4, <2>5, <2>6 DEF SelectNext, Reader, Select
<1> QED
    BY <1>1, <1>2, PTL DEF SelectSpec

\* uid_resp never gets more than eight bits past its four bytes, and the
\* levels, the UID parts and the values iso14443a_select_card returns are what
\* the host is prepared for.
THEOREM SelectTypeCorrect == SelectSpec => []SelectTypeOK
<1>1. SelectIInv => SelectTypeOK
    BY DEF SelectIInv, SelectTypes
<1> QED
    BY <1>1, SelectInvariance, PTL

\* When iso14443a_select_card says that it found a card, in a field that was
\* off before, exactly one card is selected, the UID reported is that card's
\* and the value returned tells whether it is in the block protocol, whatever
\* collided and whatever was lost.
THEOREM SelectedOne == SelectSpec => []OneSelected
<1>1. SelectIInv => OneSelected
    BY DEF SelectIInv
<1> QED
    BY <1>1, SelectInvariance, PTL

\* With the field just switched on and nothing lost iso14443a_select_card finds
\* a card, if up to three cards differ in bits that the anticollision loop can
\* resolve: the bits it puts together are the UID of one that is there.
THEOREM CardFound == SelectSpec => []Resolves
<1>1. SelectIInv => Resolves
    BY DEF SelectIInv
<1> QED
    BY <1>1, SelectInvariance, PTL

\* As long as nothing is lost, iso14_pcb_blocknum is the number the only card
\* in the block protocol expects next, whatever was selected in between.
THEOREM NumberKeptInStep == SelectSpec => []NumberInStep
<1>1. SelectIInv => NumberInStep
    BY DEF SelectIInv
<1> QED
    BY <1>1, SelectInvariance, PTL
=============================================================================
