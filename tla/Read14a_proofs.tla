--------------------------- MODULE Read14a_proofs ---------------------------
(***************************************************************************)
(* Proofs about the reader session of Read14a, for every value of its      *)
(* constants: types, that host and firmware never block each other, that   *)
(* read14a keeps step with the card and its commands refine PcdSession     *)
(* until it skips an answer, that the SELECTs of a session with at most    *)
(* two cards are whole, and that a session that returned left the field    *)
(* off.                                                                    *)
(***************************************************************************)
EXTENDS Read14a, TLAPS

(* While the host is transmitting, the firmware is idle or on its way      *)
(* there without anything more to tell: its frame was read, and what it    *)
(* has still to put on the air has no answer.                              *)
TransmitMeetsIdle ==
  host = "xmit" =>
    /\ in = NoFrame
    /\ \/ fw \in {"idle", "answering"}
       \/ fw = "dumping" /\ "NO_RESPONSE" \in cmd.flags

(* A session that is over leaves nothing for the host to read.             *)
OverIsQuiet ==
  host \in {"returned", "thrown"} => in = NoFrame /\ fw \in {"idle", "answering"}

(* The frame offered tells where the firmware is.                          *)
FrameOrigin ==
  /\ fw \in {"idle", "listen", "dump"} => in = NoFrame
  /\ in.type = "READER_DUMP" => fw = "dumping"
  /\ in.type = "CARD_DUMP" => fw = "answering"

(* DISCONNECT is entered with HLTA, and left with the echo of HLTA.        *)
HaltPending ==
  fsm = "DISCONNECT" =>
    /\ host = "xmit" => out \in {Hlta, Disconnect}
    /\ host = "recv" =>
         cmd = Hlta /\ (fw = "dump" \/ (fw = "dumping" /\ in # NoFrame))

IInv == TypeOK /\ TransmitMeetsIdle /\ OverIsQuiet /\ FrameOrigin /\ HaltPending
-----------------------------------------------------------------------------
(* Every command read14a can build is a command.                           *)
LEMMA CommandsTyped ==
  /\ {NoCmd, Reqa, Ratsa, GetData, Hlta, Disconnect} \subseteq Commands
  /\ \A l \in 1..3 : SelAll(l) \in Commands
  BY DEF NoCmd, Reqa, Ratsa, GetData, Hlta, Disconnect, SelAll, Cmd, Commands,
         CmdKinds, Flags

(* seluida_t::set_uid yields lengths, and no negative one.                 *)
Result == [thrown : BOOLEAN, uid : Nat, len : Nat, nvb : Nat]

LEMMA NvbTyped == ASSUME NEW cp \in Nat PROVE NvbBits(cp) \in Nat
<1>1. cp \div 8 \in Nat /\ cp % 8 \in Nat
  OBVIOUS
<1>2. \A b \in Nat : Or2(b) \in Nat
  BY DEF Or2
<1>. QED BY <1>1, <1>2 DEF NvbBits

LEMMA SetUidTyped ==
  ASSUME NEW u \in Nat, NEW prior \in Nat, NEW n \in Nat, NEW cp \in Nat
  PROVE  SetUid(u, prior, n, cp) \in Result
<1>1. NvbBits(cp) \in Nat /\ cp \div 8 \in Nat
  BY NvbTyped
<1>2. /\ Throw \in Result /\ Untouched(u) \in Result
      /\ \A len, v \in Nat : Whole(len, v) \in Result /\ Partial(len, v, cp) \in Result
  BY <1>1 DEF Throw, Untouched, Whole, Partial, Result
<1>3. CASE n # 0 /\ u <= 10 /\ cp = 0 /\ prior # 0
  <2>1. CASE u = 0 \/ Merged(u, n) < 4
    BY <1>2, <1>3, <2>1 DEF SetUid
  <2>2. CASE ~(u = 0 \/ Merged(u, n) < 4)
    <3>1. Merged(u, n) \in Nat /\ Merged(u, n) + 3 \in Nat
      BY <2>2 DEF Merged
    <3>. QED BY <1>2, <1>3, <2>2, <3>1 DEF SetUid
  <2>. QED BY <2>1, <2>2
<1>4. CASE n # 0 /\ u <= 10 /\ cp # 0 /\ prior # 0
  <2>1. u + cp \div 8 + 3 \in Nat /\ u + cp \div 8 + 1 \in Nat
    BY <1>1
  <2>. QED BY <1>2, <1>4, <2>1 DEF SetUid
<1>5. CASE n # 0 /\ u <= 10 /\ cp # 0 /\ prior = 0
  <2>1. cp \div 8 + 3 \in Nat /\ cp \div 8 + 1 \in Nat
    BY <1>1
  <2>. QED BY <1>2, <1>5, <2>1 DEF SetUid
<1>6. CASE n = 0 \/ u > 10
  BY <1>2, <1>6 DEF SetUid
<1>7. CASE n # 0 /\ u <= 10 /\ cp = 0 /\ prior = 0
  BY <1>2, <1>7 DEF SetUid
<1>. QED BY <1>3, <1>4, <1>5, <1>6, <1>7
(* The command around it is a command.                                     *)
LEMMA SelUidTyped ==
  ASSUME NEW l \in 1..3, NEW r \in Result, NEW cp \in Nat
  PROVE  SelUid(l, r, cp) \in Commands
  BY DEF SelUid, Cmd, Commands, CmdKinds, Flags, Result
-----------------------------------------------------------------------------
(* Whatever the firmware transmits, the cards stay cards and their answer  *)
(* is an answer.                                                           *)
Reactions == [card : Cards, rivals : Nat, ans : Answers]

LEMMA ReactionTyped ==
  ASSUME card \in Cards,
         NEW st \in {"idle", "ready", "active", "protocol", "halt"},
         NEW l \in 1..3, NEW others \in Nat, NEW ans \in Answers
  PROVE  Reaction(st, l, others, ans) \in Reactions
  BY DEF Reaction, Reactions, Cards

LEMMA AnswersTyped ==
  /\ Silence \in Answers
  /\ \A k \in {"ATQA", "UID", "SAK", "ATS", "DATA"}, l \in 0..3, len, col \in Nat,
       b \in SakClass \cup {"any"} : Answer(k, l, len, col, b) \in Answers
  BY DEF Silence, Answer, Answers, SakClass

LEMMA IgnoredTyped ==
  ASSUME card \in Cards, rivals \in Nat
  PROVE  Ignored \in Reactions
<1>1. card.level \in 1..3 /\ card.state \in {"idle", "ready", "active", "protocol", "halt"}
  BY DEF Cards
<1>. QED BY <1>1, AnswersTyped, ReactionTyped DEF Ignored

LEMMA AllAnswerTyped ==
  ASSUME card \in Cards, rivals \in Nat
  PROVE  AllAnswer \subseteq Reactions
<1>1. card.level \in 1..3 /\ card.level \in 0..3
  BY DEF Cards
<1>2. ASSUME NEW col \in Nat PROVE Reaction("ready", card.level, rivals, Uid(5, col)) \in Reactions
  <2>1. Uid(5, col) \in Answers
    BY <1>1, AnswersTyped DEF Uid
  <2>. QED BY <1>1, <2>1, ReactionTyped
<1>3. CollisionPos \subseteq Nat
  BY ConstantsOK
<1>. QED BY <1>2, <1>3 DEF AllAnswer

LEMMA PartialAnswerTyped ==
  ASSUME card \in Cards, rivals \in Nat, NEW c \in Commands, WellFormed(c)
  PROVE  PartialAnswer(c) \subseteq Reactions
<1>. DEFINE known == c.bits - 16
            len   == 5 - known \div 8
            later == { p \in CollisionPos : known % 8 <= p /\ p < 8 * len }
<1>1. card.level \in 1..3 /\ card.level \in 0..3
  BY DEF Cards
<1>2. len \in Nat
  <2>1. c.bits \in 17..55
    BY DEF WellFormed
  <2>2. known \in 1..39
    BY <2>1
  <2>. HIDE DEF known
  <2>. QED BY <2>2
<1>. HIDE DEF known, len
<1>3. later \subseteq Nat
  <2>1. CollisionPos \subseteq Nat
    BY ConstantsOK
  <2>2. later \subseteq CollisionPos
    OBVIOUS
  <2>. QED BY <2>1, <2>2
<1>. HIDE DEF later
<1>4. ASSUME NEW col \in Nat, NEW others \in Nat
      PROVE  Reaction("ready", card.level, others, Uid(len, col)) \in Reactions
  <2>1. Uid(len, col) \in Answers
    BY <1>1, <1>2, AnswersTyped DEF Uid
  <2>. QED BY <1>1, <2>1, ReactionTyped
<1>5. ASSUME NEW r \in (1..rivals-1) \X later PROVE r[1] \in Nat /\ r[2] \in Nat
  <2>1. r[1] \in 1..rivals-1 /\ r[2] \in later
    OBVIOUS
  <2>2. 1..rivals-1 \subseteq Nat
    OBVIOUS
  <2>. QED BY <1>3, <2>1, <2>2, Zenon
<1>6. {0} \cup (IF Deeper THEN 1..rivals-1 ELSE {}) \subseteq Nat
  OBVIOUS
<1>7. PartialAnswer(c) =
        { Reaction("ready", card.level, others, Uid(len, 0)) :
            others \in {0} \cup (IF Deeper THEN 1..rivals-1 ELSE {}) } \cup
        { Reaction("ready", card.level, r[1], Uid(len, r[2])) :
            r \in (1..rivals-1) \X later }
  BY DEF PartialAnswer, known, len, later
<1>. QED BY <1>4, <1>5, <1>6, <1>7

LEMMA SakTyped ==
  ASSUME card \in Cards, rivals \in Nat
  PROVE  Sak \in Reactions
<1>1. card.level \in 1..3 /\ card.level \in 0..3 /\ card.parts \in 1..3
  BY DEF Cards
<1>2. \A b \in SakClass : Answer("SAK", card.level, 3, 0, b) \in Answers
  BY <1>1, AnswersTyped
<1>3. CASE card.level < card.parts
  <2>1. card.level + 1 \in 1..3
    BY <1>1, <1>3
  <2>. QED BY <1>2, <1>3, <2>1, ReactionTyped DEF Sak, SakClass
<1>4. CASE ~(card.level < card.parts)
  BY <1>1, <1>2, <1>4, ReactionTyped DEF Sak, SakClass
<1>. QED BY <1>3, <1>4

LEMMA CardReactsTyped ==
  ASSUME card \in Cards, rivals \in Nat, NEW c \in Commands
  PROVE  CardReacts(c) \subseteq Reactions
<1>1. card.level \in 1..3 /\ 1 \in 1..3
  BY DEF Cards
<1>2. /\ Answer("ATQA", 0, 2, 0, "any") \in Answers
      /\ Answer("ATS", 0, 12, 0, "any") \in Answers
      /\ Answer("DATA", 0, 9, 0, "any") \in Answers
      /\ Silence \in Answers
  BY AnswersTyped
<1>3. /\ Reaction("ready", 1, rivals, Answer("ATQA", 0, 2, 0, "any")) \in Reactions
      /\ Reaction("protocol", card.level, rivals, Answer("ATS", 0, 12, 0, "any")) \in Reactions
      /\ Reaction("protocol", card.level, rivals, Answer("DATA", 0, 9, 0, "any")) \in Reactions
      /\ Reaction("halt", card.level, rivals, Silence) \in Reactions
  BY <1>1, <1>2, ReactionTyped
<1>4. WellFormed(c) => PartialAnswer(c) \subseteq Reactions
  BY PartialAnswerTyped
<1>. QED BY <1>3, <1>4, IgnoredTyped, AllAnswerTyped, SakTyped DEF CardReacts
-----------------------------------------------------------------------------
LEMMA FramesTyped ==
  /\ NoFrame \in Frames
  /\ \A n \in Nat : ReaderDump(n) \in Frames
  /\ \A a \in Answers : CardDump(a) \in Frames
  /\ NoFrame.type = "none"
  /\ \A n : ReaderDump(n).type = "READER_DUMP"
  /\ \A a : CardDump(a).type = "CARD_DUMP"
  BY AnswersTyped DEF NoFrame, ReaderDump, CardDump, Frames, Answers

LEMMA DumpLenTyped == ASSUME NEW c \in Commands PROVE DumpLen(c) \in Nat
<1>. DEFINE n    == c.len + (IF "APPEND_CRC" \in c.flags THEN 2 ELSE 0)
            bits == IF c.bits > 0 THEN c.bits ELSE 8 * n
<1>1. c.len \in Nat /\ c.bits \in Nat
  BY DEF Commands
<1>2. bits \in Nat
  BY <1>1
<1>. HIDE DEF bits
<1>3. (IF bits < 8 THEN 1 ELSE (bits + 7) \div 8) \in Nat
  BY <1>2
<1>. QED BY <1>3 DEF DumpLen, bits

(* The initial states satisfy the invariant.                               *)
LEMMA InitIInv == Init => IInv
<1>. SUFFICES ASSUME Init PROVE IInv
  OBVIOUS
<1>1. card \in Cards
  <2>1. card \in [state : {"idle"}, level : {1}, parts : Parts, kind : Kinds]
    BY DEF Init
  <2>2. Parts \subseteq 1..3 /\ Kinds \subseteq {"iso4", "type2", "classic"} /\ 1 \in 1..3
    BY ConstantsOK
  <2>. QED BY <2>1, <2>2 DEF Cards
<1>2. rivals \in Nat
  BY ConstantsOK DEF Init
<1>3. TypeOK
  BY <1>1, <1>2, CommandsTyped, FramesTyped, AnswersTyped DEF Init, TypeOK, FsmStates
<1>. QED BY <1>3, FramesTyped
         DEF Init, IInv, TransmitMeetsIdle, OverIsQuiet, FrameOrigin, HaltPending

(* A step of read14a that takes a card's answer and transmits c finds the  *)
(* firmware in usb_write of that answer; the invariant holds after it.     *)
LEMMA HostStep ==
  ASSUME IInv, NEW c \in Commands, NEW s \in FsmStates, NEW u \in Nat, NEW k \in Nat,
         Receive("CARD_DUMP"), Transmit(c), fsm' = s, mUid' = u, mCol' = k,
         s = "DISCONNECT" => c \in {Hlta, Disconnect}
  PROVE  IInv'
<1>1. fw = "answering" /\ in' = NoFrame /\ host' = "xmit" /\ out' = c
  BY DEF IInv, FrameOrigin, Receive, Transmit
<1>2. TypeOK'
  BY <1>1, FramesTyped DEF IInv, TypeOK, Receive
<1>. QED BY <1>1, <1>2, FramesTyped
         DEF IInv, TransmitMeetsIdle, OverIsQuiet, FrameOrigin, HaltPending, Receive

LEMMA SelectMajorStep ==
  ASSUME IInv, NEW l \in 1..3, NEW next \in FsmStates, next # "DISCONNECT",
         fsm # "DISCONNECT", SelectMajor(l, next)
  PROVE  IInv'
<1>. DEFINE a == in.ans
            r == SetUid(mUid, mCol, in.arg0 - 1, a.col)
<1>1. in.arg0 - 1 \in Nat /\ a.col \in Nat /\ mUid \in Nat /\ mCol \in Nat
  BY DEF IInv, TypeOK, Frames, Answers, SelectMajor, Receive
<1>2. r \in Result
  BY <1>1, SetUidTyped
<1>3. mCol' \in Nat /\ Receive("CARD_DUMP")
  BY <1>1 DEF SelectMajor, NextCol
<1>4. CASE r.thrown
  <2>1. host' = "thrown" /\ UNCHANGED <<fsm, mUid, out>>
    BY <1>4 DEF SelectMajor
  <2>2. fw = "answering" /\ in' = NoFrame
    BY <1>3 DEF IInv, FrameOrigin, Receive
  <2>3. TypeOK'
    BY <1>3, <2>1, <2>2, FramesTyped DEF IInv, TypeOK, Receive
  <2>. QED BY <1>3, <2>1, <2>2, <2>3, FramesTyped
           DEF IInv, TransmitMeetsIdle, OverIsQuiet, FrameOrigin, HaltPending, Receive
<1>5. CASE ~r.thrown
  <2>1. mUid' = mUid + r.uid /\ fsm' = next /\ Transmit(SelUid(l, r, a.col))
    BY <1>5 DEF SelectMajor
  <2>2. SelUid(l, r, a.col) \in Commands /\ mUid + r.uid \in Nat
    BY <1>1, <1>2, SelUidTyped DEF Result
  <2>. HIDE DEF r, a
  <2>. QED BY <1>3, <2>1, <2>2, HostStep
<1>. QED BY <1>4, <1>5

LEMMA SelectMinorStep ==
  ASSUME IInv, NEW l \in 1..3, NEW deeper \in FsmStates, deeper # "DISCONNECT",
         SelectMinor(l, deeper)
  PROVE  IInv'
<1>1. Receive("CARD_DUMP") /\ mUid' = mUid /\ mCol' = mCol /\ mUid \in Nat /\ mCol \in Nat
  BY DEF SelectMinor, IInv, TypeOK
<1>2. \/ fsm' = "CARD_HALT" /\ Transmit(Hlta)
      \/ fsm' = deeper /\ Transmit(SelAll(l))
      \/ fsm' = "XMIT_RATS" /\ Transmit(Ratsa)
  BY DEF SelectMinor
<1>3. {"CARD_HALT", "XMIT_RATS"} \subseteq FsmStates
  BY DEF FsmStates
<1>. QED BY <1>1, <1>2, <1>3, CommandsTyped, HostStep
(* Every step of read14a preserves the invariant.                          *)
LEMMA HostPreserves == ASSUME IInv, Host PROVE IInv'
<1>. USE DEF FsmStates
<1>0. mUid \in Nat /\ mCol \in Nat
  BY DEF IInv, TypeOK
<1>1. CASE HostReaderDump
  <2>1. /\ host = "recv" /\ fw = "dumping" /\ in' = NoFrame /\ fsm # "DISCONNECT"
        /\ UNCHANGED <<host, fsm, mUid, mCol, out, fw, cmd, field, air, card, rivals>>
    BY <1>1 DEF HostReaderDump, Receive, IInv, FrameOrigin
  <2>2. TypeOK'
    BY <2>1, FramesTyped DEF IInv, TypeOK
  <2>. QED BY <2>1, <2>2, FramesTyped
           DEF IInv, TransmitMeetsIdle, OverIsQuiet, FrameOrigin, HaltPending
<1>2. CASE HostReqWup
  BY <1>0, <1>2, CommandsTyped, HostStep DEF HostReqWup
<1>3. CASE HostSelcOne
  BY <1>3, SelectMajorStep DEF HostSelcOne
<1>4. CASE HostSelcOneContinue
  BY <1>4, SelectMinorStep DEF HostSelcOneContinue
<1>5. CASE HostSelcTwo
  BY <1>5, SelectMajorStep DEF HostSelcTwo
<1>6. CASE HostSelcTwoContinue
  BY <1>6, SelectMinorStep DEF HostSelcTwoContinue
<1>7. CASE HostSelcThree
  BY <1>7, SelectMajorStep DEF HostSelcThree
<1>8. CASE HostXmitRats
  BY <1>0, <1>8, CommandsTyped, HostStep DEF HostXmitRats
<1>9. CASE HostCardHalt
  BY <1>0, <1>9, CommandsTyped, HostStep DEF HostCardHalt
<1>10. CASE HostDisconnect
  <2>1. /\ host = "recv" /\ fsm = "DISCONNECT"
        /\ host' = "xmit" /\ out' = Disconnect /\ in' = NoFrame
        /\ UNCHANGED <<fsm, mUid, mCol, fw, cmd, field, air, card, rivals>>
        /\ in.type \in {"READER_DUMP", "CARD_DUMP"}
    BY <1>10 DEF HostDisconnect, Receive, Transmit
  <2>2. fw = "dumping" /\ cmd = Hlta
    BY <2>1 DEF IInv, FrameOrigin, HaltPending
  <2>3. "NO_RESPONSE" \in cmd.flags
    BY <2>2 DEF Hlta, Cmd
  <2>4. TypeOK'
    BY <2>1, FramesTyped, CommandsTyped DEF IInv, TypeOK
  <2>. QED BY <2>1, <2>2, <2>3, <2>4, FramesTyped
           DEF IInv, TransmitMeetsIdle, OverIsQuiet, FrameOrigin, HaltPending
<1>. QED BY <1>1, <1>2, <1>3, <1>4, <1>5, <1>6, <1>7, <1>8, <1>9, <1>10 DEF Host

(* Every step of the firmware and the cards preserves the invariant.       *)
LEMMA FirmwarePreserves == ASSUME IInv, Firmware PROVE IInv'
<1>1. CASE FwFetch
  <2>1. /\ host = "xmit" /\ fw = "idle" /\ in = NoFrame
        /\ UNCHANGED <<fsm, mUid, mCol, in, air, card, rivals>>
        /\ cmd' = out /\ out' = NoCmd
        /\ host' = IF out = Disconnect THEN "returned" ELSE "recv"
        /\ fw' = IF "DISABLE" \in out.flags THEN "idle" ELSE "dump"
        /\ field' \in BOOLEAN
    BY <1>1 DEF FwFetch, IInv, TransmitMeetsIdle
  <2>2. TypeOK'
    BY <2>1, CommandsTyped DEF IInv, TypeOK
  <2>3. "DISABLE" \in Disconnect.flags /\ "DISABLE" \notin Hlta.flags /\ Hlta # Disconnect
    BY DEF Disconnect, Hlta, Cmd
  <2>. QED BY <2>1, <2>2, <2>3, FramesTyped
           DEF IInv, TransmitMeetsIdle, OverIsQuiet, FrameOrigin, HaltPending
<1>2. CASE FwDumpReader
  <2>1. /\ fw = "dump" /\ fw' = "dumping" /\ in' = ReaderDump(DumpLen(cmd))
        /\ UNCHANGED <<host, fsm, mUid, mCol, out, cmd, field, air, card, rivals>>
    BY <1>2 DEF FwDumpReader
  <2>2. host = "recv"
    BY <2>1 DEF IInv, TypeOK, TransmitMeetsIdle, OverIsQuiet
  <2>3. in' \in Frames /\ in'.type = "READER_DUMP" /\ in' # NoFrame
    BY <2>1, FramesTyped, DumpLenTyped DEF IInv, TypeOK
  <2>4. TypeOK'
    BY <2>1, <2>3 DEF IInv, TypeOK
  <2>. QED BY <2>1, <2>2, <2>3, <2>4
           DEF IInv, TransmitMeetsIdle, OverIsQuiet, FrameOrigin, HaltPending
<1>3. CASE FwTransmit
  <2>1. PICK r \in CardReacts(cmd) : card' = r.card /\ rivals' = r.rivals /\ air' = r.ans
    BY <1>3 DEF FwTransmit
  <2>2. r \in Reactions
    BY CardReactsTyped DEF IInv, TypeOK
  <2>3. /\ fw = "dumping" /\ in = NoFrame
        /\ fw' = IF "NO_RESPONSE" \in cmd.flags THEN "idle" ELSE "listen"
        /\ UNCHANGED <<host, fsm, mUid, mCol, out, in, cmd, field>>
    BY <1>3 DEF FwTransmit
  <2>4. TypeOK'
    BY <2>1, <2>2, <2>3 DEF IInv, TypeOK, Reactions
  <2>. QED BY <2>3, <2>4, FramesTyped
           DEF IInv, TypeOK, TransmitMeetsIdle, OverIsQuiet, FrameOrigin, HaltPending
<1>4. CASE FwAnswer
  <2>1. /\ fw = "listen" /\ fw' = "answering" /\ in' = CardDump(air)
        /\ UNCHANGED <<host, fsm, mUid, mCol, out, cmd, field, air, card, rivals>>
    BY <1>4 DEF FwAnswer
  <2>2. host = "recv" /\ fsm # "DISCONNECT"
    BY <2>1 DEF IInv, TypeOK, TransmitMeetsIdle, OverIsQuiet, HaltPending
  <2>3. in' \in Frames /\ in'.type = "CARD_DUMP"
    BY <2>1, FramesTyped DEF IInv, TypeOK
  <2>4. TypeOK'
    BY <2>1, <2>3 DEF IInv, TypeOK
  <2>. QED BY <2>1, <2>2, <2>3, <2>4
           DEF IInv, TransmitMeetsIdle, OverIsQuiet, FrameOrigin, HaltPending
<1>5. CASE FwTimeout \/ FwAnswered
  <2>1. /\ fw \in {"listen", "answering"} /\ fw' = "idle" /\ in = NoFrame
        /\ UNCHANGED <<host, fsm, mUid, mCol, out, in, cmd, field, air, card, rivals>>
    BY <1>5 DEF FwTimeout, FwAnswered, IInv, FrameOrigin
  <2>2. TypeOK'
    BY <2>1 DEF IInv, TypeOK
  <2>. QED BY <2>1, <2>2, FramesTyped
           DEF IInv, TransmitMeetsIdle, OverIsQuiet, FrameOrigin, HaltPending
<1>. QED BY <1>1, <1>2, <1>3, <1>4, <1>5 DEF Firmware
-----------------------------------------------------------------------------
(* The invariant holds in every state of every session.                    *)
THEOREM Invariance == Spec => []IInv
<1>1. IInv /\ [Next]_vars => IInv'
  <2>. SUFFICES ASSUME IInv, [Next]_vars PROVE IInv'
    OBVIOUS
  <2>1. CASE Host
    BY <2>1, HostPreserves
  <2>2. CASE Firmware
    BY <2>2, FirmwarePreserves
  <2>3. CASE UNCHANGED vars
    BY <2>3 DEF vars, IInv, TypeOK, TransmitMeetsIdle, OverIsQuiet, FrameOrigin,
                HaltPending
  <2>. QED BY <2>1, <2>2, <2>3 DEF Next
<1>. QED BY InitIInv, <1>1, PTL DEF Spec

(* Every variable of the session keeps its type: set_uid never yields a    *)
(* negative length, no card leaves its three cascade levels.               *)
THEOREM TypeCorrect == Spec => []TypeOK
<1>1. IInv => TypeOK
  BY DEF IInv
<1>. QED BY <1>1, Invariance, PTL

(* read14a and ReaderIso14443aReader never wait for each other: whatever   *)
(* the cards answer, a command is transmitted to a firmware that is not in *)
(* a usb_write, and none is left in one when the session is over.          *)
THEOREM LockStep == Spec => []NoMutualBlock
<1>1. IInv => NoMutualBlock
  BY DEF IInv, TypeOK, TransmitMeetsIdle, OverIsQuiet, NoMutualBlock
<1>. QED BY <1>1, Invariance, PTL

(* In DISCONNECT the host waits only while the echo of HLTA is to come.    *)
THEOREM HaltEcho == Spec => []HaltEchoEndsSession
<1>1. IInv => HaltEchoEndsSession
  BY DEF IInv, HaltPending, HaltEchoEndsSession, Waiting
<1>. QED BY <1>1, Invariance, PTL
-----------------------------------------------------------------------------
(* The session in step with the card.  What the firmware executes, or what *)
(* the host is transmitting to it, is what the host waits to see answered. *)

Live    == host \in {"xmit", "recv"}
Pending == IF host = "xmit" THEN out ELSE cmd

WholeSelect(c, l) == c.kind = "SELUID" /\ c.level = l /\ c.flags = {"APPEND_CRC"}
PartSelect(c, l)  == c.kind = "SELUID" /\ c.level = l /\ c.flags = {"XMIT_BITS"}
Round(c, l)       == c = SelAll(l) \/ PartSelect(c, l)

(* An answer `a' that a card in state `k' may give to command `c'.         *)
AsksUid(c) == c.kind = "SELALL" \/ (c.kind = "SELUID" /\ "XMIT_BITS" \in c.flags)
AsksSak(c) == c.kind = "SELUID" /\ "APPEND_CRC" \in c.flags
Fits(c, a, k) ==
  \/ a = Silence
  \/ c.kind = "REQA" /\ a.kind = "ATQA" /\ a.level = 0
  \/ AsksUid(c) /\ a.kind = "UID" /\ a.level = c.level /\ k.level = c.level
  \/ /\ AsksSak(c) /\ a.kind = "SAK" /\ a.level = c.level
     /\ a.byte \in SakClass /\ (a.byte = "cascade" <=> c.level < k.parts)
  \/ c.kind = "RATS" /\ a.kind = "ATS" /\ a.level = 0
  \/ c.kind = "DATA" /\ a.kind = "DATA" /\ a.level = 0

(* The answer on its way to the host is one to the command executed.       *)
AnswerFits ==
  /\ fw = "listen" => Fits(cmd, air, card)
  /\ in.type = "CARD_DUMP" => in.ans # Silence /\ Fits(cmd, in.ans, card)

OnlyHltaIsUnanswered ==
  \A c \in {out, cmd} : "NO_RESPONSE" \in c.flags => c.kind = "HLTA"

LevelExists == card.level <= card.parts

(* Until an answer is skipped, each state of read14a has sent its command. *)
SentInStep ==
  Live /\ ~Skipped =>
    /\ fsm = "REQWUP"            => Pending = Reqa /\ mCol = 0
    /\ fsm = "SELC_ONE"          => Round(Pending, 1)
    /\ fsm = "SELC_ONE_CONTINUE" => WholeSelect(Pending, 1) /\ mCol = 0
    /\ fsm = "SELC_TWO"          => Pending = SelAll(2) /\ mCol = 0
    /\ fsm = "SELC_TWO_CONTINUE" => WholeSelect(Pending, 2)
    /\ fsm = "SELC_THREE"        => Pending = SelAll(3)
    /\ fsm = "XMIT_RATS"         => Pending = Ratsa
    /\ fsm = "CARD_HALT"         => Pending \in {GetData, Hlta}
    /\ fsm = "DISCONNECT"        => Pending \in {Hlta, Disconnect}

(* After it, read14a never gets back to a state that waits for a UID the   *)
(* card could send.                                                        *)
SkippedForGood ==
  Live /\ Skipped =>
    \/ fsm = "SELC_TWO_CONTINUE" /\ PartSelect(Pending, 2) /\ card.level = 2
    \/ fsm = "SELC_THREE" /\ Pending = SelAll(3) /\ card.level = 2
    \/ /\ fsm \in {"XMIT_RATS", "CARD_HALT", "DISCONNECT"}
       /\ \/ Pending \in {Ratsa, GetData, Hlta, Disconnect}
          \/ Pending.kind = "SELUID" /\ Pending.level = 3

(* The command being transmitted follows the one executed before it.       *)
SentInOrder ==
  host = "xmit" /\ ~Skipped =>
    \/ cmd = NoCmd /\ out = Reqa
    \/ cmd = Reqa /\ out = SelAll(1)
    \/ Round(cmd, 1) /\ (PartSelect(out, 1) \/ WholeSelect(out, 1))
    \/ WholeSelect(cmd, 1) /\ out = SelAll(2)
    \/ cmd = SelAll(2) /\ WholeSelect(out, 2)
    \/ WholeSelect(cmd, 2) /\ out = SelAll(3)
    \/ \E l \in 1..2 : WholeSelect(cmd, l) /\ out \in {Ratsa, Hlta}
    \/ cmd = Ratsa /\ out = GetData
    \/ cmd = GetData /\ out = Hlta
    \/ cmd = Hlta /\ out = Disconnect

StepInv ==
  /\ AnswerFits /\ OnlyHltaIsUnanswered /\ LevelExists
  /\ SentInStep /\ SkippedForGood /\ SentInOrder
-----------------------------------------------------------------------------
(* The commands are told apart by their kinds.                             *)
LEMMA CommandKinds ==
  /\ NoCmd.kind = "none" /\ Reqa.kind = "REQA" /\ Ratsa.kind = "RATS"
  /\ GetData.kind = "DATA" /\ Hlta.kind = "HLTA" /\ Disconnect.kind = "OFF"
  /\ \A l : SelAll(l).kind = "SELALL" /\ SelAll(l).level = l
  /\ \A c \in {NoCmd, Reqa, Ratsa, GetData, Hlta, Disconnect} : c.level = 0
  /\ \A c \in {NoCmd, Reqa, Ratsa, GetData, Disconnect} : "NO_RESPONSE" \notin c.flags
  /\ \A l : "NO_RESPONSE" \notin SelAll(l).flags
  BY DEF NoCmd, Reqa, Ratsa, GetData, Hlta, Disconnect, SelAll, Cmd

(* set_uid's command is a whole SELECT without a collision, a partial one  *)
(* with one.                                                               *)
LEMMA SelUidShape ==
  ASSUME NEW l, NEW r, NEW cp
  PROVE  /\ cp = 0 => WholeSelect(SelUid(l, r, cp), l)
         /\ cp # 0 => PartSelect(SelUid(l, r, cp), l)
         /\ "NO_RESPONSE" \notin SelUid(l, r, cp).flags
  BY DEF SelUid, WholeSelect, PartSelect, Cmd

(* What a card does fits the command; its level moves only with REQA and   *)
(* with a whole SELECT below its last level.                               *)
Moves(c) == c.kind = "REQA" \/ (AsksSak(c) /\ c.level = card.level /\ card.level < card.parts)
Proper(c, r) ==
  /\ Fits(c, r.ans, r.card)
  /\ r.card.parts = card.parts /\ r.card.level <= r.card.parts
  /\ ~Moves(c) => r.card.level = card.level

LEMMA ReactionFields ==
  ASSUME card \in Cards, NEW st, NEW l, NEW others, NEW ans
  PROVE  /\ Reaction(st, l, others, ans).ans = ans
         /\ Reaction(st, l, others, ans).rivals = others
         /\ Reaction(st, l, others, ans).card.level = l
         /\ Reaction(st, l, others, ans).card.parts = card.parts
  BY DEF Reaction, Cards

LEMMA CardReactsProper ==
  ASSUME card \in Cards, LevelExists, NEW c \in Commands, NEW r \in CardReacts(c)
  PROVE  Proper(c, r)
<1>1. card.level \in 1..3 /\ card.parts \in 1..3 /\ card.level <= card.parts
  BY DEF Cards, LevelExists
<1>2. CASE r = Ignored
  BY <1>1, <1>2, ReactionFields DEF Ignored, Proper, Fits
<1>3. CASE c.kind = "REQA" /\ r = Reaction("ready", 1, rivals, Answer("ATQA", 0, 2, 0, "any"))
  BY <1>1, <1>3, ReactionFields DEF Proper, Fits, Moves, Answer
<1>4. CASE AsksUid(c) /\ AtLevel(c)
           /\ \E others, len, col : r = Reaction("ready", card.level, others, Uid(len, col))
  BY <1>1, <1>4, ReactionFields DEF Proper, Fits, Uid, Answer, AtLevel
<1>5. CASE AsksSak(c) /\ AtLevel(c) /\ r = Sak
  <2>1. CASE card.level < card.parts
    BY <1>1, <1>5, <2>1, ReactionFields
       DEF Proper, Fits, Moves, Answer, AtLevel, Sak, SakClass
  <2>2. CASE ~(card.level < card.parts)
    BY <1>1, <1>5, <2>2, ReactionFields
       DEF Proper, Fits, Moves, Answer, AtLevel, Sak, SakClass
  <2>. QED BY <2>1, <2>2
<1>6. CASE c.kind = "RATS" /\ r = Reaction("protocol", card.level, rivals, Answer("ATS", 0, 12, 0, "any"))
  BY <1>1, <1>6, ReactionFields DEF Proper, Fits, Answer
<1>7. CASE c.kind = "DATA" /\ r = Reaction("protocol", card.level, rivals, Answer("DATA", 0, 9, 0, "any"))
  BY <1>1, <1>7, ReactionFields DEF Proper, Fits, Answer
<1>8. CASE c.kind = "HLTA" /\ r = Reaction("halt", card.level, rivals, Silence)
  BY <1>1, <1>8, ReactionFields DEF Proper, Fits
<1>9. CASE r \in AllAnswer /\ c.kind = "SELALL" /\ AtLevel(c)
  <2>1. \E others, len, col : r = Reaction("ready", card.level, others, Uid(len, col))
    BY <1>9 DEF AllAnswer
  <2>. QED BY <1>4, <1>9, <2>1 DEF AsksUid
<1>10. CASE r \in PartialAnswer(c) /\ AsksUid(c) /\ AtLevel(c)
  <2>1. \E others, len, col : r = Reaction("ready", card.level, others, Uid(len, col))
    BY <1>10 DEF PartialAnswer
  <2>. QED BY <1>4, <1>10, <2>1
<1>. QED BY <1>2, <1>3, <1>5, <1>6, <1>7, <1>8, <1>9, <1>10
         DEF CardReacts, AsksUid, AsksSak
-----------------------------------------------------------------------------
LEMMA InitStepInv == Init => StepInv
<1>. SUFFICES ASSUME Init PROVE StepInv
  OBVIOUS
<1>1. ~Skipped /\ card.level = 1 /\ card.parts \in 1..3
  BY ConstantsOK DEF Init, Skipped, AfterSelection
<1>. QED BY <1>1, FramesTyped, CommandKinds
         DEF Init, StepInv, AnswerFits, OnlyHltaIsUnanswered, LevelExists, SentInStep,
             SkippedForGood, SentInOrder, Live, Pending

(* Where a card's answer finds the session: the firmware is in usb_write,  *)
(* the command executed is the one the host waits for.                     *)
LEMMA AnswerTaken ==
  ASSUME IInv, StepInv, Receive("CARD_DUMP")
  PROVE  /\ host = "recv" /\ Live /\ Pending = cmd /\ fw = "answering"
         /\ in.ans # Silence /\ Fits(cmd, in.ans, card)
         /\ in' = NoFrame /\ UNCHANGED <<fw, cmd, air, card>>
  BY DEF IInv, FrameOrigin, StepInv, AnswerFits, Receive, Live, Pending

(* After a step that takes an answer only the commands have to be looked   *)
(* at again.                                                               *)
LEMMA AnswerTakenStep ==
  ASSUME IInv, StepInv, Receive("CARD_DUMP"),
         "NO_RESPONSE" \in out'.flags => out'.kind = "HLTA",
         SentInStep', SkippedForGood', SentInOrder'
  PROVE  StepInv'
<1>1. in' = NoFrame /\ UNCHANGED <<fw, cmd, air, card>> /\ fw = "answering"
  BY AnswerTaken
<1>. QED BY <1>1, FramesTyped
         DEF StepInv, AnswerFits, OnlyHltaIsUnanswered, LevelExists

(* Leaving read14a by an exception leaves nothing to keep in step.         *)
LEMMA ThrownStep ==
  ASSUME IInv, StepInv, Receive("CARD_DUMP"), host' = "thrown", UNCHANGED out
  PROVE  StepInv'
<1>1. SentInStep' /\ SkippedForGood' /\ SentInOrder'
  BY DEF SentInStep, SkippedForGood, SentInOrder, Live
<1>. QED BY <1>1, AnswerTakenStep DEF StepInv, OnlyHltaIsUnanswered

(* What select_major leads to at any level.                                *)
LEMMA SelectMajorSends ==
  ASSUME IInv, NEW l, NEW next, SelectMajor(l, next), host' # "thrown"
  PROVE  /\ Receive("CARD_DUMP") /\ fsm' = next /\ host' = "xmit"
         /\ "NO_RESPONSE" \notin out'.flags
         /\ in.ans.col = 0 => mCol' = 0 /\ WholeSelect(out', l)
         /\ in.ans.col # 0 => mCol' # 0 /\ PartSelect(out', l)
<1>. DEFINE r == SetUid(mUid, mCol, in.arg0 - 1, in.ans.col)
<1>1. fsm' = next /\ Transmit(SelUid(l, r, in.ans.col)) /\ Receive("CARD_DUMP")
      /\ mCol' = NextCol(in.ans.col)
  BY DEF SelectMajor
<1>. HIDE DEF r
<1>2. in.ans.col = 0 => mCol' = 0
  BY <1>1 DEF NextCol
<1>3. in.ans.col # 0 => mCol' # 0
  BY <1>1 DEF NextCol
<1>. QED BY <1>1, <1>2, <1>3, SelUidShape DEF Transmit

LEMMA SelectMajorThrown ==
  ASSUME NEW l, NEW next, SelectMajor(l, next), host' = "thrown"
  PROVE  Receive("CARD_DUMP") /\ UNCHANGED out /\ fsm' = fsm
<1>. DEFINE r == SetUid(mUid, mCol, in.arg0 - 1, in.ans.col)
<1>1. Receive("CARD_DUMP")
  BY DEF SelectMajor
<1>2. CASE r.thrown
  BY <1>1, <1>2 DEF SelectMajor
<1>3. CASE ~r.thrown
  BY <1>3 DEF SelectMajor, Transmit
<1>. QED BY <1>2, <1>3

(* What select_minor makes of a SAK that fits.                             *)
LEMMA SelectMinorSends ==
  ASSUME IInv, NEW l, NEW deeper, SelectMinor(l, deeper)
  PROVE  /\ Receive("CARD_DUMP") /\ host' = "xmit" /\ UNCHANGED mCol
         /\ \/ fsm' = "CARD_HALT" /\ out' = Hlta
            \/ fsm' = deeper /\ out' = SelAll(l)
            \/ fsm' = "XMIT_RATS" /\ out' = Ratsa
         /\ in.ans.byte \in SakClass =>
              \/ in.ans.byte # "cascade" /\ fsm' = "CARD_HALT" /\ out' = Hlta
              \/ in.ans.byte = "cascade" /\ fsm' = deeper /\ out' = SelAll(l)
              \/ in.ans.byte # "cascade" /\ fsm' = "XMIT_RATS" /\ out' = Ratsa
  BY DEF SelectMinor, Transmit, FirstByte, SakClass

(* A skip starts at the UID of the level the card is at.                   *)
SkipsAtUid == (Skipped' <=> Skipped) \/ (~Skipped /\ cmd = SelAll(card.level))

(* Every step of read14a keeps step with the card, or skips for good.      *)
LEMMA HostKeepsStep == ASSUME IInv, StepInv, Host PROVE StepInv' /\ SkipsAtUid
<1>0. card.parts \in 1..3 /\ card.level \in 1..3 /\ card.level <= card.parts
      /\ mCol \in Nat
  BY DEF IInv, TypeOK, Cards, StepInv, LevelExists
<1>1. CASE HostReaderDump
  <2>1. /\ in' = NoFrame
        /\ UNCHANGED <<host, fsm, mUid, mCol, out, fw, cmd, field, air, card, rivals>>
    BY <1>1 DEF HostReaderDump, Receive
  <2>. QED BY <2>1, FramesTyped
           DEF StepInv, AnswerFits, OnlyHltaIsUnanswered, LevelExists, SentInStep,
               SkippedForGood, SentInOrder, Live, Pending, Skipped, AfterSelection, SkipsAtUid
<1>2. CASE HostReqWup
  <2>1. /\ fsm = "REQWUP" /\ Receive("CARD_DUMP") /\ fsm' = "SELC_ONE"
        /\ host' = "xmit" /\ out' = SelAll(1) /\ mCol' = mCol
    BY <1>2 DEF HostReqWup, Transmit
  <2>2. ~Skipped /\ cmd = Reqa /\ mCol = 0 /\ cmd' = cmd /\ card' = card
    BY <2>1, AnswerTaken DEF StepInv, SkippedForGood, SentInStep, Skipped, AfterSelection
  <2>3. ~Skipped'
    BY <2>1, <2>2 DEF Skipped, AfterSelection
  <2>4. SentInStep' /\ SkippedForGood' /\ SentInOrder'
    BY <2>1, <2>2, <2>3 DEF SentInStep, SkippedForGood, SentInOrder, Pending, Round
  <2>. QED BY <2>1, <2>2, <2>3, <2>4, CommandKinds, AnswerTakenStep DEF SkipsAtUid
<1>3. CASE HostSelcOne
  <2>. DEFINE next == IF in.ans.col = 0 THEN "SELC_ONE_CONTINUE" ELSE "SELC_ONE"
  <2>1. fsm = "SELC_ONE" /\ SelectMajor(1, next)
    BY <1>3 DEF HostSelcOne
  <2>2. CASE host' = "thrown"
    <3>1. Receive("CARD_DUMP") /\ UNCHANGED out /\ fsm' = fsm
      BY <2>1, <2>2, SelectMajorThrown
    <3>2. card' = card /\ ~Skipped /\ ~Skipped'
      BY <2>1, <3>1, AnswerTaken DEF StepInv, SkippedForGood, Skipped, AfterSelection
    <3>. QED BY <2>2, <3>1, <3>2, ThrownStep DEF SkipsAtUid
  <2>3. CASE host' # "thrown"
    <3>1. /\ Receive("CARD_DUMP") /\ fsm' = next /\ host' = "xmit"
          /\ "NO_RESPONSE" \notin out'.flags
          /\ in.ans.col = 0 => mCol' = 0 /\ WholeSelect(out', 1)
          /\ in.ans.col # 0 => mCol' # 0 /\ PartSelect(out', 1)
      BY <2>1, <2>3, SelectMajorSends
    <3>2. Round(cmd, 1) /\ cmd' = cmd /\ card' = card /\ ~Skipped
      BY <2>1, <3>1, AnswerTaken DEF StepInv, SkippedForGood, SentInStep
    <3>3. ~Skipped'
      BY <3>1, <3>2 DEF Skipped, AfterSelection
    <3>4. SentInStep' /\ SkippedForGood' /\ SentInOrder'
      BY <3>1, <3>2, <3>3 DEF SentInStep, SkippedForGood, SentInOrder, Pending, Round
    <3>. QED BY <3>1, <3>2, <3>3, <3>4, AnswerTakenStep DEF SkipsAtUid
  <2>. QED BY <2>2, <2>3
<1>4. CASE HostSelcOneContinue
  <2>1. fsm = "SELC_ONE_CONTINUE" /\ SelectMinor(2, "SELC_TWO")
    BY <1>4 DEF HostSelcOneContinue
  <2>2. Receive("CARD_DUMP") /\ host' = "xmit" /\ UNCHANGED mCol
    BY <2>1, SelectMinorSends
  <2>3. ~Skipped /\ WholeSelect(cmd, 1) /\ Fits(cmd, in.ans, card) /\ in.ans # Silence
        /\ mCol = 0 /\ cmd' = cmd /\ card' = card
    BY <2>1, <2>2, AnswerTaken DEF StepInv, SkippedForGood, SentInStep
  <2>4. in.ans.byte \in SakClass /\ (in.ans.byte = "cascade" <=> 1 < card.parts)
    BY <2>3 DEF Fits, WholeSelect, AsksUid, AsksSak
  <2>5. \/ card.parts = 1 /\ fsm' = "CARD_HALT" /\ out' = Hlta
        \/ fsm' = "SELC_TWO" /\ out' = SelAll(2)
        \/ card.parts = 1 /\ fsm' = "XMIT_RATS" /\ out' = Ratsa
    BY <1>0, <2>1, <2>4, SelectMinorSends
  <2>6. ~Skipped'
    BY <2>1, <2>2, <2>3, <2>5 DEF Skipped, AfterSelection
  <2>7. SentInStep' /\ SkippedForGood' /\ SentInOrder'
    BY <2>2, <2>3, <2>5, <2>6, CommandKinds
       DEF SentInStep, SkippedForGood, SentInOrder, Pending
  <2>. QED BY <2>2, <2>3, <2>5, <2>6, <2>7, CommandKinds, AnswerTakenStep DEF SkipsAtUid
<1>5. CASE HostSelcTwo
  <2>1. fsm = "SELC_TWO" /\ SelectMajor(2, "SELC_TWO_CONTINUE")
    BY <1>5 DEF HostSelcTwo
  <2>2. Receive("CARD_DUMP")
    BY <2>1 DEF SelectMajor
  <2>3. /\ cmd = SelAll(2) /\ cmd' = cmd /\ card' = card /\ ~Skipped
        /\ in.ans # Silence /\ Fits(cmd, in.ans, card)
    BY <2>1, <2>2, AnswerTaken DEF StepInv, SkippedForGood, SentInStep
  <2>4. card.level = 2
    BY <2>3, CommandKinds DEF Fits, AsksUid, AsksSak
  <2>5. SkipsAtUid
    BY <2>3, <2>4 DEF SkipsAtUid
  <2>6. CASE host' = "thrown"
    BY <2>1, <2>5, <2>6, SelectMajorThrown, ThrownStep
  <2>7. CASE host' # "thrown"
    <3>1. /\ fsm' = "SELC_TWO_CONTINUE" /\ host' = "xmit"
          /\ "NO_RESPONSE" \notin out'.flags
          /\ in.ans.col = 0 => mCol' = 0 /\ WholeSelect(out', 2)
          /\ in.ans.col # 0 => mCol' # 0 /\ PartSelect(out', 2)
      BY <2>1, <2>7, SelectMajorSends
    <3>2. CASE in.ans.col = 0
      <4>1. ~Skipped'
        BY <3>1, <3>2 DEF Skipped, AfterSelection
      <4>. QED BY <2>2, <2>3, <2>5, <3>1, <3>2, <4>1, AnswerTakenStep
               DEF SentInStep, SkippedForGood, SentInOrder, Pending
    <3>3. CASE in.ans.col # 0
      <4>1. Skipped'
        BY <3>1, <3>3 DEF Skipped, AfterSelection
      <4>. QED BY <2>2, <2>3, <2>4, <2>5, <3>1, <3>3, <4>1, AnswerTakenStep
               DEF SentInStep, SkippedForGood, SentInOrder, Pending
    <3>. QED BY <3>2, <3>3
  <2>. QED BY <2>6, <2>7
<1>6. CASE HostSelcTwoContinue
  <2>1. fsm = "SELC_TWO_CONTINUE" /\ SelectMinor(3, "SELC_THREE")
    BY <1>6 DEF HostSelcTwoContinue
  <2>2. Receive("CARD_DUMP") /\ host' = "xmit" /\ UNCHANGED mCol
    BY <2>1, SelectMinorSends
  <2>3. Fits(cmd, in.ans, card) /\ in.ans # Silence /\ Pending = cmd /\ Live
        /\ cmd' = cmd /\ card' = card
    BY <2>2, AnswerTaken
  <2>4. CASE Skipped
    <3>1. card.level = 2 /\ mCol # 0
      BY <2>1, <2>3, <2>4 DEF StepInv, SkippedForGood, Skipped, AfterSelection
    <3>2. \/ fsm' = "CARD_HALT" /\ out' = Hlta
          \/ fsm' = "SELC_THREE" /\ out' = SelAll(3)
          \/ fsm' = "XMIT_RATS" /\ out' = Ratsa
      BY <2>1, SelectMinorSends
    <3>3. Skipped'
      BY <2>2, <3>1, <3>2 DEF Skipped, AfterSelection
    <3>4. SentInStep' /\ SkippedForGood' /\ SentInOrder'
      BY <2>2, <2>3, <3>1, <3>2, <3>3 DEF SentInStep, SkippedForGood, SentInOrder, Pending
    <3>. QED BY <2>2, <2>4, <3>2, <3>3, <3>4, CommandKinds, AnswerTakenStep DEF SkipsAtUid
  <2>5. CASE ~Skipped
    <3>1. WholeSelect(cmd, 2)
      BY <2>1, <2>3, <2>5 DEF StepInv, SentInStep
    <3>2. in.ans.byte \in SakClass /\ (in.ans.byte = "cascade" <=> 2 < card.parts)
      BY <2>3, <3>1 DEF Fits, WholeSelect, AsksUid, AsksSak
    <3>3. \/ card.parts # 3 /\ fsm' = "CARD_HALT" /\ out' = Hlta
          \/ fsm' = "SELC_THREE" /\ out' = SelAll(3)
          \/ card.parts # 3 /\ fsm' = "XMIT_RATS" /\ out' = Ratsa
      BY <1>0, <2>1, <3>2, SelectMinorSends
    <3>4. ~Skipped'
      BY <2>1, <2>2, <2>3, <2>5, <3>3 DEF Skipped, AfterSelection
    <3>5. SentInStep' /\ SkippedForGood' /\ SentInOrder'
      BY <2>2, <2>3, <3>1, <3>3, <3>4, CommandKinds
         DEF SentInStep, SkippedForGood, SentInOrder, Pending
    <3>. QED BY <2>2, <2>5, <3>3, <3>4, <3>5, CommandKinds, AnswerTakenStep DEF SkipsAtUid
  <2>. QED BY <2>4, <2>5
<1>7. CASE HostSelcThree
  <2>1. fsm = "SELC_THREE" /\ SelectMajor(3, "XMIT_RATS")
    BY <1>7 DEF HostSelcThree
  <2>2. Receive("CARD_DUMP")
    BY <2>1 DEF SelectMajor
  <2>3. Fits(cmd, in.ans, card) /\ in.ans # Silence /\ Pending = cmd /\ Live
        /\ cmd' = cmd /\ card' = card
    BY <2>2, AnswerTaken
  <2>4. cmd = SelAll(3)
    BY <2>1, <2>3 DEF StepInv, SkippedForGood, SentInStep
  <2>5. card.level = 3 /\ card.parts = 3
    BY <1>0, <2>3, <2>4, CommandKinds DEF Fits, AsksUid, AsksSak
  <2>6. ~Skipped /\ SkipsAtUid
    BY <2>1, <2>3, <2>4, <2>5 DEF StepInv, SkippedForGood, SkipsAtUid
  <2>7. CASE host' = "thrown"
    BY <2>1, <2>6, <2>7, SelectMajorThrown, ThrownStep
  <2>8. CASE host' # "thrown"
    <3>1. /\ fsm' = "XMIT_RATS" /\ host' = "xmit"
          /\ "NO_RESPONSE" \notin out'.flags
          /\ in.ans.col = 0 => mCol' = 0 /\ WholeSelect(out', 3)
          /\ in.ans.col # 0 => mCol' # 0 /\ PartSelect(out', 3)
      BY <2>1, <2>8, SelectMajorSends
    <3>2. Skipped'
      BY <2>3, <2>5, <3>1 DEF Skipped, AfterSelection
    <3>3. out'.kind = "SELUID" /\ out'.level = 3
      BY <3>1 DEF WholeSelect, PartSelect
    <3>4. SentInStep' /\ SkippedForGood' /\ SentInOrder'
      BY <3>1, <3>2, <3>3 DEF SentInStep, SkippedForGood, SentInOrder, Pending
    <3>. QED BY <2>2, <2>6, <3>1, <3>4, AnswerTakenStep
  <2>. QED BY <2>7, <2>8
<1>8. CASE HostXmitRats \/ HostCardHalt
  <2>1. /\ Receive("CARD_DUMP") /\ host' = "xmit" /\ UNCHANGED mCol
        /\ \/ fsm = "XMIT_RATS" /\ fsm' = "CARD_HALT" /\ out' = GetData
           \/ fsm = "CARD_HALT" /\ fsm' = "DISCONNECT" /\ out' = Hlta
    BY <1>8 DEF HostXmitRats, HostCardHalt, Transmit
  <2>2. Fits(cmd, in.ans, card) /\ in.ans # Silence /\ Pending = cmd /\ Live
        /\ cmd' = cmd /\ card' = card
    BY <2>1, AnswerTaken
  <2>3. Skipped' <=> Skipped
    BY <2>1, <2>2 DEF Skipped, AfterSelection
  <2>4. ~Skipped => \/ fsm = "XMIT_RATS" /\ cmd = Ratsa
                    \/ fsm = "CARD_HALT" /\ cmd = GetData
    BY <2>1, <2>2, CommandKinds DEF StepInv, SentInStep, Fits, AsksUid, AsksSak
  <2>5. SentInStep' /\ SkippedForGood' /\ SentInOrder'
    BY <2>1, <2>2, <2>3, <2>4 DEF SentInStep, SkippedForGood, SentInOrder, Pending
  <2>. QED BY <2>1, <2>3, <2>5, CommandKinds, AnswerTakenStep DEF SkipsAtUid
<1>9. CASE HostDisconnect
  <2>1. /\ fsm = "DISCONNECT" /\ host = "recv" /\ in' = NoFrame
        /\ host' = "xmit" /\ out' = Disconnect
        /\ UNCHANGED <<fsm, mCol, fw, cmd, air, card>>
    BY <1>9 DEF HostDisconnect, Receive, Transmit
  <2>2. cmd = Hlta
    BY <2>1 DEF IInv, HaltPending
  <2>3. Skipped' <=> Skipped
    BY <2>1 DEF Skipped, AfterSelection
  <2>4. SentInStep' /\ SkippedForGood' /\ SentInOrder'
    BY <2>1, <2>2, <2>3 DEF SentInStep, SkippedForGood, SentInOrder, Pending
  <2>5. fw # "listen" /\ OnlyHltaIsUnanswered'
    BY <2>1, <2>2, CommandKinds DEF OnlyHltaIsUnanswered, IInv, HaltPending
  <2>. QED BY <2>1, <2>3, <2>4, <2>5, FramesTyped
           DEF StepInv, AnswerFits, LevelExists, SkipsAtUid
<1>. QED BY <1>1, <1>2, <1>3, <1>4, <1>5, <1>6, <1>7, <1>8, <1>9 DEF Host

(* A frame reaches the air while the host waits for it, or it is HLTA.     *)
LEMMA TransmitFinds ==
  ASSUME IInv, StepInv, FwTransmit
  PROVE  /\ host \in {"xmit", "recv"}
         /\ host = "recv" \/ cmd.kind = "HLTA"
  BY DEF IInv, TypeOK, TransmitMeetsIdle, OverIsQuiet, StepInv, OnlyHltaIsUnanswered,
         FwTransmit

(* Once an answer was skipped no card changes its level any more.          *)
LEMMA SkippedLevelStays ==
  ASSUME IInv, StepInv, Skipped, FwTransmit
  PROVE  ~Moves(cmd)
<1>1. CASE cmd.kind = "HLTA"
  BY <1>1 DEF Moves, AsksSak
<1>2. CASE host = "recv"
  <2>1. \/ PartSelect(cmd, 2) \/ cmd = SelAll(3)
        \/ cmd \in {Ratsa, GetData, Hlta, Disconnect}
        \/ cmd.kind = "SELUID" /\ cmd.level = 3
    BY <1>2 DEF StepInv, SkippedForGood, Live, Pending
  <2>2. card.parts \in 1..3 /\ card.level \in 1..3
    BY DEF IInv, TypeOK, Cards
  <2>. QED BY <2>1, <2>2, CommandKinds DEF Moves, AsksSak, PartSelect
<1>. QED BY <1>1, <1>2, TransmitFinds

(* Every step of the firmware and the cards keeps the session in step.     *)
LEMMA FirmwareKeepsStep == ASSUME IInv, IInv', StepInv, Firmware PROVE StepInv'
<1>1. CASE FwFetch
  <2>1. /\ host = "xmit" /\ fw = "idle" /\ in = NoFrame
        /\ UNCHANGED <<fsm, mUid, mCol, in, air, card, rivals>>
        /\ cmd' = out /\ out' = NoCmd /\ host' \in {"recv", "returned"}
        /\ fw' \in {"idle", "dump"}
    BY <1>1 DEF FwFetch, IInv, TransmitMeetsIdle
  <2>2. Skipped' <=> Skipped
    BY <2>1 DEF Skipped, AfterSelection
  <2>3. Live' => Pending' = Pending
    BY <2>1 DEF Live, Pending
  <2>4. SentInStep' /\ SkippedForGood' /\ SentInOrder'
    BY <2>1, <2>2, <2>3 DEF StepInv, SentInStep, SkippedForGood, SentInOrder, Live
  <2>. QED BY <2>1, <2>4, CommandKinds, FramesTyped
           DEF StepInv, AnswerFits, OnlyHltaIsUnanswered, LevelExists
<1>2. CASE FwDumpReader \/ FwTimeout \/ FwAnswered
  <2>1. /\ UNCHANGED <<host, fsm, mUid, mCol, out, cmd, air, card>>
        /\ fw' \in {"dumping", "idle"}
        /\ in' = in \/ in'.type = "READER_DUMP"
    BY <1>2, FramesTyped DEF FwDumpReader, FwTimeout, FwAnswered
  <2>. QED BY <2>1 DEF StepInv, AnswerFits, OnlyHltaIsUnanswered, LevelExists, SentInStep,
                       SkippedForGood, SentInOrder, Live, Pending, Skipped, AfterSelection
<1>3. CASE FwTransmit
  <2>1. PICK r \in CardReacts(cmd) : card' = r.card /\ rivals' = r.rivals /\ air' = r.ans
    BY <1>3 DEF FwTransmit
  <2>2. /\ in = NoFrame /\ fw' \in {"idle", "listen"}
        /\ UNCHANGED <<host, fsm, mUid, mCol, out, in, cmd>>
    BY <1>3 DEF FwTransmit
  <2>3. Proper(cmd, r)
    BY CardReactsProper DEF IInv, TypeOK, StepInv
  <2>4. Skipped' <=> Skipped
    BY <2>1, <2>2, <2>3 DEF Skipped, AfterSelection, Proper
  <2>5. Skipped => card'.level = card.level
    BY <1>3, <2>1, <2>3, SkippedLevelStays DEF Proper
  <2>6. AnswerFits' /\ LevelExists'
    BY <2>1, <2>2, <2>3, FramesTyped DEF AnswerFits, LevelExists, Proper
  <2>7. SentInStep' /\ SkippedForGood' /\ SentInOrder'
    BY <2>2, <2>4, <2>5 DEF StepInv, SentInStep, SkippedForGood, SentInOrder, Live, Pending
  <2>. QED BY <2>2, <2>6, <2>7 DEF StepInv, OnlyHltaIsUnanswered
<1>4. CASE FwAnswer
  <2>1. /\ fw = "listen" /\ air # Silence /\ in' = CardDump(air) /\ fw' = "answering"
        /\ UNCHANGED <<host, fsm, mUid, mCol, out, cmd, air, card>>
    BY <1>4 DEF FwAnswer
  <2>2. in'.ans = air
    BY <2>1 DEF CardDump
  <2>. QED BY <2>1, <2>2
           DEF StepInv, AnswerFits, OnlyHltaIsUnanswered, LevelExists, SentInStep,
               SkippedForGood, SentInOrder, Live, Pending, Skipped, AfterSelection
<1>. QED BY <1>1, <1>2, <1>3, <1>4 DEF Firmware

(* In every state of every session read14a is in step or has skipped.      *)
THEOREM StepInvariance == Spec => []StepInv
<1>1. IInv /\ IInv' /\ StepInv /\ [Next]_vars => StepInv'
  <2>. SUFFICES ASSUME IInv, IInv', StepInv, [Next]_vars PROVE StepInv'
    OBVIOUS
  <2>1. CASE Host
    BY <2>1, HostKeepsStep
  <2>2. CASE Firmware
    BY <2>2, FirmwareKeepsStep
  <2>3. CASE UNCHANGED vars
    BY <2>3 DEF vars, StepInv, AnswerFits, OnlyHltaIsUnanswered, LevelExists, SentInStep,
                SkippedForGood, SentInOrder, Live, Pending, Skipped, AfterSelection
  <2>. QED BY <2>1, <2>2, <2>3 DEF Next
<1>. QED BY InitStepInv, <1>1, Invariance, PTL DEF Spec

(* The answer read14a is handed is the one its state was written for, in   *)
(* any session and for any card, until read14a itself skips one.           *)
THEOREM InStep == Spec => []AnswerInStep
<1>1. IInv /\ StepInv => AnswerInStep
  <2>. SUFFICES ASSUME IInv, StepInv, ~Skipped, host = "recv", in.type = "CARD_DUMP"
                PROVE  <<in.ans.kind, in.ans.level>> = Expected[fsm]
    BY DEF AnswerInStep
  <2>1. in.ans # Silence /\ Fits(cmd, in.ans, card) /\ Live /\ Pending = cmd
    BY DEF StepInv, AnswerFits, Live, Pending
  <2>2. /\ fsm = "REQWUP"            => cmd = Reqa
        /\ fsm = "SELC_ONE"          => Round(cmd, 1)
        /\ fsm = "SELC_ONE_CONTINUE" => WholeSelect(cmd, 1)
        /\ fsm = "SELC_TWO"          => cmd = SelAll(2)
        /\ fsm = "SELC_TWO_CONTINUE" => WholeSelect(cmd, 2)
        /\ fsm = "SELC_THREE"        => cmd = SelAll(3)
        /\ fsm = "XMIT_RATS"         => cmd = Ratsa
        /\ fsm = "CARD_HALT"         => cmd \in {GetData, Hlta}
        /\ fsm = "DISCONNECT"        => cmd \in {Hlta, Disconnect}
    BY <2>1 DEF StepInv, SentInStep
  <2>3. fsm \in FsmStates
    BY DEF IInv, TypeOK
  <2>. QED BY <2>1, <2>2, <2>3, CommandKinds
           DEF Fits, AsksUid, AsksSak, Round, PartSelect, WholeSelect, Expected, FsmStates
<1>. QED BY <1>1, Invariance, StepInvariance, PTL
-----------------------------------------------------------------------------
(* The refinement of PcdSession.                                           *)

(* A command that follows another one is a step of PcdSession.             *)
PhaseOf(c) ==
  CASE c.kind = "none"   -> "start"
    [] c.kind = "REQA"   -> "request"
    [] c.kind = "SELALL" -> "anticol"
    [] c.kind = "SELUID" -> IF "XMIT_BITS" \in c.flags THEN "anticol" ELSE "select"
    [] c.kind = "RATS"   -> "rats"
    [] c.kind = "DATA"   -> "data"
    [] c.kind = "HLTA"   -> "halt"
    [] c.kind = "OFF"    -> "off"

LEMMA PhaseFacts ==
  /\ Phase = PhaseOf(cmd)
  /\ PhaseOf(NoCmd) = "start" /\ PhaseOf(Reqa) = "request" /\ PhaseOf(Ratsa) = "rats"
  /\ PhaseOf(GetData) = "data" /\ PhaseOf(Hlta) = "halt" /\ PhaseOf(Disconnect) = "off"
  /\ \A l : PhaseOf(SelAll(l)) = "anticol"
  /\ \A c, l : Round(c, l) => PhaseOf(c) = "anticol" /\ c.level = l
  /\ \A c, l : WholeSelect(c, l) => PhaseOf(c) = "select" /\ c.level = l
<1>1. \A c, l : PartSelect(c, l) => PhaseOf(c) = "anticol" /\ c.level = l
  BY DEF PartSelect, PhaseOf
<1>2. \A c, l : WholeSelect(c, l) => PhaseOf(c) = "select" /\ c.level = l
  BY DEF WholeSelect, PhaseOf
<1>3. Phase = PhaseOf(cmd)
  BY DEF Phase, PhaseOf
<1>4. \A l : PhaseOf(SelAll(l)) = "anticol" /\ SelAll(l).level = l
  BY CommandKinds DEF PhaseOf
<1>5. /\ PhaseOf(NoCmd) = "start" /\ PhaseOf(Reqa) = "request" /\ PhaseOf(Ratsa) = "rats"
      /\ PhaseOf(GetData) = "data" /\ PhaseOf(Hlta) = "halt" /\ PhaseOf(Disconnect) = "off"
  BY CommandKinds DEF PhaseOf
<1>. QED BY <1>1, <1>2, <1>3, <1>4, <1>5 DEF Round

(* Every step is one of PcdSession, or leaves it where it is: the commands *)
(* of a session follow each other in its order, until an answer is         *)
(* skipped.                                                                *)
LEMMA StepRefines ==
  ASSUME IInv, StepInv, [Next]_vars
  PROVE  [Session!Next]_(Session!vars)
<1>. DEFINE phase == IF Skipped THEN "anticol" ELSE Phase
            level == IF Skipped THEN card.level ELSE cmd.level
<1>1. CASE Host
  <2>1. UNCHANGED <<cmd, card>>
    BY <1>1 DEF Host, HostReaderDump, HostReqWup, HostSelcOne, HostSelcOneContinue,
                HostSelcTwo, HostSelcTwoContinue, HostSelcThree, HostXmitRats,
                HostCardHalt, HostDisconnect, SelectMajor, SelectMinor, Receive
  <2>2. SkipsAtUid
    BY <1>1, HostKeepsStep
  <2>3. UNCHANGED <<phase, level>>
    <3>1. CASE Skipped' <=> Skipped
      <4>1. Phase' = Phase
        BY <2>1 DEF Phase
      <4>2. CASE Skipped /\ Skipped'
        BY <2>1, <4>2
      <4>3. CASE ~Skipped /\ ~Skipped'
        BY <2>1, <4>1, <4>3
      <4>. QED BY <3>1, <4>2, <4>3
    <3>2. CASE ~Skipped /\ cmd = SelAll(card.level)
      BY <2>1, <3>2, PhaseFacts, CommandKinds DEF Phase
    <3>. QED BY <2>2, <3>1, <3>2 DEF SkipsAtUid
  <2>. QED BY <2>3 DEF Session!vars
<1>2. CASE FwFetch
  <2>1. /\ host = "xmit" /\ cmd' = out /\ UNCHANGED <<fsm, mCol, card>>
    BY <1>2 DEF FwFetch
  <2>2. Skipped' <=> Skipped
    BY <2>1 DEF Skipped, AfterSelection
  <2>3. CASE Skipped
    BY <2>1, <2>2, <2>3 DEF Session!vars
  <2>4. CASE ~Skipped
    <3>1. phase = PhaseOf(cmd) /\ level = cmd.level
          /\ phase' = PhaseOf(out) /\ level' = out.level
      BY <2>1, <2>2, <2>4 DEF Phase, PhaseOf
    <3>2. \/ cmd = NoCmd /\ out = Reqa
          \/ cmd = Reqa /\ out = SelAll(1)
          \/ Round(cmd, 1) /\ (PartSelect(out, 1) \/ WholeSelect(out, 1))
          \/ WholeSelect(cmd, 1) /\ out = SelAll(2)
          \/ cmd = SelAll(2) /\ WholeSelect(out, 2)
          \/ WholeSelect(cmd, 2) /\ out = SelAll(3)
          \/ \E l \in 1..2 : WholeSelect(cmd, l) /\ out \in {Ratsa, Hlta}
          \/ cmd = Ratsa /\ out = GetData
          \/ cmd = GetData /\ out = Hlta
          \/ cmd = Hlta /\ out = Disconnect
      BY <2>1, <2>4 DEF StepInv, SentInOrder
    <3>. HIDE DEF phase, level
    <3>3. \/ phase = "start" /\ phase' = "request" /\ level' = 0
          \/ phase = "request" /\ phase' = "anticol" /\ level' = 1
          \/ phase = "anticol" /\ phase' \in {"anticol", "select"} /\ level' = level
          \/ phase = "select" /\ phase' = "anticol" /\ level < 3 /\ level' = level + 1
          \/ phase = "select" /\ phase' \in {"rats", "halt"} /\ level' = 0
          \/ phase = "rats" /\ phase' = "data" /\ level' = 0
          \/ phase = "data" /\ phase' = "halt" /\ level' = 0
          \/ phase = "halt" /\ phase' = "off" /\ level' = 0
      BY <3>1, <3>2, PhaseFacts, CommandKinds DEF Round
    <3>4. Session!Next
      BY <3>3 DEF phase, level, Session!Next, Session!Request, Session!Anticollide,
                  Session!Select, Session!Rats, Session!Exchange, Session!Halt, Session!Off
    <3>. QED BY <3>4
  <2>. QED BY <2>3, <2>4
<1>3. CASE FwTransmit
  <2>1. UNCHANGED <<fsm, mCol, cmd>>
    BY <1>3 DEF FwTransmit
  <2>2. PICK r \in CardReacts(cmd) : card' = r.card
    BY <1>3 DEF FwTransmit
  <2>3. Proper(cmd, r)
    BY CardReactsProper DEF IInv, TypeOK, StepInv
  <2>4. (Skipped' <=> Skipped) /\ (Skipped => card'.level = card.level)
    BY <1>3, <2>1, <2>2, <2>3, SkippedLevelStays DEF Skipped, AfterSelection, Proper
  <2>5. Phase' = Phase
    BY <2>1 DEF Phase
  <2>6. CASE Skipped /\ Skipped'
    BY <2>4, <2>6 DEF Session!vars
  <2>7. CASE ~Skipped /\ ~Skipped'
    BY <2>1, <2>5, <2>7 DEF Session!vars
  <2>. QED BY <2>4, <2>6, <2>7
<1>4. CASE FwDumpReader \/ FwAnswer \/ FwTimeout \/ FwAnswered \/ UNCHANGED vars
  <2>1. UNCHANGED <<fsm, mCol, cmd, card>>
    BY <1>4 DEF FwDumpReader, FwAnswer, FwTimeout, FwAnswered, vars
  <2>. QED BY <2>1 DEF Session!vars, Phase, Skipped, AfterSelection
<1>. QED BY <1>1, <1>2, <1>3, <1>4 DEF Next, Firmware

THEOREM Refinement == Spec => SessionOrder
<1>1. Init => Session!Init
  BY CommandKinds DEF Init, Session!Init, Skipped, AfterSelection, Phase
<1>. QED BY <1>1, StepRefines, Invariance, StepInvariance, PTL
         DEF Spec, SessionOrder, Session!Spec
-----------------------------------------------------------------------------
(* SELECTs with at most two cards in the field.  A collision then comes    *)
(* once per level, and what set_uid stored at it, the bits it announced    *)
(* and what the card still has to send fit together.                       *)

(* What a UID answer to the command executed brings.                       *)
UidFits(a) ==
  a.kind = "UID" =>
    /\ cmd.kind = "SELALL" => a.len = 5
    /\ cmd.kind = "SELUID" => /\ WellFormed(cmd) /\ a.col = 0
                              /\ a.len = 5 - (cmd.bits - 16) \div 8

(* What read14a remembers of the collision it is resolving.                *)
Resolving ==
  Live /\ fsm \in {"REQWUP", "SELC_ONE"} =>
    \/ mCol = 0 /\ mUid = 0 /\ (fsm = "SELC_ONE" => Pending = SelAll(1))
    \/ /\ fsm = "SELC_ONE" /\ mCol \in 1..32 /\ mUid = mCol \div 8 + 1
       /\ PartSelect(Pending, 1)
       /\ Pending.bits = mCol + 17 /\ Pending.nvb = NvbBits(mCol)

WholeInv ==
  /\ rivals <= 1 /\ Resolving /\ SelectIsWhole
  /\ fw = "listen" => UidFits(air)
  /\ in.type = "CARD_DUMP" => UidFits(in.ans) /\ in.arg0 = in.ans.len

(* Without a collision the four bytes of a level make a whole SELECT.      *)
LEMMA SetUidPlain ==
  ASSUME NEW u \in Nat
  PROVE  LET r == SetUid(u, 0, 4, 0) IN r.thrown \/ r.len = 7
<1>1. CASE u > 10
  BY <1>1 DEF SetUid, Throw
<1>2. CASE u <= 10
  BY <1>2 DEF SetUid, Whole
<1>. QED BY <1>1, <1>2

(* A first collision leaves the bytes up to it.                            *)
LEMMA SetUidCollision ==
  ASSUME NEW cp \in 1..40
  PROVE  LET r == SetUid(0, 0, 4, cp)
         IN  r.thrown \/ (cp <= 32 /\ r.uid = cp \div 8 + 1 /\ r.nvb = NvbBits(cp))
<1>1. CASE cp > 32
  <2>1. Short(4, cp)
    BY <1>1 DEF Short
  <2>. QED BY <2>1 DEF SetUid, Throw
<1>2. CASE cp <= 32
  BY <1>2 DEF SetUid, Short, Partial
<1>. QED BY <1>1, <1>2

(* The rest of the UID completes them to a whole SELECT, for any collision *)
(* whose partial SELECT a card answers.                                    *)
LEMMA SetUidResolved ==
  ASSUME NEW m \in 1..32, NvbBits(m) = m + 17, (m + 17) % 8 # 0
  PROVE  LET n == 5 - (m + 1) \div 8 - 1
             r == SetUid(m \div 8 + 1, m, n, 0)
         IN  ~r.thrown /\ r.len = 7
<1>. DEFINE d == m \div 8
<1>1. d \in 0..4 /\ m % 8 = m - 8 * d /\ m % 8 \in 0..7
  <2>1. m \in Nat /\ m <= 32
    OBVIOUS
  <2>. QED BY <2>1
<1>2. 8 * (Or2(d) + 2) + (m % 8) + 1 = m + 17
  <2>1. NvbBits(m) = 8 * (Or2(m \div 8) + 2) + (m % 8) + 1
    BY DEF NvbBits
  <2>. QED BY <2>1
<1>3. Or2(d) = d
  <2>1. Or2(d) \in Nat
    BY <1>1 DEF Or2
  <2>. HIDE DEF d
  <2>. QED BY <1>1, <1>2, <2>1
<1>4. d \in {2, 3}
  <2>. HIDE DEF d
  <2>. QED BY <1>1, <1>3 DEF Or2
<1>5. m % 8 # 7
  BY <1>1
<1>6. (m + 1) \div 8 = d
  BY <1>1, <1>5
<1>7. 5 - (m + 1) \div 8 - 1 = 4 - d
  BY <1>1, <1>6
<1>. HIDE DEF d
<1>8. Merged(d + 1, 4 - d) = 4 /\ 4 - d # 0 /\ d + 1 <= 10 /\ d + 1 # 0
  BY <1>4 DEF Merged
<1>9. SetUid(d + 1, m, 4 - d, 0) = Whole(7, 4)
  BY <1>8 DEF SetUid
<1>. QED BY <1>7, <1>9 DEF d, Whole

(* With one rival at most a card's answer resolves a collision.            *)
LEMMA CardReactsUid ==
  ASSUME card \in Cards, rivals \in Nat, rivals <= 1, NEW c \in Commands,
         NEW r \in CardReacts(c)
  PROVE  /\ r.rivals \in Nat /\ r.rivals <= 1
         /\ r.ans.kind = "UID" =>
              /\ c.kind = "SELALL" => r.ans.len = 5
              /\ c.kind = "SELUID" => /\ WellFormed(c) /\ r.ans.col = 0
                                      /\ r.ans.len = 5 - (c.bits - 16) \div 8
<1>1. ASSUME NEW st, NEW l, NEW a, a.kind # "UID", r = Reaction(st, l, rivals, a)
      PROVE  r.rivals <= 1 /\ r.rivals \in Nat /\ r.ans.kind # "UID"
  BY <1>1, ReactionFields
<1>2. /\ Silence.kind # "UID"
      /\ \A k \in {"ATQA", "SAK", "ATS", "DATA"} : \A l, len, col, b :
            Answer(k, l, len, col, b).kind # "UID"
  BY DEF Silence, Answer
<1>3. CASE r \in AllAnswer /\ c.kind = "SELALL"
  <2>1. PICK col : r = Reaction("ready", card.level, rivals, Uid(5, col))
    BY <1>3 DEF AllAnswer
  <2>. QED BY <1>3, <2>1, ReactionFields DEF Uid, Answer
<1>4. CASE r \in PartialAnswer(c) /\ c.kind = "SELUID" /\ WellFormed(c)
  <2>1. 1..rivals-1 = {}
    OBVIOUS
  <2>2. r = Reaction("ready", card.level, 0, Uid(5 - (c.bits - 16) \div 8, 0))
    BY <1>4, <2>1 DEF PartialAnswer
  <2>. QED BY <1>4, <2>2, ReactionFields DEF Uid, Answer
<1>5. CASE r = Ignored
  BY <1>1, <1>2, <1>5 DEF Ignored
<1>6. CASE r = Sak
  <2>1. CASE card.level < card.parts
    BY <1>1, <1>2, <1>6, <2>1 DEF Sak
  <2>2. CASE ~(card.level < card.parts)
    BY <1>1, <1>2, <1>6, <2>2 DEF Sak
  <2>. QED BY <2>1, <2>2
<1>7. CASE \E st, l : \/ r = Reaction(st, l, rivals, Answer("ATQA", 0, 2, 0, "any"))
                      \/ r = Reaction(st, l, rivals, Answer("ATS", 0, 12, 0, "any"))
                      \/ r = Reaction(st, l, rivals, Answer("DATA", 0, 9, 0, "any"))
                      \/ r = Reaction(st, l, rivals, Silence)
  BY <1>1, <1>2, <1>7
<1>. QED BY <1>3, <1>4, <1>5, <1>6, <1>7 DEF CardReacts
-----------------------------------------------------------------------------
LEMMA InitWholeInv == ASSUME MaxRivals <= 1 PROVE Init => WholeInv
<1>. SUFFICES ASSUME Init PROVE WholeInv
  OBVIOUS
<1>1. rivals <= 1
  BY ConstantsOK DEF Init
<1>2. SelectIsWhole
  BY CommandKinds DEF Init, SelectIsWhole
<1>. QED BY <1>1, <1>2, FramesTyped DEF Init, WholeInv, Resolving

(* After a step that takes an answer only the SELECT sent and what is      *)
(* remembered have to be looked at again.                                  *)
LEMMA WholeAnswerTaken ==
  ASSUME IInv, StepInv, WholeInv, Receive("CARD_DUMP"), Resolving',
         out' = out \/ (out'.kind = "SELUID" /\ "APPEND_CRC" \in out'.flags => out'.len = 7)
  PROVE  WholeInv'
<1>1. in' = NoFrame /\ UNCHANGED <<fw, cmd, air, card, rivals>> /\ fw = "answering"
  BY AnswerTaken DEF Receive
<1>2. SelectIsWhole'
  BY <1>1 DEF WholeInv, SelectIsWhole
<1>. QED BY <1>1, <1>2, FramesTyped DEF WholeInv

(* select_major at a level whose answer came without a collision before.   *)
LEMMA SelectMajorWhole ==
  ASSUME IInv, StepInv, WholeInv, NEW l \in 1..3, NEW next, SelectMajor(l, next),
         mCol = 0, cmd = SelAll(l)
  PROVE  out' = out \/ (out'.kind = "SELUID" /\ "APPEND_CRC" \in out'.flags => out'.len = 7)
<1>. DEFINE r == SetUid(mUid, mCol, in.arg0 - 1, in.ans.col)
<1>1. Receive("CARD_DUMP")
  BY DEF SelectMajor
<1>2. Fits(cmd, in.ans, card) /\ in.ans # Silence /\ in.type = "CARD_DUMP"
  BY <1>1, AnswerTaken DEF Receive
<1>3. in.arg0 - 1 = 4
  BY <1>2, CommandKinds DEF WholeInv, UidFits, Fits, AsksSak
<1>4. CASE r.thrown
  BY <1>4 DEF SelectMajor
<1>5. CASE ~r.thrown
  <2>1. out' = SelUid(l, r, in.ans.col)
    BY <1>5 DEF SelectMajor, Transmit
  <2>2. CASE in.ans.col = 0
    <3>1. mUid \in Nat
      BY DEF IInv, TypeOK
    <3>2. r.len = 7
      BY <1>3, <1>5, <2>2, <3>1, SetUidPlain
    <3>. HIDE DEF r
    <3>. QED BY <2>1, <2>2, <3>2 DEF SelUid, Cmd
  <2>3. CASE in.ans.col # 0
    <3>. HIDE DEF r
    <3>. QED BY <2>1, <2>3 DEF SelUid, Cmd
  <2>. QED BY <2>2, <2>3
<1>. QED BY <1>4, <1>5

(* Every step of read14a sends whole SELECTs.                              *)
LEMMA HostWhole == ASSUME IInv, StepInv, WholeInv, Host PROVE WholeInv'
<1>1. CASE HostReaderDump
  <2>1. /\ in' = NoFrame
        /\ UNCHANGED <<host, fsm, mUid, mCol, out, fw, cmd, field, air, card, rivals>>
    BY <1>1 DEF HostReaderDump, Receive
  <2>. QED BY <2>1, FramesTyped DEF WholeInv, Resolving, SelectIsWhole, UidFits, Live, Pending
<1>2. CASE HostReqWup
  <2>1. /\ Receive("CARD_DUMP") /\ host' = "xmit" /\ out' = SelAll(1) /\ fsm = "REQWUP"
        /\ UNCHANGED <<mUid, mCol>>
    BY <1>2 DEF HostReqWup, Transmit
  <2>2. Resolving'
    BY <2>1, AnswerTaken DEF WholeInv, Resolving, Pending
  <2>. QED BY <2>1, <2>2, CommandKinds, WholeAnswerTaken
<1>3. CASE HostSelcOne
  <2>. DEFINE next == IF in.ans.col = 0 THEN "SELC_ONE_CONTINUE" ELSE "SELC_ONE"
              r == SetUid(mUid, mCol, in.arg0 - 1, in.ans.col)
  <2>1. fsm = "SELC_ONE" /\ SelectMajor(1, next)
    BY <1>3 DEF HostSelcOne
  <2>2. Receive("CARD_DUMP")
    BY <2>1 DEF SelectMajor
  <2>3. /\ Live /\ Pending = cmd /\ Fits(cmd, in.ans, card) /\ in.ans # Silence
        /\ UidFits(in.ans) /\ in.arg0 = in.ans.len
    BY <2>2, AnswerTaken DEF WholeInv, Receive
  <2>4. CASE r.thrown
    <3>1. host' = "thrown" /\ out' = out
      BY <2>1, <2>4 DEF SelectMajor
    <3>. QED BY <2>2, <3>1, WholeAnswerTaken DEF Resolving, Live
  <2>5. CASE ~r.thrown /\ mCol = 0
    <3>1. mUid = 0 /\ cmd = SelAll(1)
      BY <2>1, <2>3, <2>5 DEF WholeInv, Resolving
    <3>2. in.ans.kind = "UID" /\ in.arg0 - 1 = 4
      BY <2>3, <3>1, CommandKinds DEF UidFits, Fits, AsksUid, AsksSak
    <3>3. /\ mUid' = mUid + r.uid /\ fsm' = next /\ host' = "xmit"
          /\ out' = SelUid(1, r, in.ans.col) /\ mCol' = NextCol(in.ans.col)
      BY <2>1, <2>5 DEF SelectMajor, Transmit
    <3>4. CASE in.ans.col = 0
      BY <2>1, <2>2, <2>5, <3>1, <3>3, <3>4, SelectMajorWhole, WholeAnswerTaken DEF Resolving
    <3>5. CASE in.ans.col # 0
      <4>. DEFINE cp == in.ans.col
      <4>1. cp \in Nat /\ cp >= 1
        BY <3>5 DEF IInv, TypeOK, Frames, Answers
      <4>2. cp <= 40
        <5>2. r = IF cp > 40 \/ Short(4, cp) THEN Throw
                  ELSE Partial(cp \div 8 + 3, cp \div 8 + 1, cp)
          BY <2>5, <3>1, <3>2, <3>5 DEF SetUid
        <5>. QED BY <2>5, <4>1, <5>2 DEF Throw
      <4>3. cp <= 32 /\ r.uid = cp \div 8 + 1 /\ r.nvb = NvbBits(cp)
        <5>1. r = SetUid(0, 0, 4, cp)
          BY <2>5, <3>1, <3>2
        <5>2. cp \in 1..40
          BY <4>1, <4>2
        <5>. HIDE DEF r, cp
        <5>. QED BY <2>5, <5>1, <5>2, SetUidCollision
      <4>4. mCol' = cp /\ fsm' = "SELC_ONE"
        BY <2>5, <3>3, <3>5 DEF NextCol
      <4>5. mUid' = cp \div 8 + 1
        BY <3>1, <3>3, <4>1, <4>3
      <4>6. PartSelect(out', 1) /\ out'.bits = cp + 17 /\ out'.nvb = NvbBits(cp)
        <5>. HIDE DEF r
        <5>1. out'.bits = 16 + cp + 1 /\ out'.nvb = r.nvb
          BY <3>3, <3>5 DEF SelUid, Cmd
        <5>2. 16 + cp + 1 = cp + 17
          BY <4>1
        <5>. QED BY <3>3, <3>5, <4>3, <5>1, <5>2, SelUidShape
      <4>7. Resolving'
        BY <3>3, <4>1, <4>3, <4>4, <4>5, <4>6 DEF Resolving, Pending
      <4>8. "APPEND_CRC" \notin out'.flags
        BY <4>6 DEF PartSelect
      <4>. QED BY <2>2, <4>7, <4>8, WholeAnswerTaken
    <3>. QED BY <3>4, <3>5
  <2>6. CASE mCol # 0
    <3>1. /\ mCol \in 1..32 /\ mUid = mCol \div 8 + 1 /\ PartSelect(cmd, 1)
          /\ cmd.bits = mCol + 17 /\ cmd.nvb = NvbBits(mCol)
      BY <2>1, <2>3, <2>6 DEF WholeInv, Resolving
    <3>2. cmd.kind = "SELUID" /\ in.ans.kind = "UID"
      BY <2>3, <3>1 DEF Fits, AsksUid, AsksSak, PartSelect
    <3>3. WellFormed(cmd) /\ in.ans.col = 0 /\ in.ans.len = 5 - (cmd.bits - 16) \div 8
      BY <2>3, <3>2 DEF UidFits
    <3>4. NvbBits(mCol) = mCol + 17 /\ (mCol + 17) % 8 # 0
      BY <3>1, <3>3 DEF WellFormed
    <3>5. cmd.bits - 16 = mCol + 1
      BY <3>1
    <3>6. in.arg0 - 1 = 5 - (mCol + 1) \div 8 - 1
      BY <2>3, <3>3, <3>5
    <3>7. ~r.thrown /\ r.len = 7
      BY <3>1, <3>3, <3>4, <3>6, SetUidResolved
    <3>8. /\ fsm' = "SELC_ONE_CONTINUE" /\ out' = SelUid(1, r, 0)
      BY <2>1, <3>3, <3>7 DEF SelectMajor, Transmit
    <3>9. out'.len = 7
      <4>. HIDE DEF r
      <4>. QED BY <3>7, <3>8 DEF SelUid, Cmd
    <3>. QED BY <2>2, <3>8, <3>9, WholeAnswerTaken DEF Resolving
  <2>. QED BY <2>4, <2>5, <2>6
<1>4. CASE HostSelcTwo \/ HostSelcThree
  <2>1. PICK l \in {2, 3} :
          /\ l = 2 => fsm = "SELC_TWO" /\ SelectMajor(2, "SELC_TWO_CONTINUE")
          /\ l = 3 => fsm = "SELC_THREE" /\ SelectMajor(3, "XMIT_RATS")
    BY <1>4 DEF HostSelcTwo, HostSelcThree
  <2>2. Receive("CARD_DUMP")
    BY <2>1 DEF SelectMajor
  <2>3. /\ Live /\ Pending = cmd /\ Fits(cmd, in.ans, card) /\ in.ans # Silence
    BY <2>2, AnswerTaken
  <2>4. cmd = SelAll(l) /\ ~Skipped
    <3>1. CASE Skipped
      <4>1. l = 3 /\ cmd = SelAll(3) /\ card.level = 2
        BY <2>1, <2>3, <3>1 DEF StepInv, SkippedForGood
      <4>. QED BY <2>3, <4>1, CommandKinds DEF Fits, AsksUid, AsksSak
    <3>2. CASE ~Skipped
      BY <2>1, <2>3, <3>2 DEF StepInv, SentInStep
    <3>. QED BY <3>1, <3>2
  <2>5. mCol = 0
    BY <2>1, <2>3, <2>4 DEF StepInv, SentInStep, Skipped
  <2>6. out' = out \/ (out'.kind = "SELUID" /\ "APPEND_CRC" \in out'.flags => out'.len = 7)
    BY <2>1, <2>4, <2>5, SelectMajorWhole
  <2>7. fsm' \notin {"REQWUP", "SELC_ONE"}
    <3>1. fsm' = fsm \/ fsm' \in {"SELC_TWO_CONTINUE", "XMIT_RATS"}
      BY <2>1 DEF SelectMajor
    <3>. QED BY <2>1, <3>1
  <2>. QED BY <2>2, <2>6, <2>7, WholeAnswerTaken DEF Resolving
<1>5. CASE HostSelcOneContinue \/ HostSelcTwoContinue
  <2>1. PICK l \in {2, 3}, deeper \in {"SELC_TWO", "SELC_THREE"} : SelectMinor(l, deeper)
    BY <1>5 DEF HostSelcOneContinue, HostSelcTwoContinue
  <2>2. /\ Receive("CARD_DUMP")
        /\ \/ fsm' = "CARD_HALT" /\ out' = Hlta
           \/ fsm' = deeper /\ out' = SelAll(l)
           \/ fsm' = "XMIT_RATS" /\ out' = Ratsa
    BY <2>1, SelectMinorSends
  <2>. QED BY <2>2, CommandKinds, WholeAnswerTaken DEF Resolving
<1>6. CASE HostXmitRats \/ HostCardHalt
  <2>1. /\ Receive("CARD_DUMP") /\ fsm' \in {"CARD_HALT", "DISCONNECT"}
        /\ out' \in {GetData, Hlta}
    BY <1>6 DEF HostXmitRats, HostCardHalt, Transmit
  <2>. QED BY <2>1, CommandKinds, WholeAnswerTaken DEF Resolving
<1>7. CASE HostDisconnect
  <2>1. /\ fsm = "DISCONNECT" /\ fsm' = fsm /\ in' = NoFrame /\ out' = Disconnect
        /\ UNCHANGED <<fw, cmd, air, rivals>>
    BY <1>7 DEF HostDisconnect, Receive, Transmit
  <2>2. SelectIsWhole'
    BY <2>1, CommandKinds DEF WholeInv, SelectIsWhole
  <2>. QED BY <2>1, <2>2, FramesTyped DEF WholeInv, Resolving, UidFits
<1>. QED BY <1>1, <1>2, <1>3, <1>4, <1>5, <1>6, <1>7 DEF Host

(* Every step of the firmware and the cards keeps what they rest on.       *)
LEMMA FirmwareWhole == ASSUME IInv, StepInv, WholeInv, Firmware PROVE WholeInv'
<1>1. CASE FwFetch
  <2>1. /\ host = "xmit" /\ in = NoFrame /\ in' = in /\ cmd' = out /\ out' = NoCmd
        /\ host' \in {"recv", "returned"} /\ fw' \in {"idle", "dump"}
        /\ UNCHANGED <<fsm, mUid, mCol, rivals>>
    BY <1>1 DEF FwFetch, IInv, TransmitMeetsIdle
  <2>2. SelectIsWhole'
    BY <2>1, CommandKinds DEF WholeInv, SelectIsWhole
  <2>3. Resolving'
    BY <2>1 DEF WholeInv, Resolving, Live, Pending
  <2>. QED BY <2>1, <2>2, <2>3, FramesTyped DEF WholeInv
<1>2. CASE FwDumpReader \/ FwTimeout \/ FwAnswered
  <2>1. /\ UNCHANGED <<host, fsm, mUid, mCol, out, cmd, air, rivals>>
        /\ fw' \in {"dumping", "idle"}
        /\ in' = in \/ in'.type = "READER_DUMP"
    BY <1>2, FramesTyped DEF FwDumpReader, FwTimeout, FwAnswered
  <2>. QED BY <2>1 DEF WholeInv, Resolving, SelectIsWhole, UidFits, Live, Pending
<1>3. CASE FwTransmit
  <2>1. PICK r \in CardReacts(cmd) : card' = r.card /\ rivals' = r.rivals /\ air' = r.ans
    BY <1>3 DEF FwTransmit
  <2>2. /\ in = NoFrame /\ UNCHANGED <<host, fsm, mUid, mCol, out, in, cmd>>
    BY <1>3 DEF FwTransmit
  <2>3. /\ r.rivals <= 1
        /\ r.ans.kind = "UID" =>
             /\ cmd.kind = "SELALL" => r.ans.len = 5
             /\ cmd.kind = "SELUID" => /\ WellFormed(cmd) /\ r.ans.col = 0
                                       /\ r.ans.len = 5 - (cmd.bits - 16) \div 8
    BY CardReactsUid DEF IInv, TypeOK, WholeInv
  <2>4. UidFits(air)'
    BY <2>1, <2>2, <2>3 DEF UidFits, WellFormed
  <2>5. Resolving' /\ SelectIsWhole'
    BY <2>2 DEF WholeInv, Resolving, SelectIsWhole, Live, Pending
  <2>. QED BY <2>1, <2>2, <2>3, <2>4, <2>5, FramesTyped DEF WholeInv
<1>4. CASE FwAnswer
  <2>1. /\ fw = "listen" /\ in' = CardDump(air) /\ fw' = "answering"
        /\ UNCHANGED <<host, fsm, mUid, mCol, out, cmd, rivals>>
    BY <1>4 DEF FwAnswer
  <2>2. in'.ans = air /\ in'.arg0 = air.len
    BY <2>1 DEF CardDump
  <2>. QED BY <2>1, <2>2 DEF WholeInv, Resolving, SelectIsWhole, UidFits, Live, Pending
<1>. QED BY <1>1, <1>2, <1>3, <1>4 DEF Firmware

(* With at most two cards in the field every SELECT sent with a CRC is     *)
(* whole, wherever their UIDs collide and whatever is lost.  With three, a *)
(* second collision at a level leaves set_uid with the wrong length.       *)
THEOREM WholeSelects == ASSUME MaxRivals <= 1 PROVE Spec => []SelectIsWhole
<1>1. IInv /\ StepInv /\ WholeInv /\ [Next]_vars => WholeInv'
  <2>. SUFFICES ASSUME IInv, StepInv, WholeInv, [Next]_vars PROVE WholeInv'
    OBVIOUS
  <2>1. CASE Host
    BY <2>1, HostWhole
  <2>2. CASE Firmware
    BY <2>2, FirmwareWhole
  <2>3. CASE UNCHANGED vars
    BY <2>3 DEF vars, WholeInv, Resolving, SelectIsWhole, UidFits, Live, Pending
  <2>. QED BY <2>1, <2>2, <2>3 DEF Next
<1>2. WholeInv => SelectIsWhole
  BY DEF WholeInv
<1>3. Init => WholeInv
  BY InitWholeInv
<1>. QED BY <1>1, <1>2, <1>3, Invariance, StepInvariance, PTL DEF Spec
-----------------------------------------------------------------------------
(* A session that has returned left the reader off: Disconnect was the     *)
(* last command, and the firmware has nothing more to fetch.               *)
ReturnedOff == host = "returned" => ~field /\ fw = "idle" /\ in = NoFrame

(* FwFetch is the only step to "returned", and no step leaves it.          *)
LEMMA ReturnedStaysOff ==
  ASSUME IInv, ReturnedOff, [Next]_vars
  PROVE  ReturnedOff' /\ (host = "returned" => (host = "returned")')
<1>1. CASE FwFetch
  <2>1. /\ host = "xmit" /\ in = NoFrame /\ in' = in
        /\ host' = (IF out = Disconnect THEN "returned" ELSE "recv")
        /\ field' = (("ENABLE" \in out.flags \/ field) /\ "DISABLE" \notin out.flags)
        /\ fw' = (IF "DISABLE" \in out.flags THEN "idle" ELSE "dump")
    BY <1>1 DEF FwFetch, IInv, TransmitMeetsIdle
  <2>2. Disconnect.flags = {"DISABLE"}
    BY DEF Disconnect, Cmd
  <2>3. CASE out = Disconnect
    <3>1. "DISABLE" \in out.flags
      BY <2>2, <2>3
    <3>. QED BY <2>1, <3>1 DEF ReturnedOff
  <2>4. CASE out # Disconnect
    BY <2>1, <2>4 DEF ReturnedOff
  <2>. QED BY <2>3, <2>4
<1>2. CASE FwDumpReader \/ FwTransmit \/ FwAnswer \/ FwTimeout \/ FwAnswered
  <2>1. host' = host /\ fw # "idle"
    BY <1>2 DEF FwDumpReader, FwTransmit, FwAnswer, FwTimeout, FwAnswered
  <2>. QED BY <2>1 DEF ReturnedOff
<1>3. CASE Host
  <2>1. host = "recv"
    BY <1>3 DEF Host, HostReaderDump, HostReqWup, HostSelcOne, HostSelcOneContinue,
      HostSelcTwo, HostSelcTwoContinue, HostSelcThree, HostXmitRats, HostCardHalt,
      HostDisconnect, SelectMajor, SelectMinor, Receive
  <2>2. host' \in {"recv", "xmit", "thrown"}
    BY <1>3, <2>1 DEF Host, HostReaderDump, HostReqWup, HostSelcOne, HostSelcOneContinue,
      HostSelcTwo, HostSelcTwoContinue, HostSelcThree, HostXmitRats, HostCardHalt,
      HostDisconnect, SelectMajor, SelectMinor, Transmit
  <2>. QED BY <2>1, <2>2 DEF ReturnedOff
<1>4. CASE UNCHANGED vars
  BY <1>4 DEF vars, ReturnedOff
<1>. QED BY <1>1, <1>2, <1>3, <1>4 DEF Next, Firmware

(* Once read14a has returned, the field is off and stays off, and the      *)
(* firmware stays in its idle loop, whatever the cards did.                *)
THEOREM FieldStaysOff == Spec => FieldOffAfterReturn
<1>1. Init => ReturnedOff
  BY DEF Init, ReturnedOff
<1>2. IInv /\ ReturnedOff /\ [Next]_vars => ReturnedOff'
  BY ReturnedStaysOff
<1>3. IInv /\ ReturnedOff /\ (host = "returned") /\ [Next]_vars => (host = "returned")'
  BY ReturnedStaysOff
<1>4. ReturnedOff /\ (host = "returned") => ~field /\ fw = "idle"
  BY DEF ReturnedOff
<1>. QED BY <1>1, <1>2, <1>3, <1>4, Invariance, PTL DEF Spec, FieldOffAfterReturn
=============================================================================
