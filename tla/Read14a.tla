------------------------------- MODULE Read14a -------------------------------
(***************************************************************************)
(* The ISO 14443-A reader session of nfcdump: pm3_t::read14a on the host,  *)
(* ReaderIso14443aReader in the Proxmark firmware, and the cards in the    *)
(* field (external, modelled by the answers the two programs rely on).     *)
(*                                                                         *)
(* A UsbCommand is 544 bytes and both directions are blocking: the host's  *)
(* transmit ends when the firmware reads the command, the firmware's       *)
(* usb_write ends when the host reads the frame.  Each direction is hence  *)
(* a rendezvous, `out' and `in' hold what one side is offering.            *)
(* UIDs are abstracted to their length in bytes, answers to their kind,    *)
(* length, collision position and the class of their first byte.           *)
(***************************************************************************)
EXTENDS Naturals

CONSTANTS
  Parts,         \* how many cascade levels the card's UID may have
  Kinds,         \* card kinds: ISO 14443-4, type 2 (SAK 00), classic (SAK 08)
  MaxRivals,     \* how many more cards may be in the field
  CollidingAt,   \* cascade levels at which the cards' UIDs may differ
  CollisionPos,  \* bit positions at which the demodulator may see a collision
  Loss           \* may an answer be lost on the air?

ASSUME ConstantsOK ==
  /\ Parts \subseteq 1..3 /\ Parts # {}
  /\ Kinds \subseteq {"iso4", "type2", "classic"} /\ Kinds # {}
  /\ MaxRivals \in Nat
  /\ CollidingAt \subseteq 1..3
  /\ CollisionPos \subseteq 1..40 /\ CollisionPos # {}
  /\ Loss \in BOOLEAN

VARIABLES
  host,    \* the host process: sending, receiving, returned or thrown
  fsm,     \* read14a's local fsm
  mUid,    \* length of pm3_t::m_uid
  mCol,    \* pm3_t::m_col
  out,     \* the command the host is transmitting, or NoCmd
  in,      \* the frame the firmware is writing, or NoFrame
  fw,      \* where ReaderIso14443aReader is
  cmd,     \* the command the firmware is executing or executed last
  field,   \* is the reader field on?
  air,     \* the cards' answer to cmd, or Silence
  card,    \* the card that ends up selected
  rivals   \* the other cards still answering

vars == <<host, fsm, mUid, mCol, out, in, fw, cmd, field, air, card, rivals>>
-----------------------------------------------------------------------------
(* Commands: the constructors of cmd.hpp. `bits' is arg[2], `len' arg[1];  *)
(* `nvb' counts the bits that byte 1 of a SELECT announces.                *)

Flags == {"ENABLE", "DISABLE", "APPEND_CRC", "NO_RESPONSE", "XMIT_BITS"}
Cmd(kind, level, flags, len, bits, nvb) ==
  [kind |-> kind, level |-> level, flags |-> flags, len |-> len,
   bits |-> bits, nvb |-> nvb]

NoCmd      == Cmd("none", 0, {}, 0, 0, 0)
Reqa       == Cmd("REQA", 0, {"ENABLE"}, 1, 7, 0)
SelAll(l)  == Cmd("SELALL", l, {}, 2, 0, 16)
Ratsa      == Cmd("RATS", 0, {"APPEND_CRC"}, 2, 0, 0)
GetData    == Cmd("DATA", 0, {"APPEND_CRC"}, 7, 0, 0)
Hlta       == Cmd("HLTA", 0, {"APPEND_CRC", "NO_RESPONSE"}, 2, 0, 0)
DisconnectBare == Cmd("OFF", 0, {}, 0, 0, 0)                     \* mutant
Disconnect == Cmd("OFF", 0, {"DISABLE"}, 0, 0, 0)

(* Answers and frames. `byte' is the SAK class of the first byte: "any"    *)
(* when that byte is not a SAK.                                            *)

SakClass == {"cascade", "complete", "invalid"}
Answer(kind, level, len, col, byte) ==
  [kind |-> kind, level |-> level, len |-> len, col |-> col, byte |-> byte]
Silence  == Answer("none", 0, 0, 0, "any")

NoFrame        == [type |-> "none", arg0 |-> 0, ans |-> Silence]
ReaderDump(n)  == [type |-> "READER_DUMP", arg0 |-> n, ans |-> Silence]
CardDump(a)    == [type |-> "CARD_DUMP", arg0 |-> a.len, ans |-> a]
-----------------------------------------------------------------------------
(* seluida_t::set_uid on lengths: `u' bytes stored before, a collision     *)
(* seen before at `prior' (0: none), `n' bytes received, collision now at  *)
(* `cp' (0: none).  `uid' is the stored length after, `len' the length of  *)
(* the frame, `nvb' the bits announced (byte_cnt is OR'ed into 0x20).      *)

Or2(b) == CASE b \in {0, 2} -> 2 [] b \in {1, 3} -> 3 [] b = 4 -> 6 [] OTHER -> 7
NvbBits(cp) == 8 * (Or2(cp \div 8) + 2) + (cp % 8) + 1

Whole(len, u)     == [thrown |-> FALSE, uid |-> u, len |-> len, nvb |-> 56]
Partial(len, u, cp) ==
  [thrown |-> FALSE, uid |-> u, len |-> len, nvb |-> NvbBits(cp)]
Untouched(u)      == [thrown |-> FALSE, uid |-> u, len |-> 0, nvb |-> 0]
Throw             == [thrown |-> TRUE, uid |-> 0, len |-> 0, nvb |-> 0]

Short(n, cp) == 8 * n < cp   \* "Mismatch between collision position and UID length"

MergedAll(u, n)  == u + n                                        \* mutant
Merged(u, n)     == u + n - 1  \* the first byte is merged into the last stored one

SetUid(u, prior, n, cp) ==
  CASE n = 0                     -> Untouched(u)
    [] n # 0 /\ u > 10           -> Throw
    [] n # 0 /\ u <= 10 /\ cp = 0 /\ prior # 0 ->
         IF u = 0 \/ Merged(u, n) < 4 THEN Throw
         ELSE Whole(IF Merged(u, n) > 5 THEN 6 ELSE Merged(u, n) + 3, Merged(u, n))
    [] n # 0 /\ u <= 10 /\ cp # 0 /\ prior # 0 ->
         IF u = 0 \/ cp > 40 \/ Short(n, cp) THEN Throw
         ELSE Partial(u + cp \div 8 + 3, u + cp \div 8 + 1, cp)
    [] n # 0 /\ u <= 10 /\ cp # 0 /\ prior = 0 ->
         IF cp > 40 \/ Short(n, cp) THEN Throw
         ELSE Partial(cp \div 8 + 3, cp \div 8 + 1, cp)
    [] OTHER                     -> IF n # 4 THEN Throw ELSE Whole(7, 4)

(* cmd_seluida_t::set_uid: the command around the frame.                   *)
SelUid(l, r, cp) ==
  IF cp = 0 THEN Cmd("SELUID", l, {"APPEND_CRC"}, r.len, 0, r.nvb)
  ELSE Cmd("SELUID", l, {"XMIT_BITS"}, r.len, 16 + cp + 1, r.nvb)
-----------------------------------------------------------------------------
(* The host.  A frame is taken and handled in one step: nothing else reads *)
(* or writes the session's variables between receive and the next call.    *)

Receive(type) ==
  /\ host = "recv" /\ in.type = type
  /\ in.arg0 # 0                     \* "0 >= arg[0]: continue"
  /\ in' = NoFrame
  /\ UNCHANGED <<fw, cmd, field, air, card, rivals>>

Transmit(c) == host' = "xmit" /\ out' = c

HostReaderDumpAlways ==                                          \* mutant
  /\ Receive("READER_DUMP")
  /\ UNCHANGED <<host, fsm, mUid, mCol, out>>
HostReaderDumpHalt ==                                            \* mutant
  /\ fsm # "DISCONNECT" /\ Receive("READER_DUMP")
  /\ IF fsm = "CARD_HALT" THEN Transmit(Disconnect) ELSE UNCHANGED <<host, out>>
  /\ UNCHANGED <<fsm, mUid, mCol>>
HostReaderDump ==
  /\ fsm # "DISCONNECT" /\ Receive("READER_DUMP")
  /\ UNCHANGED <<host, fsm, mUid, mCol, out>>

HostReqWup ==
  /\ fsm = "REQWUP" /\ Receive("CARD_DUMP")
  /\ fsm' = "SELC_ONE"
  /\ Transmit(SelAll(1))
  /\ UNCHANGED <<mUid, mCol>>

(* select_major answers an anticollision answer at level l with SELECT:    *)
(* `next' is the state a successful call leads to.  An exception leaves    *)
(* read14a, m_col has been assigned by then.                               *)
NextColLastGood(col) == col - 1                                  \* mutant
NextColKeep(col) == IF mCol = 0 THEN col ELSE mCol               \* mutant
NextCol(col) == IF col = 0 THEN 0 ELSE IF mCol = 0 THEN col ELSE mCol

SelectMajor(l, next) ==
  LET a == in.ans
      r == SetUid(mUid, mCol, in.arg0 - 1, a.col)
  IN  /\ Receive("CARD_DUMP")
      /\ mCol' = NextCol(a.col)
      /\ IF r.thrown
         THEN host' = "thrown" /\ UNCHANGED <<fsm, mUid, out>>
         ELSE /\ mUid' = mUid + r.uid
              /\ fsm' = next
              /\ Transmit(SelUid(l, r, a.col))

HostSelcOneAlways ==                                             \* mutant
  fsm = "SELC_ONE" /\ SelectMajor(1, "SELC_ONE_CONTINUE")
HostSelcOne ==
  /\ fsm = "SELC_ONE"
  /\ SelectMajor(1, IF in.ans.col = 0 THEN "SELC_ONE_CONTINUE" ELSE "SELC_ONE")
HostSelcTwo   == fsm = "SELC_TWO"   /\ SelectMajor(2, "SELC_TWO_CONTINUE")
HostSelcThree == fsm = "SELC_THREE" /\ SelectMajor(3, "XMIT_RATS")

(* select_minor reads a SAK: the next level, RATS, or HLTA when it is not  *)
(* valid.  Whatever frame comes in this state is read as a SAK.            *)
FirstByte(a) == IF a.byte = "any" THEN SakClass ELSE {a.byte}

SelectMinor(l, deeper) ==
  /\ Receive("CARD_DUMP")
  /\ \E sak \in FirstByte(in.ans) :
       \/ sak = "invalid"  /\ fsm' = "CARD_HALT" /\ Transmit(Hlta)
       \/ sak = "cascade"  /\ fsm' = deeper      /\ Transmit(SelAll(l))
       \/ sak = "complete" /\ fsm' = "XMIT_RATS" /\ Transmit(Ratsa)
  /\ UNCHANGED <<mUid, mCol>>

HostSelcOneContinueThree ==                                      \* mutant
  fsm = "SELC_ONE_CONTINUE" /\ SelectMinor(3, "SELC_TWO")
HostSelcOneContinue == fsm = "SELC_ONE_CONTINUE" /\ SelectMinor(2, "SELC_TWO")
HostSelcTwoContinue == fsm = "SELC_TWO_CONTINUE" /\ SelectMinor(3, "SELC_THREE")

HostXmitRats ==
  /\ fsm = "XMIT_RATS" /\ Receive("CARD_DUMP")
  /\ fsm' = "CARD_HALT"
  /\ Transmit(GetData)
  /\ UNCHANGED <<mUid, mCol>>

HostCardHalt ==
  /\ fsm = "CARD_HALT" /\ Receive("CARD_DUMP")
  /\ fsm' = "DISCONNECT"
  /\ Transmit(Hlta)
  /\ UNCHANGED <<mUid, mCol>>

(* In DISCONNECT the echo of HLTA ends the session, as would an answer.    *)
HostDisconnect ==
  /\ fsm = "DISCONNECT"
  /\ \E type \in {"READER_DUMP", "CARD_DUMP"} : Receive(type)
  /\ Transmit(Disconnect)
  /\ UNCHANGED <<fsm, mUid, mCol>>

Host ==
  \/ HostReaderDump \/ HostReqWup
  \/ HostSelcOne \/ HostSelcOneContinue \/ HostSelcTwo \/ HostSelcTwoContinue
  \/ HostSelcThree \/ HostXmitRats \/ HostCardHalt \/ HostDisconnect
-----------------------------------------------------------------------------
(* The firmware: AppMain's loop and ReaderIso14443aReader.                 *)

(* usb_read completes the host's transmit; after Disconnect read14a has    *)
(* nothing left to do.  OTFTA_ENABLE sets the reader up, OTFTA_DISABLE     *)
(* switches the FPGA off and returns at once.                              *)
FwFetch ==
  /\ fw = "idle" /\ host = "xmit"
  /\ cmd' = out /\ out' = NoCmd
  /\ host' = IF out = Disconnect THEN "returned" ELSE "recv"
  /\ field' = (("ENABLE" \in out.flags \/ field) /\ "DISABLE" \notin out.flags)
  /\ fw' = IF "DISABLE" \in out.flags THEN "idle" ELSE "dump"
  /\ UNCHANGED <<fsm, mUid, mCol, in, air, card, rivals>>

(* ReaderTransmitBitsPar first sends the host the bytes it will transmit.  *)
DumpLen(c) ==
  LET n    == c.len + (IF "APPEND_CRC" \in c.flags THEN 2 ELSE 0)
      bits == IF c.bits > 0 THEN c.bits ELSE 8 * n
  IN  IF bits < 8 THEN 1 ELSE (bits + 7) \div 8

FwDumpReader ==
  /\ fw = "dump"
  /\ in' = ReaderDump(DumpLen(cmd))
  /\ fw' = "dumping"                 \* in usb_write until the host has read it
  /\ UNCHANGED <<host, fsm, mUid, mCol, out, cmd, field, air, card, rivals>>

(* The cards.  A SELECT with a part of the UID is answered when its NVB    *)
(* announces the bits it carries; what a longer buffer than those bits     *)
(* holds is not tracked, so it may be answered or not.  A frame a card     *)
(* does not expect makes it fall back to IDLE.                             *)
Reaction(state, level, others, ans) ==
  [card |-> [card EXCEPT !.state = state, !.level = level],
   rivals |-> others, ans |-> ans]
Ignored == Reaction(IF card.state \in {"ready", "active"} THEN "idle" ELSE card.state,
                    card.level, rivals, Silence)

AtLevel(c) == card.state = "ready" /\ card.level = c.level
Uid(len, col) == Answer("UID", card.level, len, col, "any")

(* Rivals whose UID is the card's up to this level may differ from it in a *)
(* later one.                                                              *)
Deeper == \E l \in CollidingAt : l > card.level

AllAnswer ==
  { Reaction("ready", card.level, rivals, Uid(5, col)) :
      col \in IF rivals = 0 \/ card.level \notin CollidingAt THEN {0}
             ELSE CollisionPos \cup (IF Deeper THEN {0} ELSE {}) }

PartialAnswer(c) ==
  LET known == c.bits - 16
      len   == 5 - known \div 8
      fewer == 1..rivals-1
      later == { p \in CollisionPos : known % 8 <= p /\ p < 8 * len }
  IN  { Reaction("ready", card.level, others, Uid(len, 0)) :
          others \in {0} \cup (IF Deeper THEN fewer ELSE {}) } \cup
      { Reaction("ready", card.level, r[1], Uid(len, r[2])) : r \in fewer \X later }

WellFormed(c) == c.nvb = c.bits /\ c.bits \in 17..55 /\ c.bits % 8 # 0
Minimal(c)    == c.len = (c.bits + 7) \div 8

Sak ==
  IF card.level < card.parts
  THEN Reaction("ready", card.level + 1, rivals, Answer("SAK", card.level, 3, 0, "cascade"))
  ELSE Reaction("active", card.level, rivals,
         Answer("SAK", card.level, 3, 0,
                IF card.kind = "classic" THEN "invalid" ELSE "complete"))

CardReacts(c) ==
  CASE c.kind = "REQA" /\ card.state = "idle" ->
         { Reaction("ready", 1, rivals, Answer("ATQA", 0, 2, 0, "any")) }
    [] c.kind = "SELALL" /\ AtLevel(c) -> AllAnswer
    [] c.kind = "SELUID" /\ AtLevel(c) /\ "XMIT_BITS" \in c.flags /\ WellFormed(c) ->
         PartialAnswer(c) \cup (IF Minimal(c) THEN {} ELSE {Ignored})
    [] c.kind = "SELUID" /\ AtLevel(c) /\ "APPEND_CRC" \in c.flags /\ c.len = 7 -> {Sak}
    [] c.kind = "RATS" /\ card.state = "active" /\ card.kind = "iso4" ->
         { Reaction("protocol", card.level, rivals, Answer("ATS", 0, 12, 0, "any")) }
    [] c.kind = "DATA" /\ card.state = "protocol" ->
         { Reaction("protocol", card.level, rivals, Answer("DATA", 0, 9, 0, "any")) }
    [] c.kind = "HLTA" /\ card.state = "active" ->
         { Reaction("halt", card.level, rivals, Silence) }
    [] OTHER -> {Ignored}

(* TransmitFor14443a, once usb_write of the dump has returned.             *)
FwTransmit ==
  /\ fw = "dumping" /\ in = NoFrame
  /\ \E r \in CardReacts(cmd) :
       card' = r.card /\ rivals' = r.rivals /\ air' = r.ans
  /\ fw' = IF "NO_RESPONSE" \in cmd.flags THEN "idle" ELSE "listen"
  /\ UNCHANGED <<host, fsm, mUid, mCol, out, in, cmd, field>>

(* GetIso14443aAnswerFromTag: an answer is dumped, a timeout is not told.  *)
FwAnswer ==
  /\ fw = "listen" /\ air # Silence
  /\ in' = CardDump(air)
  /\ fw' = "answering"
  /\ UNCHANGED <<host, fsm, mUid, mCol, out, cmd, field, air, card, rivals>>

FwTimeout ==
  /\ fw = "listen" /\ (air = Silence \/ Loss)
  /\ fw' = "idle"
  /\ UNCHANGED <<host, fsm, mUid, mCol, out, in, cmd, field, air, card, rivals>>

FwAnswered ==
  /\ fw = "answering" /\ in = NoFrame
  /\ fw' = "idle"
  /\ UNCHANGED <<host, fsm, mUid, mCol, out, in, cmd, field, air, card, rivals>>

Firmware == FwFetch \/ FwDumpReader \/ FwTransmit \/ FwAnswer \/ FwTimeout \/ FwAnswered
-----------------------------------------------------------------------------
Init ==
  /\ host = "xmit" /\ out = Reqa /\ fsm = "REQWUP"
  /\ mUid = 0 /\ mCol = 0
  /\ in = NoFrame /\ fw = "idle" /\ cmd = NoCmd
  /\ field = FALSE /\ air = Silence
  /\ card \in [state : {"idle"}, level : {1}, parts : Parts, kind : Kinds]
  /\ rivals \in 0..MaxRivals

Next == Host \/ Firmware

(* The host blocks only in libusb calls, the firmware only in usb_write    *)
(* and on its answer timeout: each takes its next step when it has one.    *)
Fairness == WF_vars(Host) /\ WF_vars(Firmware)

Spec == Init /\ [][Next]_vars /\ Fairness
-----------------------------------------------------------------------------
FsmStates ==
  {"REQWUP", "SELC_ONE", "SELC_ONE_CONTINUE", "SELC_TWO", "SELC_TWO_CONTINUE",
   "SELC_THREE", "XMIT_RATS", "CARD_HALT", "DISCONNECT"}
CmdKinds == {"none", "REQA", "SELALL", "SELUID", "RATS", "DATA", "HLTA", "OFF"}
Commands ==
  [kind : CmdKinds, level : 0..3, flags : SUBSET Flags,
   len : Nat, bits : Nat, nvb : Nat]
Answers ==
  [kind : {"none", "ATQA", "UID", "SAK", "ATS", "DATA"}, level : 0..3,
   len : Nat, col : Nat, byte : SakClass \cup {"any"}]
Frames ==
  [type : {"none", "READER_DUMP", "CARD_DUMP"}, arg0 : Nat, ans : Answers]
Cards ==
  [state : {"idle", "ready", "active", "protocol", "halt"},
   level : 1..3, parts : 1..3, kind : {"iso4", "type2", "classic"}]

(* Types of every variable of the session.                                 *)
TypeOK ==
  /\ host \in {"xmit", "recv", "returned", "thrown"}
  /\ fsm \in FsmStates
  /\ mUid \in Nat /\ mCol \in Nat
  /\ out \in Commands /\ cmd \in Commands
  /\ in \in Frames
  /\ fw \in {"idle", "dump", "dumping", "listen", "answering"}
  /\ field \in BOOLEAN
  /\ air \in Answers
  /\ card \in Cards
  /\ rivals \in Nat

(* Host and firmware never wait for each other: while the host is in       *)
(* transmit the firmware is not in a usb_write nobody reads, and when the  *)
(* session has ended no frame is left that would keep the firmware there.  *)
NoMutualBlock == host # "recv" => in = NoFrame /\ fw # "dump" /\ fw # "listen"

(* read14a has gone on without an answer it ought to have waited for: in   *)
(* SELC_TWO it takes a SELECT that was cut short by a collision for the    *)
(* whole one, and after the UID of the third level it sends RATS before it *)
(* has read the SAK.                                                       *)
AfterSelection == {"XMIT_RATS", "CARD_HALT", "DISCONNECT"}
Skipped ==
  \/ mCol # 0 /\ fsm \in {"SELC_TWO_CONTINUE", "SELC_THREE"} \cup AfterSelection
  \/ card.parts = 3 /\ fsm \in AfterSelection

(* read14a keeps step with the card: until it skips an answer, the one it  *)
(* is handed is the one the state it is in was written for (ATQA in        *)
(* REQWUP, the UID of level 1 in SELC_ONE, its SAK in SELC_ONE_CONTINUE    *)
(* and so on).                                                             *)
Expected ==
  [REQWUP |-> <<"ATQA", 0>>, SELC_ONE |-> <<"UID", 1>>,
   SELC_ONE_CONTINUE |-> <<"SAK", 1>>, SELC_TWO |-> <<"UID", 2>>,
   SELC_TWO_CONTINUE |-> <<"SAK", 2>>, SELC_THREE |-> <<"UID", 3>>,
   XMIT_RATS |-> <<"ATS", 0>>, CARD_HALT |-> <<"DATA", 0>>,
   DISCONNECT |-> <<"none", 0>>]
AnswerInStep ==
  ~Skipped /\ host = "recv" /\ in.type = "CARD_DUMP" =>
    <<in.ans.kind, in.ans.level>> = Expected[fsm]

(* The echo of HLTA is what moves DISCONNECT on (HLTA has no answer): the  *)
(* host never waits there with nothing left to come.                       *)
Waiting == host = "recv" /\ in = NoFrame /\ fw = "idle"
HaltEchoEndsSession == Waiting => fsm # "DISCONNECT"

(* A SELECT sent with a CRC carries a whole UID: seven bytes, whatever     *)
(* collisions were resolved before it.                                     *)
SelectIsWhole ==
  \A c \in {out, cmd} :
    c.kind = "SELUID" /\ "APPEND_CRC" \in c.flags => c.len = 7

(* A session that returns leaves the device idle and the field off.        *)
FieldOffAfterReturn == (host = "returned") ~> [](~field /\ fw = "idle")

(* The session returns.                                                    *)
SessionReturns == <>(host = "returned")

(* The commands the firmware executes follow the order of PcdSession,      *)
(* whatever is lost, until read14a skips an answer.                        *)
Phase ==
  CASE cmd.kind = "none"   -> "start"
    [] cmd.kind = "REQA"   -> "request"
    [] cmd.kind = "SELALL" -> "anticol"
    [] cmd.kind = "SELUID" -> IF "XMIT_BITS" \in cmd.flags THEN "anticol" ELSE "select"
    [] cmd.kind = "RATS"   -> "rats"
    [] cmd.kind = "DATA"   -> "data"
    [] cmd.kind = "HLTA"   -> "halt"
    [] cmd.kind = "OFF"    -> "off"
Session ==
  INSTANCE PcdSession WITH
    phase <- IF Skipped THEN "anticol" ELSE Phase,
    level <- IF Skipped THEN card.level ELSE cmd.level
SessionOrder == Session!Spec
=============================================================================
