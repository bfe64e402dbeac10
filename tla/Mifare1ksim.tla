----------------------------- MODULE Mifare1ksim -----------------------------
(***************************************************************************)
(* The MIFARE 1K emulation of the firmware (Mifare1ksim) and a reader in   *)
(* front of it.  The reader and the emulator memory (emlGetMem and its     *)
(* kin) are external.  The reader follows the card's protocol: it sends a  *)
(* command, hears the answer or silence, and starts over with WUPA when an *)
(* answer it needs does not come; only that it also sends block commands   *)
(* without authentication.  Commands and answers may be lost, the field    *)
(* may be switched off, the button pressed.                                *)
(*                                                                         *)
(* A frame is its kind and length; the cipher is how far, in half bytes,   *)
(* the emulator's key stream is ahead of the reader's (skew): a frame is   *)
(* read as what was sent only when both are at the same place.  A block is *)
(* either plain data or a value modulo Wrap (2^32 in the code); the block  *)
(* address a value block also holds is left out, and so is the trace.      *)
(***************************************************************************)
EXTENDS Naturals, Integers

CONSTANTS
  Blocks,     \* the blocks the reader uses, sector trailers excluded
  OutOfRange, \* block numbers the card does not have
  Plain,      \* contents that are not value blocks
  Wrap,       \* values are computed modulo Wrap
  Operands,   \* operands of value operations
  Params      \* what the emulation was started with: [seven, exitAfter],
              \* a UID of seven bytes (_7BUID) and exitAfterNReads (0: none)

ASSUME SimConstants ==
  /\ Blocks \subseteq 0..63 /\ Blocks # {}
  /\ OutOfRange \subseteq 64..255
  /\ Wrap \in Nat \ {0} /\ Operands \subseteq 0..(Wrap - 1)
  /\ Plain \cap [value : 0..(Wrap - 1)] = {}
  /\ Params \subseteq [seven : BOOLEAN, exitAfter : Nat]

VARIABLES
  param,    \* a member of Params
  state,    \* cardSTATE
  keyed,    \* cardAUTHKEY # 0xff
  authSc,   \* cardAUTHSC
  wrBl,     \* cardWRBL
  intReg,   \* cardINTREG
  mem,      \* the emulator memory
  numReads,
  running,  \* the loop of Mifare1ksim
  turn, cmd, ans,  \* whose turn it is, the last command and its answer
  field,
  at,       \* where the reader is in the protocol
  sector,   \* the sector the reader is authenticated for, or NoSector
  result,   \* what the reader's value operation may have computed
  book,     \* what the reader knows each block may hold
  clean,    \* nothing was lost since the reader's last WUPA or REQA
  skew      \* emulator's key stream minus the reader's, in half bytes

emulator == <<state, keyed, authSc, wrBl, intReg, mem, numReads, running>>
reader   == <<at, sector, result, book>>
vars == <<param, emulator, turn, cmd, ans, field, reader, clean, skew>>

Values   == [value : 0..(Wrap - 1)]
Contents == Plain \cup Values
Value(n) == [value |-> n % Wrap]
SectorOf(b) == b \div 4
NoSector == -1
-----------------------------------------------------------------------------
(* Frames of the reader and answers of the card, and their lengths.        *)
Length ==
  [WUPA |-> 1, REQA |-> 1, SELALL1 |-> 2, SELALL2 |-> 2, SELECT1 |-> 9,
   SELECT2 |-> 9, AUTH |-> 4, NRAR |-> 8, READ |-> 4, WRITE |-> 4, DATA |-> 18,
   INC |-> 4, DEC |-> 4, REST |-> 4, OPERAND |-> 6, TRANSFER |-> 4,
   HLTA |-> 4, RATS |-> 4, PPS |-> 5, ACK |-> 1, NAK |-> 1]
Frame(op, b, v) == [op |-> op, b |-> b, v |-> v]
NoFrame == Frame("HLTA", 0, 0)

Answer(kind, v) == [kind |-> kind, v |-> v]
Sig(kind) == Answer(kind, 0)
Overlong(kind) == Answer(kind, 1)    \* with a stray byte behind the CRC
Silence == Sig("none")
Enciphered == [BLOCK |-> 36, ACK |-> 1, NACK |-> 1, AT |-> 8]
HalfBytes(a) == IF a.kind \in DOMAIN Enciphered THEN Enciphered[a.kind] ELSE 0
-----------------------------------------------------------------------------
(* The emulator.  EmGetCmd returned a command.                             *)
Got == running /\ turn = "tag" /\ state # "NOFIELD"
Reply(a) == turn' = "answer" /\ ans' = a
Advance(n) == skew' = IF keyed THEN skew + n ELSE skew

Rest1 == UNCHANGED <<param, cmd, field, reader, clean>>
Silent == Reply(Silence) /\ UNCHANGED emulator

(* REQA or WUPA in any state, WUPA only when halted: the cipher is reset.  *)
Request == cmd.op = "WUPA" \/ (cmd.op = "REQA" /\ state # "HALTED")
EmRequestKeyed ==                                                \* mutant
  /\ Got /\ Request /\ Rest1
  /\ Reply(Sig("ATQA")) /\ state' = "SELECT1"
  /\ UNCHANGED <<keyed, skew, authSc, wrBl, intReg, mem, numReads, running>>
EmRequest ==
  /\ Got /\ Request /\ Rest1
  /\ Reply(Sig("ATQA"))
  /\ state' = "SELECT1" /\ keyed' = FALSE /\ skew' = 0
  /\ UNCHANGED <<authSc, wrBl, intReg, mem, numReads, running>>

In(s) == Got /\ ~Request /\ state = s /\ Rest1

EmIgnore ==
  /\ \E s \in {"IDLE", "HALTED"} : In(s)
  /\ Silent /\ UNCHANGED skew

Moves(s) == state' = s /\ UNCHANGED <<keyed, authSc, wrBl, intReg, mem, numReads, running>>

(* The length of the answer to SELECT is sizeof(_7BUID?rSAK1:rSAK), that of *)
(* a pointer: four bytes for three.                                        *)
EmSelect1 ==
  /\ In("SELECT1") /\ UNCHANGED skew
  /\ \/ cmd.op = "SELALL1" /\ Reply(Sig("UID1")) /\ Moves("SELECT1")
     \/ /\ cmd.op = "SELECT1"
        /\ IF param.seven
           THEN Reply(Overlong("SAKC")) /\ Moves("SELECT2")
           ELSE Reply(Overlong("SAK")) /\ Moves("WORK")
     \/ cmd.op \notin {"SELALL1", "SELECT1"} /\ Silent

EmSelect2 ==
  /\ In("SELECT2") /\ Length[cmd.op] # 4 /\ UNCHANGED skew
  /\ \/ cmd.op = "SELALL2" /\ Reply(Sig("UID2")) /\ Moves("SELECT2")
     \/ cmd.op = "SELECT2" /\ Reply(Sig("SAK")) /\ Moves("WORK")
     \/ cmd.op \notin {"SELALL2", "SELECT2"} /\ Silent

(* Third pass of the authentication; v tells whether the key was right.    *)
EmNrar ==
  /\ In("AUTH1")
  /\ IF cmd.op = "NRAR" /\ cmd.v = 1
     THEN Reply(Sig("AT")) /\ Advance(24) /\ Moves("WORK")
     ELSE /\ Reply(Silence) /\ Moves("IDLE")
          /\ Advance(IF cmd.op = "NRAR" THEN 16 ELSE 0)

(* A command in WORK, or one of four bytes in SELECT2, which is taken for  *)
(* a command.  It is deciphered when a key is in use; out of step it is    *)
(* noise.                                                                  *)
Working ==
  /\ Got /\ ~Request /\ Rest1
  /\ state = "WORK" \/ (state = "SELECT2" /\ Length[cmd.op] = 4)
Bits(f) == 2 * Length[f.op]
Legible == IF keyed THEN sector # NoSector /\ skew + Bits(cmd) = 0
                    ELSE sector = NoSector
Work(op) == Working /\ Legible /\ cmd.op = op
(* Every answer in WORK except the nonce is enciphered.                    *)
Respond(a) == Reply(a) /\ Advance(Bits(cmd) + HalfBytes(a))
Nack == Sig("NACK")

EmAuth ==
  /\ Work("AUTH")
  /\ authSc' = SectorOf(cmd.b) /\ keyed' = TRUE /\ skew' = 0
  /\ state' = "AUTH1" /\ Reply(Sig("NT"))
  /\ UNCHANGED <<wrBl, intReg, mem, numReads, running>>

EmAckNak ==
  \/ Work("ACK") /\ Respond(Nack) /\ Moves("WORK")
  \/ Work("NAK") /\ Respond(Sig("ACK")) /\ Moves("WORK")

(* Block out of range or in another sector than the one authenticated last, *)
(* whether a key is in use or not.                                         *)
BlockOps == {"READ", "WRITE", "INC", "DEC", "REST", "TRANSFER"}
Refused == cmd.b >= 64 \/ SectorOf(cmd.b) # authSc
EmRefuse ==
  /\ \E op \in BlockOps : Work(op)
  /\ Refused /\ Respond(Nack) /\ Moves("WORK")

EmReadOn ==                                                      \* mutant
  /\ Work("READ") /\ ~Refused
  /\ Respond(Answer("BLOCK", mem[cmd.b]))
  /\ state' = "WORK"
  /\ numReads' = IF param.exitAfter > 0 THEN numReads + 1 ELSE numReads
  /\ running' = (param.exitAfter = 0 \/ numReads # param.exitAfter)
  /\ UNCHANGED <<keyed, authSc, wrBl, intReg, mem>>
EmRead ==
  /\ Work("READ") /\ ~Refused
  /\ Respond(Answer("BLOCK", mem[cmd.b]))
  /\ state' = "WORK"
  /\ numReads' = IF param.exitAfter > 0 THEN numReads + 1 ELSE numReads
  /\ running' = (param.exitAfter = 0 \/ numReads + 1 # param.exitAfter)
  /\ UNCHANGED <<keyed, authSc, wrBl, intReg, mem>>

EmWrite ==
  /\ Work("WRITE") /\ ~Refused
  /\ Respond(Sig("ACK"))
  /\ state' = "WRITEBL2" /\ wrBl' = cmd.b
  /\ UNCHANGED <<keyed, authSc, intReg, mem, numReads, running>>

EmValueOp ==
  /\ \E op \in {"INC", "DEC", "REST"} : Work(op)
  /\ ~Refused
  /\ IF mem[cmd.b] \in Values
     THEN Respond(Sig("ACK")) /\ state' = cmd.op /\ wrBl' = cmd.b
     ELSE Respond(Nack) /\ state' = "WORK" /\ UNCHANGED wrBl
  /\ UNCHANGED <<keyed, authSc, intReg, mem, numReads, running>>

EmTransfer ==
  /\ Work("TRANSFER") /\ ~Refused
  /\ mem' = [mem EXCEPT ![cmd.b] = Value(intReg)]
  /\ Respond(Sig("ACK")) /\ state' = "WORK"
  /\ UNCHANGED <<keyed, authSc, wrBl, intReg, numReads, running>>

EmHalt ==
  /\ Work("HLTA")
  /\ Reply(Silence) /\ Advance(Bits(cmd)) /\ Moves("HALTED")

(* RATS, noise and commands that do not belong here.                       *)
EmNotAllowed ==
  /\ Working /\ Length[cmd.op] = 4
  /\ ~Legible \/ cmd.op = "RATS"
  /\ Respond(Nack) /\ Moves("WORK")

EmWrongLength ==
  /\ Working /\ Length[cmd.op] # 4
  /\ ~Legible \/ cmd.op \notin {"ACK", "NAK"}
  /\ Reply(Silence) /\ Advance(Bits(cmd)) /\ Moves("WORK")

EmWriteData ==
  /\ In("WRITEBL2")
  /\ IF cmd.op = "DATA"
     THEN /\ mem' = [mem EXCEPT ![wrBl] = cmd.v]
          /\ Respond(Sig("ACK")) /\ state' = "WORK"
     ELSE Reply(Silence) /\ state' = "IDLE" /\ UNCHANGED <<mem, skew>>
  /\ UNCHANGED <<keyed, authSc, wrBl, intReg, numReads, running>>

(* The operand of a value operation: whatever frame comes is taken for it, *)
(* and nothing is answered.  Restore ignores the operand.                  *)
OperandOf(f) == IF f.op = "OPERAND" THEN {f.v} ELSE 0..(Wrap - 1)
Computed(op, n, x) ==
  CASE op = "INC" -> (n + x) % Wrap
    [] op = "DEC" -> (n + Wrap - x) % Wrap
    [] OTHER      -> n
EmOperandFromRegister ==                                         \* mutant
  \E op \in {"INC", "DEC", "REST"}, x \in OperandOf(cmd) :
    /\ In(op)
    /\ intReg' = Computed(op, IF op = "REST" THEN mem[wrBl].value ELSE intReg, x)
    /\ Reply(Silence) /\ Advance(Bits(cmd)) /\ state' = "WORK"
    /\ UNCHANGED <<keyed, authSc, wrBl, mem, numReads, running>>
EmOperand ==
  \E op \in {"INC", "DEC", "REST"}, x \in OperandOf(cmd) :
    /\ In(op)
    /\ intReg' = Computed(op, mem[wrBl].value, x)
    /\ Reply(Silence) /\ Advance(Bits(cmd)) /\ state' = "WORK"
    /\ UNCHANGED <<keyed, authSc, wrBl, mem, numReads, running>>

(* The field: seen on the ADC while in NOFIELD, and missed by EmGetCmd     *)
(* for 50 ms in any other state.                                           *)
EmField ==
  /\ running /\ turn # "tag"
  /\ \/ state = "NOFIELD" /\ field /\ Moves("IDLE")
     \/ state # "NOFIELD" /\ ~field /\ Moves("NOFIELD")
  /\ UNCHANGED <<param, turn, cmd, ans, field, reader, clean, skew>>

EmButton ==
  /\ running /\ running' = FALSE
  /\ UNCHANGED <<param, state, keyed, authSc, wrBl, intReg, mem, numReads,
                 turn, cmd, ans, field, reader, clean, skew>>

Emulator ==
  \/ EmRequest \/ EmIgnore \/ EmSelect1 \/ EmSelect2 \/ EmNrar \/ EmAuth
  \/ EmAckNak \/ EmRefuse \/ EmRead \/ EmWrite \/ EmValueOp \/ EmTransfer
  \/ EmHalt \/ EmNotAllowed \/ EmWrongLength \/ EmWriteData \/ EmOperand
  \/ EmField \/ EmButton
-----------------------------------------------------------------------------
(* The air: a command nobody decodes, an answer the reader does not hear.  *)
CommandLost ==
  /\ turn = "tag" /\ turn' = "answer" /\ ans' = Silence /\ clean' = FALSE
  /\ UNCHANGED <<param, emulator, cmd, field, reader, skew>>
AnswerLost ==
  /\ turn = "answer" /\ ans.kind # "none" /\ ans' = Silence /\ clean' = FALSE
  /\ UNCHANGED <<param, emulator, turn, cmd, field, reader, skew>>
-----------------------------------------------------------------------------
(* The reader (external).  While it does not know what a block holds it    *)
(* writes to no other block.                                               *)
InDoubt(b) == book[b] # {} /\ \A c \in book[b] : book[b] # {c}
MayWrite(b) == \A d \in Blocks \ {b} : ~InDoubt(d)

Enc == sector # NoSector
Send(f) ==
  /\ turn = "reader" /\ field
  /\ turn' = "tag" /\ cmd' = f /\ ans' = Silence
  /\ clean' = (clean \/ f.op \in {"WUPA", "REQA"})
  /\ skew' = IF Enc THEN skew - Bits(f) ELSE skew
  /\ UNCHANGED <<param, emulator, field, sector, result, at>>

Op(op) == Send(Frame(op, 0, 0)) /\ UNCHANGED book
OnBlock(op, b) ==
  (op = "WRITE" => MayWrite(b)) /\ Send(Frame(op, b, 0)) /\ UNCHANGED book
AnyBlock == Blocks \cup OutOfRange

ReaderSends ==
  \/ at \in {"start", "halted"} /\ Op("REQA")
  \/ at \in {"start", "halted", "restart"} /\ Op("WUPA")
  \/ at = "ready1" /\ Op("SELALL1")
  \/ at = "uid1"   /\ Op("SELECT1")
  \/ at = "ready2" /\ Op("SELALL2")
  \/ at = "uid2"   /\ Op("SELECT2")
  \/ at = "active" /\ \E b \in Blocks : OnBlock("AUTH", b)
  \/ at = "nonce"  /\ \E ok \in {0, 1} : Send(Frame("NRAR", 0, ok)) /\ UNCHANGED book
  \/ at = "active" /\ \E op \in {"RATS", "ACK", "NAK"} : Op(op)
  \/ at \in {"ready1", "ready2", "active"} /\ \E op \in {"HLTA", "PPS"} : Op(op)
  \/ at = "active" /\ \E op \in BlockOps \ {"TRANSFER"}, b \in AnyBlock : OnBlock(op, b)
  \/ /\ at = "data"
     /\ \E c \in Contents :
          /\ Send(Frame("DATA", cmd.b, c))
          /\ book' = [book EXCEPT ![cmd.b] = @ \cup {c}]
  \/ at \in {"INC", "DEC", "REST"} /\ \E x \in Operands : Send(Frame("OPERAND", cmd.b, x)) /\ UNCHANGED book
  \/ /\ at = "transfer"
     /\ \E b \in Blocks :
          /\ MayWrite(b) /\ Send(Frame("TRANSFER", b, 0))
          /\ book' = [book EXCEPT ![b] = @ \cup (IF SectorOf(b) = SectorOf(cmd.b) THEN result ELSE {})]

(* What the reader makes of an answer.                                     *)
Hear(next, s) ==
  /\ turn = "answer" /\ turn' = "reader"
  /\ at' = next /\ sector' = s
  /\ skew' = IF Enc THEN skew - HalfBytes(ans) ELSE skew
  /\ ans' = Silence
  /\ cmd' = IF next \in {"data", "INC", "DEC", "REST", "transfer"} THEN cmd ELSE NoFrame
  /\ UNCHANGED <<param, emulator, field, clean>>
Keep == book' = book /\ result' = {}

Following ==
  [ATQA |-> "ready1", UID1 |-> "uid1", SAKC |-> "ready2", UID2 |-> "uid2", SAK |-> "active"]
HearSelection ==
  /\ ans.kind \in DOMAIN Following
  /\ Hear(Following[ans.kind], NoSector) /\ Keep
(* It may take a SAK for what its first byte says, or reject its length.   *)
HearSpoilt ==
  /\ ans.kind \in {"SAK", "SAKC"} /\ ans.v = 1
  /\ Hear("restart", NoSector) /\ Keep
HearNonce ==
  /\ ans.kind = "NT"
  /\ Hear("nonce", SectorOf(cmd.b)) /\ Keep
HearTag == ans.kind = "AT" /\ Hear("active", sector) /\ Keep
HearBlock ==
  /\ ans.kind = "BLOCK" /\ Hear("active", sector)
  /\ book' = [book EXCEPT ![cmd.b] = {ans.v}] /\ result' = {}
HearAck ==
  /\ ans.kind = "ACK"
  /\ \/ cmd.op = "WRITE" /\ Hear("data", sector) /\ Keep
     \/ cmd.op \in {"INC", "DEC", "REST"} /\ Hear(cmd.op, sector) /\ Keep
     \/ cmd.op = "DATA" /\ Hear("active", sector)
        /\ book' = [book EXCEPT ![cmd.b] = {cmd.v}] /\ result' = {}
     \/ cmd.op = "TRANSFER" /\ Hear("active", sector)
        /\ book' = [book EXCEPT ![cmd.b] = result] /\ result' = {}
     \/ cmd.op = "NAK" /\ Hear("active", sector) /\ Keep
HearNack == ans.kind = "NACK" /\ Hear("active", sector) /\ Keep
HearSilence ==
  /\ ans.kind = "none"
  /\ IF cmd.op = "OPERAND"
     THEN /\ Hear("transfer", sector)
          /\ result' = { Value(Computed(at, c.value, cmd.v)) :
                           c \in book[cmd.b] \cap Values }
          /\ UNCHANGED book
     ELSE /\ Hear(CASE cmd.op = "HLTA" /\ at = "active" /\ clean -> "halted"
                    [] cmd.op = "REQA" /\ at = "halted" -> "halted"
                    [] OTHER -> "restart", NoSector)
          /\ Keep

ReaderHears ==
  HearSelection \/ HearSpoilt \/ HearNonce \/ HearTag \/ HearBlock \/ HearAck \/ HearNack \/ HearSilence

(* The reader may switch its field; it then starts with WUPA.              *)
SwitchField ==
  /\ turn = "reader" /\ field' = ~field
  /\ at' = "restart" /\ sector' = NoSector /\ clean' = FALSE
  /\ cmd' = NoFrame /\ result' = {}
  /\ UNCHANGED <<param, emulator, turn, ans, book, skew>>

Reader == ReaderSends \/ ReaderHears \/ SwitchField
-----------------------------------------------------------------------------
Init ==
  /\ param \in Params
  /\ state = "NOFIELD" /\ keyed = FALSE /\ authSc = 0 /\ wrBl = 0
  /\ intReg = 0 /\ numReads = 0 /\ running = TRUE
  /\ mem \in [Blocks -> Contents]
  /\ turn = "reader" /\ cmd = NoFrame /\ ans = Silence /\ field = TRUE
  /\ at = "start" /\ sector = NoSector /\ result = {}
  /\ book = [b \in Blocks |-> {mem[b]}]
  /\ clean = FALSE /\ skew = 0

Next == Emulator \/ CommandLost \/ AnswerLost \/ Reader

Spec == Init /\ [][Next]_vars
-----------------------------------------------------------------------------
States == {"NOFIELD", "IDLE", "SELECT1", "SELECT2", "WORK", "AUTH1", "WRITEBL2",
           "INC", "DEC", "REST", "HALTED"}
Stages == {"start", "restart", "halted", "ready1", "uid1", "ready2", "uid2",
           "active", "nonce", "data", "INC", "DEC", "REST", "transfer"}
Kinds  == {"none", "ATQA", "UID1", "UID2", "SAK", "SAKC", "NT", "AT", "BLOCK",
           "ACK", "NACK"}

(* Types of the emulator and of the reader: the register and the memory    *)
(* stay within a value block's range, the reads within their limit.        *)
TypeOK ==
  /\ param \in Params
  /\ state \in States /\ keyed \in BOOLEAN /\ running \in BOOLEAN
  /\ authSc \in 0..15 /\ wrBl \in 0..63
  /\ intReg \in 0..(Wrap - 1) /\ mem \in [Blocks -> Contents]
  /\ numReads \in 0..param.exitAfter
  /\ turn \in {"reader", "tag", "answer"} /\ cmd.op \in DOMAIN Length
  /\ ans.kind \in Kinds /\ field \in BOOLEAN
  /\ at \in Stages /\ sector \in {NoSector} \cup 0..15
  /\ result \subseteq Contents /\ book \in [Blocks -> SUBSET Contents]
  /\ clean \in BOOLEAN /\ skew \in Int

(* The sector whose blocks the card works on: the one the reader has       *)
(* authenticated for, and without authentication the one the emulation has *)
(* last had a key for, 0 at first.  A card would refuse them all.          *)
Open == IF Enc THEN sector ELSE authSc

(* What the protocol lets a reader expect, kinds of answers by command.    *)
OnCard(b) == b \in Blocks /\ SectorOf(b) = Open
OneOf(kinds) == ans.kind \in kinds
ValueAnswer(b) ==
  IF ~OnCard(b) THEN {"NACK"}
  ELSE (IF book[b] \cap Values # {} THEN {"ACK"} ELSE {})
       \cup (IF book[b] \ Values # {} THEN {"NACK"} ELSE {})
Proper ==
  CASE cmd.op = "WUPA"    -> OneOf({"ATQA"})
    [] cmd.op = "REQA"    -> OneOf(IF at = "halted" THEN {"none"} ELSE {"ATQA"})
    [] cmd.op = "SELALL1" -> OneOf({"UID1"})
    [] cmd.op = "SELECT1" -> OneOf(IF param.seven THEN {"SAKC"} ELSE {"SAK"})
    [] cmd.op = "SELALL2" -> OneOf({"UID2"})
    [] cmd.op = "SELECT2" -> OneOf({"SAK"})
    [] cmd.op = "AUTH"    -> OneOf({"NT"})
    [] cmd.op = "NRAR"    -> OneOf(IF cmd.v = 1 THEN {"AT"} ELSE {"none"})
    [] cmd.op = "READ"    ->
         IF OnCard(cmd.b) THEN OneOf({"BLOCK"}) /\ ans.v \in book[cmd.b]
                          ELSE OneOf({"NACK"})
    [] cmd.op = "WRITE"   -> OneOf(IF OnCard(cmd.b) THEN {"ACK"} ELSE {"NACK"})
    [] cmd.op \in {"INC", "DEC", "REST"} -> OneOf(ValueAnswer(cmd.b))
    [] cmd.op = "TRANSFER" -> OneOf(IF OnCard(cmd.b) THEN {"ACK"} ELSE {"NACK"})
    [] cmd.op \in {"OPERAND", "HLTA", "PPS"} -> OneOf({"none"})
    [] cmd.op \in {"DATA", "NAK"} -> OneOf({"ACK"})
    [] OTHER              -> OneOf({"NACK"})

(* A reader gets the answers the protocol says, in any session in which    *)
(* nothing is lost and the emulation still runs: whatever state, key and   *)
(* place in the key stream Mifare1ksim was left in by sessions that broke  *)
(* off anywhere.  Two things are not as the protocol says: the stray byte  *)
(* behind the SAK of SELECT1; and a block command without authentication   *)
(* is refused outside the sector of the last key only, since EmRequest     *)
(* forgets the key and not the sector.                                     *)
Served == turn = "answer" /\ clean /\ running => Proper

(* The emulator memory is what the reader was told: a block whose write or *)
(* transfer was acknowledged holds it, one that was not acknowledged holds *)
(* the old or the new contents, and no other block changes.                *)
MemoryAsTold == \A b \in Blocks : mem[b] \in book[b]
=============================================================================
