------------------------- MODULE Mifare1ksim_proofs -------------------------
(***************************************************************************)
(* Proofs about the MIFARE emulation of Mifare1ksim: for all blocks, data, *)
(* value ranges and parameters, and with frames lost anywhere.             *)
(*                                                                         *)
(* None of the three properties is inductive.  What they rest on is that   *)
(* the place of the reader in the protocol (at) and cardSTATE determine    *)
(* each other, except after "start", "restart" and a lost operand, and     *)
(* that the two key streams are then apart by exactly what is on the air.  *)
(***************************************************************************)
EXTENDS Mifare1ksim, TLAPS

ValueOps == {"INC", "DEC", "REST"}
(* The places within a command of several frames.                          *)
Amid     == {"nonce", "data", "transfer"} \cup ValueOps

(* The commands the reader may have sent from each place.                  *)
Says ==
  [start |-> {"REQA", "WUPA"}, halted |-> {"REQA", "WUPA"}, restart |-> {"WUPA"},
   ready1 |-> {"SELALL1", "HLTA", "PPS"}, uid1 |-> {"SELECT1"},
   ready2 |-> {"SELALL2", "HLTA", "PPS"}, uid2 |-> {"SELECT2"},
   active |-> {"AUTH", "RATS", "ACK", "NAK", "HLTA", "PPS", "READ", "WRITE",
               "INC", "DEC", "REST"},
   nonce |-> {"NRAR"}, data |-> {"DATA"}, INC |-> {"OPERAND"},
   DEC |-> {"OPERAND"}, REST |-> {"OPERAND"}, transfer |-> {"TRANSFER"}]

(* The cardSTATE that belongs to a place.                                  *)
Home ==
  [halted |-> "HALTED", ready1 |-> "SELECT1", uid1 |-> "SELECT1",
   ready2 |-> "SELECT2", uid2 |-> "SELECT2", active |-> "WORK",
   nonce |-> "AUTH1", data |-> "WRITEBL2", INC |-> "INC", DEC |-> "DEC",
   REST |-> "REST"]

CommandFits ==
  /\ cmd = Frame(cmd.op, cmd.b, cmd.v) /\ ans = Answer(ans.kind, ans.v)
  /\ cmd.b \in Nat
  /\ turn # "reader" => cmd.op \in Says[at]
  /\ turn = "reader" => ans = Silence
  /\ cmd.op \in BlockOps => cmd.b \in AnyBlock
  /\ cmd.op \in {"AUTH", "TRANSFER", "DATA", "OPERAND"} => cmd.b \in Blocks
  /\ cmd.op = "DATA" => cmd.v \in Contents
  /\ cmd.op = "OPERAND" => cmd.v \in 0..(Wrap - 1)

SectorFits ==
  /\ Enc => at = "active" \/ at \in Amid
  /\ at = "nonce" => Enc

BlockFits ==
  /\ state \in ValueOps \cup {"WRITEBL2"} => wrBl \in Blocks
  /\ state \in ValueOps => mem[wrBl] \in Values

FieldFits == ~field => turn = "reader" /\ at = "restart"
ReadsFit  == running => param.exitAfter = 0 \/ numReads < param.exitAfter

(* The two key streams are n half bytes apart, or both are not in use.     *)
InStep(n)   == keyed /\ authSc = sector /\ skew = n
Together(n) == IF Enc THEN InStep(n) ELSE ~keyed
OnAir       == IF turn = "tag" THEN -Bits(cmd) ELSE 0
OpenBlock   == cmd.b \in Blocks /\ SectorOf(cmd.b) = Open /\ wrBl = cmd.b

(* Before a command and while it is on the air.                            *)
Waiting ==
  turn # "answer" =>
    /\ at = "start" => state \in {"NOFIELD", "IDLE"}
    /\ at \in DOMAIN Home => state = Home[at]
    /\ at \in DOMAIN Home \ {"halted"} => Together(OnAir)
    /\ at \in ValueOps \cup {"data"} => OpenBlock
    /\ at = "transfer" =>
         \/ state = "WORK" /\ Together(OnAir) /\ Value(intReg) \in result
         \/ ~clean /\ state \in ValueOps
    /\ at = "transfer" /\ turn = "reader" => SectorOf(cmd.b) = Open
(* What a block is about to be given is something the reader knows of.     *)
Promised ==
  turn = "tag" =>
    /\ cmd.op = "DATA" => cmd.v \in book[cmd.b]
    /\ cmd.op = "TRANSFER" /\ SectorOf(cmd.b) = Open => result \subseteq book[cmd.b]

(* While an answer is on the air: where it leaves the emulator.            *)
SelectionHeard ==
  ans.kind \in DOMAIN Following =>
    state = Home[Following[ans.kind]] /\ ~keyed /\ ~Enc
NonceHeard ==
  ans.kind = "NT" =>
    /\ cmd.op = "AUTH" /\ state = "AUTH1"
    /\ keyed /\ authSc = SectorOf(cmd.b) /\ skew = 0
CipherHeard ==
  /\ ans.kind \in DOMAIN Enciphered => Together(HalfBytes(ans))
  /\ ans.kind = "AT" => state = "WORK" /\ at = "nonce"
  /\ ans.kind = "NACK" => state = "WORK" /\ at \in {"active", "transfer"}
  /\ ans.kind = "BLOCK" =>
       state = "WORK" /\ cmd.op = "READ" /\ cmd.b \in Blocks /\ ans.v = mem[cmd.b]
AckHeard ==
  ans.kind = "ACK" =>
    \/ cmd.op = "WRITE" /\ state = "WRITEBL2" /\ OpenBlock
    \/ cmd.op \in ValueOps /\ state = cmd.op /\ OpenBlock
    \/ cmd.op = "DATA" /\ state = "WORK" /\ mem[cmd.b] = cmd.v
    \/ cmd.op = "TRANSFER" /\ state = "WORK" /\ mem[cmd.b] \in result
    \/ cmd.op = "NAK" /\ state = "WORK"
SilenceHeard ==
  ans.kind = "none" =>
    /\ cmd.op = "OPERAND" => SectorOf(cmd.b) = Open
    /\ cmd.op = "OPERAND" =>
         \/ /\ state = "WORK" /\ Together(0) /\ mem[cmd.b] \in Values
            /\ intReg = Computed(at, mem[cmd.b].value, cmd.v)
         \/ ~clean /\ state = at
    /\ cmd.op = "HLTA" /\ at = "active" /\ clean => state = "HALTED"
    /\ cmd.op = "REQA" /\ at = "halted" => state = "HALTED"
Unanswered ==
  cmd.op = "OPERAND" \/ (cmd.op = "REQA" /\ at = "halted") => ans.kind = "none"
Heard ==
  turn = "answer" =>
    /\ SelectionHeard /\ NonceHeard /\ CipherHeard /\ AckHeard
    /\ SilenceHeard /\ Unanswered
ProperOrLost == turn = "answer" /\ clean => Proper

IInv ==
  /\ TypeOK /\ CommandFits /\ SectorFits /\ BlockFits /\ FieldFits /\ ReadsFit
  /\ Waiting /\ Promised /\ Heard /\ ProperOrLost /\ MemoryAsTold

USE SimConstants
-----------------------------------------------------------------------------
(* The lengths of frames, and what an answer takes of the key stream.      *)
LEMMA Lengths ==
  /\ DOMAIN Length = {"WUPA", "REQA", "SELALL1", "SELALL2", "SELECT1",
       "SELECT2", "AUTH", "NRAR", "READ", "WRITE", "DATA", "INC", "DEC", "REST",
       "OPERAND", "TRANSFER", "HLTA", "RATS", "PPS", "ACK", "NAK"}
  /\ \A op \in DOMAIN Length :
       /\ Length[op] \in Nat
       /\ Length[op] = 4 <=> op \in BlockOps \cup {"AUTH", "HLTA", "RATS"}
BY DEF Length, BlockOps

LEMMA HalfBytesOf ==
  ASSUME NEW a
  PROVE  /\ HalfBytes(a) \in Nat
         /\ a.kind \notin {"BLOCK", "ACK", "NACK", "AT"} => HalfBytes(a) = 0
         /\ a.kind \in {"ACK", "NACK"} => HalfBytes(a) = 1
         /\ a.kind = "AT" => HalfBytes(a) = 8
         /\ a.kind = "BLOCK" => HalfBytes(a) = 36
BY DEF HalfBytes, Enciphered

(* Values keep to their range, whatever is computed of them.               *)
LEMMA ComputedInRange ==
  ASSUME NEW op, NEW n \in 0..(Wrap - 1), NEW x \in 0..(Wrap - 1)
  PROVE  Computed(op, n, x) \in 0..(Wrap - 1)
BY DEF Computed

LEMMA ValueTyped ==
  ASSUME NEW n \in Int
  PROVE  Value(n) \in Values
BY DEF Value, Values

LEMMA BlockNumbers == \A b \in AnyBlock : b \in Nat
<1>. SUFFICES ASSUME NEW b \in AnyBlock PROVE b \in Nat
  OBVIOUS
<1>1. CASE b \in Blocks
  <2>1. b \in 0..63
    BY <1>1
  <2>. QED BY <2>1
<1>2. CASE b \in OutOfRange
  <2>1. b \in 64..255
    BY <1>2
  <2>. QED BY <2>1
<1>. QED BY <1>1, <1>2 DEF AnyBlock

LEMMA SectorTyped ==
  ASSUME NEW b \in Blocks
  PROVE  b \in 0..63 /\ SectorOf(b) \in 0..15 /\ SectorOf(b) # NoSector
BY DEF SectorOf, NoSector
-----------------------------------------------------------------------------
LEMMA InitIInv == Init => IInv
<1>. SUFFICES ASSUME Init PROVE IInv
  OBVIOUS
<1>1. TypeOK
  <2>1. book \in [Blocks -> SUBSET Contents] /\ mem \in [Blocks -> Contents]
    BY DEF Init
  <2>2. "HLTA" \in DOMAIN Length /\ cmd.op = "HLTA" /\ ans.kind = "none"
    BY Lengths DEF Init, NoFrame, Frame, Silence, Sig, Answer
  <2>3. param.exitAfter \in Nat
    BY DEF Init
  <2>4. state \in States /\ at \in Stages /\ ans.kind \in Kinds
    BY <2>2 DEF Init, States, Stages, Kinds
  <2>5. /\ authSc \in 0..15 /\ wrBl \in 0..63 /\ intReg \in 0..(Wrap - 1)
        /\ numReads \in 0..param.exitAfter /\ skew \in Int
    BY <2>3 DEF Init
  <2>. QED BY <2>1, <2>2, <2>4, <2>5 DEF Init, TypeOK
<1>2. CommandFits
  BY DEF Init, CommandFits, NoFrame, Frame, Silence, Sig, Answer, BlockOps
<1>3. SectorFits /\ BlockFits /\ FieldFits /\ ReadsFit
  BY DEF Init, SectorFits, BlockFits, FieldFits, ReadsFit, Enc, Amid, ValueOps, NoSector
<1>4. Waiting /\ Promised /\ Heard /\ ProperOrLost
  BY DEF Init, Waiting, Promised, Heard, ProperOrLost, Home, ValueOps
<1>5. MemoryAsTold
  BY DEF Init, MemoryAsTold
<1>. QED BY <1>1, <1>2, <1>3, <1>4, <1>5 DEF IInv

(* The emulator answers: the reader's side of the invariant does not move. *)
LEMMA Answering ==
  ASSUME IInv, turn = "tag", Rest1, NEW a, a = Answer(a.kind, a.v), Reply(a)
  PROVE  CommandFits' /\ SectorFits' /\ FieldFits' /\ Waiting' /\ Promised'
<1>1. cmd' = cmd /\ at' = at /\ sector' = sector /\ field' = field /\ book' = book
  BY DEF Rest1, reader
<1>2. turn' = "answer" /\ ans' = a
  BY DEF Reply
<1>3. CommandFits'
  BY <1>1, <1>2 DEF IInv, CommandFits, Enc
<1>4. SectorFits' /\ FieldFits'
  BY <1>1, <1>2 DEF IInv, SectorFits, FieldFits, Enc
<1>5. Waiting' /\ Promised'
  BY <1>2 DEF Waiting, Promised
<1>. QED BY <1>3, <1>4, <1>5

(* A step of the emulator that leaves the memory and the registers alone.  *)
LEMMA Moving ==
  ASSUME IInv, turn = "tag", Rest1, NEW a, Reply(a), a.kind \in Kinds,
         NEW s \in States, Moves(s), skew' \in Int,
         s = state \/ s \notin ValueOps \cup {"WRITEBL2"}
  PROVE  TypeOK' /\ BlockFits' /\ ReadsFit' /\ MemoryAsTold'
<1>1. TypeOK'
  BY DEF IInv, TypeOK, Moves, Rest1, reader, Reply
<1>2. BlockFits' /\ ReadsFit'
  BY DEF IInv, BlockFits, ReadsFit, Moves, Rest1, reader
<1>3. MemoryAsTold'
  BY DEF IInv, MemoryAsTold, Moves, Rest1, reader
<1>. QED BY <1>1, <1>2, <1>3

LEMMA Advanced ==
  ASSUME IInv, NEW n \in Int, Advance(n)
  PROVE  skew' \in Int
BY DEF IInv, TypeOK, Advance

(* What cardSTATE says about the reader's place.                           *)
LEMMA PlaceOf ==
  ASSUME IInv, turn = "tag", state # "NOFIELD", ~Request
  PROVE  /\ at \in DOMAIN Home \cup {"transfer"}
         /\ at = "halted" => cmd.op = "REQA" /\ state = "HALTED"
         /\ state = "HALTED" => at = "halted"
         /\ state = "SELECT1" => at \in {"ready1", "uid1"}
         /\ state = "SELECT2" => at \in {"ready2", "uid2"}
         /\ state = "AUTH1" => at = "nonce"
         /\ state = "WRITEBL2" => at = "data"
         /\ state = "WORK" => at \in {"active", "transfer"}
         /\ state \in ValueOps => at = state \/ (at = "transfer" /\ ~clean)
         /\ state # "IDLE"
<1>1. cmd.op \in Says[at] /\ at \in Stages
  BY DEF IInv, CommandFits, TypeOK
<1>2. at # "restart"
  BY <1>1 DEF Says, Request
<1>3. at # "start"
  <2>1. at = "start" => state = "IDLE" /\ cmd.op \in {"REQA", "WUPA"}
    BY <1>1 DEF IInv, Waiting, Says
  <2>. QED BY <2>1 DEF Request
<1>4. at \in DOMAIN Home \cup {"transfer"}
  BY <1>1, <1>2, <1>3 DEF Stages, Home
<1>5. at \in DOMAIN Home => state = Home[at]
  BY DEF IInv, Waiting
<1>6. at = "transfer" => state = "WORK" \/ (state \in ValueOps /\ ~clean)
  BY DEF IInv, Waiting
<1>7. at = "halted" => cmd.op = "REQA"
  BY <1>1 DEF Says, Request
<1>. QED BY <1>4, <1>5, <1>6, <1>7 DEF Home, ValueOps

(* In WORK, and in SELECT2 for a command of four bytes, the command can be *)
(* read: the key streams are apart by what was just sent.                  *)
LEMMA CanBeRead ==
  ASSUME IInv, Working
  PROVE  /\ turn = "tag" /\ Legible /\ Together(-Bits(cmd))
         /\ IF state = "WORK" THEN at \in {"active", "transfer"}
                              ELSE at = "ready2" /\ cmd.op = "HLTA"
         /\ at = "transfer" => Value(intReg) \in result
         /\ Bits(cmd) \in Nat
<1>1. turn = "tag" /\ state # "NOFIELD" /\ ~Request
  BY DEF Working, Got
<1>2. cmd.op \in Says[at] /\ cmd.op \in DOMAIN Length /\ skew \in Int
  BY <1>1 DEF IInv, CommandFits, TypeOK
<1>3. Bits(cmd) \in Nat
  BY <1>2, Lengths DEF Bits
<1>4. IF state = "WORK" THEN at \in {"active", "transfer"} ELSE at = "ready2" /\ cmd.op = "HLTA"
  <2>1. CASE state = "WORK"
    BY <1>1, <2>1, PlaceOf
  <2>2. CASE state # "WORK"
    <3>1. state = "SELECT2" /\ Length[cmd.op] = 4
      BY <2>2 DEF Working
    <3>2. cmd.op \in BlockOps \cup {"AUTH", "HLTA", "RATS"} /\ at \in {"ready2", "uid2"}
      BY <1>1, <1>2, <3>1, PlaceOf, Lengths
    <3>. QED BY <1>2, <2>2, <3>2 DEF Says, BlockOps
  <2>. QED BY <2>1, <2>2
<1>5. Together(-Bits(cmd)) /\ (at = "transfer" => Value(intReg) \in result)
  <2>1. OnAir = -Bits(cmd)
    BY <1>1 DEF OnAir
  <2>2. CASE at = "transfer"
    <3>1. state = "WORK"
      BY <1>4, <2>2
    <3>2. Together(OnAir) /\ Value(intReg) \in result
      BY <1>1, <2>2, <3>1 DEF IInv, Waiting, ValueOps
    <3>. QED BY <2>1, <3>2
  <2>3. CASE at # "transfer"
    BY <1>1, <1>4, <2>1, <2>3 DEF IInv, Waiting, Home
  <2>. QED BY <2>2, <2>3
<1>6. Legible
  BY <1>2, <1>3, <1>5 DEF Legible, Together, InStep, Enc
<1>. QED BY <1>1, <1>3, <1>4, <1>5, <1>6
-----------------------------------------------------------------------------
(* One lemma per action of the emulator.                                   *)
LEMMA SigShape ==
  ASSUME NEW k
  PROVE  /\ Sig(k) = Answer(Sig(k).kind, Sig(k).v) /\ Sig(k).kind = k
         /\ Silence = Answer(Silence.kind, Silence.v) /\ Silence.kind = "none"
         /\ Nack = Answer(Nack.kind, Nack.v) /\ Nack.kind = "NACK"
BY DEF Sig, Answer, Silence, Nack

LEMMA EmRequestKeeps == ASSUME IInv, EmRequest PROVE IInv'
<1>1. turn = "tag" /\ Request /\ state # "NOFIELD"
  BY DEF EmRequest, Got
<1>2. cmd.op \in Says[at] /\ at \in Stages
  BY <1>1 DEF IInv, CommandFits, TypeOK
<1>3. cmd.op \in {"WUPA", "REQA"} /\ ~Enc
  <2>1. cmd.op \in {"WUPA", "REQA"}
    BY <1>1 DEF Request
  <2>2. at \in {"start", "halted", "restart"}
    BY <1>2, <2>1 DEF Says, Stages
  <2>. QED BY <2>1, <2>2 DEF IInv, SectorFits, Amid, ValueOps
<1>4. cmd.op = "REQA" => at # "halted"
  BY <1>1 DEF IInv, Waiting, Home, Request
<1>5. TypeOK'
  <2>1. state' \in States /\ turn' = "answer" /\ ans'.kind \in Kinds
    BY DEF EmRequest, Reply, Sig, Answer, Kinds, States
  <2>3. keyed' \in BOOLEAN /\ skew' \in Int
    <3>1. skew' = 0
      BY DEF EmRequest
    <3>2. ~keyed' /\ keyed' \in BOOLEAN
      BY Zenon DEF EmRequest
    <3>. QED BY <3>1, <3>2
  <2>2. UNCHANGED <<param, cmd, field, reader, clean, authSc, wrBl, intReg, mem, numReads, running>>
    BY DEF EmRequest, Rest1
  <2>. QED BY <2>1, <2>2, <2>3 DEF IInv, TypeOK, reader
<1>6. BlockFits' /\ ReadsFit' /\ MemoryAsTold'
  BY DEF EmRequest, IInv, BlockFits, ReadsFit, MemoryAsTold, Rest1, reader, ValueOps
<1>7. CommandFits' /\ SectorFits' /\ FieldFits' /\ Waiting' /\ Promised'
  BY <1>1, Answering, SigShape DEF EmRequest
<1>8. Heard'
  BY <1>3, <1>4 DEF EmRequest, Heard, SelectionHeard, NonceHeard, CipherHeard, AckHeard,
    SilenceHeard, Unanswered, Following, Home, Enciphered, Reply, Sig, Answer, Rest1, reader, Enc
<1>9. ProperOrLost'
  BY <1>3, <1>4 DEF EmRequest, ProperOrLost, Proper, OneOf, Reply, Sig, Answer, Rest1, reader
<1>. QED BY <1>5, <1>6, <1>7, <1>8, <1>9 DEF IInv

LEMMA EmIgnoreKeeps == ASSUME IInv, EmIgnore PROVE IInv'
<1>1. turn = "tag" /\ ~Request /\ Rest1 /\ Reply(Silence) /\ state \in {"IDLE", "HALTED"}
  BY DEF EmIgnore, In, Got, Silent
<1>2. at = "halted" /\ cmd.op = "REQA" /\ state = "HALTED"
  BY <1>1, PlaceOf
<1>3. Moves(state) /\ skew' = skew
  BY DEF EmIgnore, Silent, emulator, Moves
<1>4. TypeOK' /\ BlockFits' /\ ReadsFit' /\ MemoryAsTold'
  BY <1>1, <1>3, Moving, SigShape DEF IInv, TypeOK, Kinds
<1>5. CommandFits' /\ SectorFits' /\ FieldFits' /\ Waiting' /\ Promised'
  BY <1>1, Answering, SigShape
<1>6. Heard' /\ ProperOrLost'
  BY <1>1, <1>2, <1>3, SigShape DEF Heard, SelectionHeard, NonceHeard, CipherHeard, AckHeard,
    SilenceHeard, Unanswered, Following, Enciphered, Reply, Rest1, reader, Moves, ProperOrLost, Proper, OneOf
<1>. QED BY <1>4, <1>5, <1>6 DEF IInv

LEMMA EmSelect1Keeps == ASSUME IInv, EmSelect1 PROVE IInv'
<1>1. turn = "tag" /\ ~Request /\ Rest1 /\ state = "SELECT1" /\ skew' = skew
  BY DEF EmSelect1, In, Got
<1>2. at \in {"ready1", "uid1"}
  BY <1>1, PlaceOf
<1>3. cmd.op \in Says[at] /\ ~Enc /\ ~keyed
  BY <1>1, <1>2 DEF IInv, CommandFits, SectorFits, Amid, ValueOps, Waiting, Together, Home
<1>4. PICK a, s : /\ Reply(a) /\ Moves(s) /\ a = Answer(a.kind, a.v)
                  /\ \/ cmd.op = "SELALL1" /\ a.kind = "UID1" /\ s = "SELECT1"
                     \/ cmd.op = "SELECT1" /\ a.kind = "SAKC" /\ s = "SELECT2" /\ param.seven
                     \/ cmd.op = "SELECT1" /\ a.kind = "SAK" /\ s = "WORK" /\ ~param.seven
                     \/ cmd.op \notin {"SELALL1", "SELECT1"} /\ a.kind = "none" /\ s = "SELECT1"
  <2>1. CASE cmd.op = "SELALL1"
    BY <2>1, SigShape DEF EmSelect1
  <2>2. CASE cmd.op = "SELECT1"
    <3>1. /\ Overlong("SAKC").kind = "SAKC" /\ Overlong("SAK").kind = "SAK"
          /\ \A k \in {"SAK", "SAKC"} : Overlong(k) = Answer(Overlong(k).kind, Overlong(k).v)
      BY DEF Overlong, Answer
    <3>. QED BY <2>2, <3>1 DEF EmSelect1
  <2>3. CASE cmd.op \notin {"SELALL1", "SELECT1"}
    BY <1>1, <2>3, SigShape DEF EmSelect1, Silent, emulator, Moves
  <2>. QED BY <2>1, <2>2, <2>3
<1>5. TypeOK' /\ BlockFits' /\ ReadsFit' /\ MemoryAsTold'
  <2>1. a.kind \in Kinds /\ s \in States /\ s \notin ValueOps \cup {"WRITEBL2"} /\ skew' \in Int
    BY <1>1, <1>4 DEF Kinds, States, ValueOps, IInv, TypeOK
  <2>. QED BY <1>1, <1>4, <2>1, Moving
<1>6. CommandFits' /\ SectorFits' /\ FieldFits' /\ Waiting' /\ Promised'
  BY <1>1, <1>4, Answering
<1>7. Heard'
  <2>1. state' = s /\ ans' = a /\ cmd' = cmd /\ at' = at /\ sector' = sector /\ keyed' = keyed
    BY <1>1, <1>4 DEF Reply, Moves, Rest1, reader
  <2>. QED BY <1>2, <1>3, <1>4, <2>1 DEF Heard, SelectionHeard, NonceHeard, CipherHeard,
       AckHeard, SilenceHeard, Unanswered, Following, Home, Enciphered, Says, Enc
<1>8. ProperOrLost'
  <2>1. ans' = a /\ cmd' = cmd /\ at' = at /\ param' = param
    BY <1>1, <1>4 DEF Reply, Rest1, reader
  <2>. QED BY <1>2, <1>3, <1>4, <2>1 DEF ProperOrLost, Proper, OneOf, Says
<1>. QED BY <1>5, <1>6, <1>7, <1>8 DEF IInv
LEMMA EmSelect2Keeps == ASSUME IInv, EmSelect2 PROVE IInv'
<1>1. turn = "tag" /\ ~Request /\ Rest1 /\ state = "SELECT2" /\ skew' = skew
  BY DEF EmSelect2, In, Got
<1>2. at \in {"ready2", "uid2"}
  BY <1>1, PlaceOf
<1>3. cmd.op \in Says[at] /\ ~Enc /\ ~keyed
  BY <1>1, <1>2 DEF IInv, CommandFits, SectorFits, Amid, ValueOps, Waiting, Together, Home
<1>4. PICK a, s : /\ Reply(a) /\ Moves(s) /\ a = Answer(a.kind, a.v)
                  /\ \/ cmd.op = "SELALL2" /\ a.kind = "UID2" /\ s = "SELECT2"
                     \/ cmd.op = "SELECT2" /\ a.kind = "SAK" /\ s = "WORK"
                     \/ /\ cmd.op \notin {"SELALL2", "SELECT2", "HLTA"}
                        /\ a.kind = "none" /\ s = "SELECT2"
  <2>1. CASE cmd.op = "SELALL2"
    BY <2>1, SigShape DEF EmSelect2
  <2>2. CASE cmd.op = "SELECT2"
    BY <2>2, SigShape DEF EmSelect2
  <2>3. CASE cmd.op \notin {"SELALL2", "SELECT2"}
    BY <1>1, <2>3, SigShape DEF EmSelect2, Silent, emulator, Moves, Length
  <2>. QED BY <2>1, <2>2, <2>3
<1>5. TypeOK' /\ BlockFits' /\ ReadsFit' /\ MemoryAsTold'
  <2>1. a.kind \in Kinds /\ s \in States /\ s \notin ValueOps \cup {"WRITEBL2"} /\ skew' \in Int
    BY <1>1, <1>4 DEF Kinds, States, ValueOps, IInv, TypeOK
  <2>. QED BY <1>1, <1>4, <2>1, Moving
<1>6. CommandFits' /\ SectorFits' /\ FieldFits' /\ Waiting' /\ Promised'
  BY <1>1, <1>4, Answering
<1>7. Heard'
  <2>1. state' = s /\ ans' = a /\ cmd' = cmd /\ at' = at /\ sector' = sector /\ keyed' = keyed
    BY <1>1, <1>4 DEF Reply, Moves, Rest1, reader
  <2>. QED BY <1>2, <1>3, <1>4, <2>1 DEF Heard, SelectionHeard, NonceHeard, CipherHeard,
       AckHeard, SilenceHeard, Unanswered, Following, Home, Enciphered, Says, Enc
<1>8. ProperOrLost'
  <2>1. ans' = a /\ cmd' = cmd /\ at' = at /\ param' = param
    BY <1>1, <1>4 DEF Reply, Rest1, reader
  <2>. QED BY <1>2, <1>3, <1>4, <2>1 DEF ProperOrLost, Proper, OneOf, Says
<1>. QED BY <1>5, <1>6, <1>7, <1>8 DEF IInv

LEMMA EmNrarKeeps == ASSUME IInv, EmNrar PROVE IInv'
<1>1. turn = "tag" /\ ~Request /\ Rest1 /\ state = "AUTH1"
  BY DEF EmNrar, In, Got
<1>2. at = "nonce"
  BY <1>1, PlaceOf
<1>3. cmd.op = "NRAR" /\ Enc /\ InStep(-16)
  <2>1. cmd.op = "NRAR"
    BY <1>1, <1>2 DEF IInv, CommandFits, Says
  <2>2. Enc
    BY <1>2 DEF IInv, SectorFits, Amid
  <2>3. Together(OnAir) /\ OnAir = -16
    BY <1>1, <1>2, <2>1 DEF IInv, Waiting, Home, OnAir, Bits, Length
  <2>. QED BY <2>1, <2>2, <2>3 DEF Together
<1>4. PICK a, s : /\ Reply(a) /\ Moves(s) /\ a = Answer(a.kind, a.v) /\ skew' \in Int
                  /\ \/ a.kind = "AT" /\ cmd.v = 1 /\ s = "WORK" /\ skew' = 8
                     \/ a.kind = "none" /\ cmd.v # 1 /\ s = "IDLE"
  <2>1. CASE cmd.v = 1
    <3>1. Reply(Sig("AT")) /\ Moves("WORK") /\ Advance(24)
      BY <1>3, <2>1 DEF EmNrar
    <3>2. skew' = 8
      BY <1>3, <3>1 DEF Advance, InStep
    <3>. QED BY <2>1, <3>1, <3>2, SigShape
  <2>2. CASE cmd.v # 1
    <3>1. Reply(Silence) /\ Moves("IDLE") /\ Advance(16)
      BY <1>3, <2>2 DEF EmNrar
    <3>. QED BY <2>2, <3>1, SigShape, Advanced
  <2>. QED BY <2>1, <2>2
<1>5. TypeOK' /\ BlockFits' /\ ReadsFit' /\ MemoryAsTold'
  <2>1. a.kind \in Kinds /\ s \in States /\ s \notin ValueOps \cup {"WRITEBL2"}
    BY <1>4 DEF Kinds, States, ValueOps
  <2>. QED BY <1>1, <1>4, <2>1, Moving
<1>6. CommandFits' /\ SectorFits' /\ FieldFits' /\ Waiting' /\ Promised'
  BY <1>1, <1>4, Answering
<1>7. /\ state' = s /\ ans' = a /\ cmd' = cmd /\ at' = at /\ sector' = sector
      /\ keyed' = keyed /\ authSc' = authSc
  BY <1>1, <1>4 DEF Reply, Moves, Rest1, reader
<1>8. Heard'
  BY <1>2, <1>3, <1>4, <1>7, HalfBytesOf DEF Heard, SelectionHeard, NonceHeard, CipherHeard,
     AckHeard, SilenceHeard, Unanswered, Following, Enciphered, Enc, Together, InStep
<1>9. ProperOrLost'
  BY <1>3, <1>4, <1>7 DEF ProperOrLost, Proper, OneOf
<1>. QED BY <1>5, <1>6, <1>8, <1>9 DEF IInv

(* What every command read in WORK has in common: the reader expects its   *)
(* answer there, and the memory is what it was.                            *)
LEMMA Responded ==
  ASSUME IInv, Working, NEW a, Respond(a)
  PROVE  /\ skew' \in Int
         /\ turn' = "answer" /\ ans' = a
         /\ cmd' = cmd /\ at' = at /\ sector' = sector /\ book' = book
         /\ result' = result /\ param' = param /\ field' = field /\ clean' = clean
         /\ IF Enc THEN keyed /\ authSc = sector /\ skew' = HalfBytes(a)
                   ELSE ~keyed
<1>1. Together(-Bits(cmd)) /\ Bits(cmd) \in Nat
  BY CanBeRead
<1>2. Reply(a) /\ Advance(Bits(cmd) + HalfBytes(a)) /\ HalfBytes(a) \in Nat
  BY HalfBytesOf DEF Respond
<1>3. skew' \in Int
  <2>1. Bits(cmd) + HalfBytes(a) \in Int
    BY <1>1, <1>2
  <2>. QED BY <1>2, <2>1, Advanced
<1>4. /\ turn' = "answer" /\ ans' = a
      /\ cmd' = cmd /\ at' = at /\ sector' = sector /\ book' = book
      /\ result' = result /\ param' = param /\ field' = field /\ clean' = clean
  BY <1>2 DEF Working, Rest1, reader, Reply
<1>5. CASE Enc
  <2>1. keyed /\ authSc = sector /\ skew = -Bits(cmd)
    BY <1>1, <1>5 DEF Together, InStep
  <2>2. skew' = skew + (Bits(cmd) + HalfBytes(a))
    BY <1>2, <2>1 DEF Advance
  <2>3. skew' = HalfBytes(a)
    BY <1>1, <1>2, <2>1, <2>2
  <2>. QED BY <1>3, <1>4, <1>5, <2>1, <2>3
<1>6. CASE ~Enc
  BY <1>1, <1>3, <1>4, <1>6 DEF Together
<1>. QED BY <1>5, <1>6
(* What an answer in WORK has to leave behind, besides the types.          *)
LEMMA WorkKeeps ==
  ASSUME IInv, Working, Rest1, NEW a, Respond(a), a = Answer(a.kind, a.v),
         a.kind \in {"BLOCK", "ACK", "NACK"},
         keyed' = keyed, authSc' = authSc,
         TypeOK', BlockFits', ReadsFit', MemoryAsTold', AckHeard', ProperOrLost',
         a.kind # "ACK" => state' = "WORK",
         a.kind = "BLOCK" => cmd.op = "READ" /\ cmd.b \in Blocks /\ a.v = mem'[cmd.b],
         a.kind = "NACK" => at \in {"active", "transfer"}
  PROVE  IInv'
<1>1. turn = "tag" /\ Reply(a)
  BY CanBeRead DEF Respond
<1>2. CommandFits' /\ SectorFits' /\ FieldFits' /\ Waiting' /\ Promised'
  BY <1>1, Answering
<1>3. SelectionHeard' /\ NonceHeard' /\ SilenceHeard'
  BY Responded DEF SelectionHeard, NonceHeard, SilenceHeard, Following
<1>5. Unanswered'
  <2>1. cmd.op \in Says[at] /\ at \in {"active", "transfer", "ready2"}
    BY <1>1, CanBeRead DEF IInv, CommandFits
  <2>. QED BY <2>1, Responded DEF Unanswered, Says
<1>4. CipherHeard'
  BY Responded DEF CipherHeard, Together, InStep, Enc
<1>. QED BY <1>2, <1>3, <1>4, <1>5 DEF IInv, Heard

(* Only the Boolean half of Refused matters to a reader: the block it is   *)
(* refused is not on the card, or not in the sector that is open.          *)
LEMMA RefusedOrOnCard ==
  ASSUME IInv, Working, cmd.op \in BlockOps
  PROVE  /\ at \in {"active", "transfer"} /\ Open = authSc
         /\ Refused <=> ~OnCard(cmd.b)
         /\ OnCard(cmd.b) => cmd.b \in Blocks
         /\ cmd.op = "TRANSFER" <=> at = "transfer"
<1>1. turn = "tag" /\ Together(-Bits(cmd))
  BY CanBeRead
<1>2. cmd.b \in AnyBlock /\ cmd.op \in Says[at] /\ at \in Stages
  BY <1>1 DEF IInv, CommandFits, TypeOK
<1>3. Open = authSc
  BY <1>1 DEF Together, InStep, Open
<1>4. Refused <=> ~OnCard(cmd.b)
  <2>1. CASE cmd.b \in Blocks
    <3>1. ~(cmd.b >= 64)
      <4>1. cmd.b \in 0..63
        BY <2>1, ZenonT(60)
      <4>. QED BY <4>1
    <3>. QED BY <1>3, <2>1, <3>1 DEF Refused, OnCard
  <2>2. CASE cmd.b \notin Blocks
    <3>1. cmd.b \in 64..255
      BY <1>2, <2>2, ZenonT(60) DEF AnyBlock
    <3>. QED BY <2>2, <3>1 DEF Refused, OnCard
  <2>. QED BY <2>1, <2>2
<1>5. at \in {"active", "transfer"} /\ (cmd.op = "TRANSFER" <=> at = "transfer")
  <2>1. at \in {"active", "transfer"} \/ (at = "ready2" /\ cmd.op = "HLTA")
    BY CanBeRead
  <2>. QED BY <1>2, <2>1 DEF Says, BlockOps
<1>. QED BY <1>2, <1>3, <1>4, <1>5 DEF OnCard

(* A plain answer that moves to WORK.                                      *)
LEMMA WorkMoves ==
  ASSUME IInv, Working, NEW k \in {"ACK", "NACK"}, Respond(Sig(k)), Moves("WORK"),
         k = "ACK" => cmd.op = "NAK", k = "NACK" => at \in {"active", "transfer"},
         ProperOrLost'
  PROVE  IInv'
<1>1. Rest1 /\ turn = "tag" /\ Reply(Sig(k))
  BY CanBeRead DEF Working, Respond
<1>2. /\ Sig(k).kind = k /\ Sig(k) = Answer(Sig(k).kind, Sig(k).v)
      /\ skew' \in Int /\ cmd' = cmd /\ ans' = Sig(k)
  BY SigShape, Responded
<1>3. k \in Kinds /\ "WORK" \in States /\ "WORK" \notin ValueOps \cup {"WRITEBL2"}
  BY DEF Kinds, States, ValueOps
<1>4. TypeOK' /\ BlockFits' /\ ReadsFit' /\ MemoryAsTold'
  BY <1>1, <1>2, <1>3, Moving
<1>5. AckHeard'
  BY <1>2 DEF AckHeard, Moves
<1>6. keyed' = keyed /\ authSc' = authSc /\ state' = "WORK"
  BY DEF Moves
<1>. QED BY <1>1, <1>2, <1>4, <1>5, <1>6, WorkKeeps

LEMMA EmAckNakKeeps == ASSUME IInv, EmAckNak PROVE IInv'
<1>1. PICK k \in {"ACK", "NACK"} :
        /\ Working /\ Respond(Sig(k)) /\ Moves("WORK")
        /\ k = "ACK" => cmd.op = "NAK"
        /\ k = "NACK" => cmd.op = "ACK"
  BY DEF EmAckNak, Work, Nack
<1>2. at \in {"active", "transfer"}
  BY <1>1, CanBeRead
<1>3. cmd' = cmd /\ ans' = Sig(k)
  BY <1>1, Responded
<1>4. ProperOrLost'
  BY <1>1, <1>3, SigShape DEF ProperOrLost, Proper, OneOf
<1>. QED BY <1>1, <1>2, <1>4, WorkMoves

LEMMA EmRefuseKeeps == ASSUME IInv, EmRefuse PROVE IInv'
<1>1. Working /\ cmd.op \in BlockOps /\ Refused /\ Respond(Sig("NACK")) /\ Moves("WORK")
  BY DEF EmRefuse, Work, Nack
<1>2. at \in {"active", "transfer"} /\ ~OnCard(cmd.b)
  BY <1>1, RefusedOrOnCard
<1>3. cmd' = cmd /\ ans' = Sig("NACK") /\ sector' = sector /\ authSc' = authSc
  BY <1>1, Responded DEF Moves
<1>4. ProperOrLost'
  BY <1>1, <1>2, <1>3, SigShape DEF ProperOrLost, Proper, OneOf, BlockOps, OnCard,
    ValueAnswer, Open, Enc
<1>. QED BY <1>1, <1>2, <1>4, WorkMoves

LEMMA EmNotAllowedKeeps == ASSUME IInv, EmNotAllowed PROVE IInv'
<1>1. Working /\ cmd.op = "RATS" /\ Respond(Sig("NACK")) /\ Moves("WORK")
  BY CanBeRead DEF EmNotAllowed, Nack
<1>2. at \in {"active", "transfer"}
  BY <1>1, CanBeRead
<1>3. cmd' = cmd /\ ans' = Sig("NACK")
  BY <1>1, Responded
<1>4. ProperOrLost'
  BY <1>1, <1>3, SigShape DEF ProperOrLost, Proper, OneOf
<1>. QED BY <1>1, <1>2, <1>4, WorkMoves
LEMMA EmAuthKeeps == ASSUME IInv, EmAuth PROVE IInv'
<1>1. Working /\ Rest1 /\ cmd.op = "AUTH" /\ Reply(Sig("NT")) /\ turn = "tag"
  BY CanBeRead DEF EmAuth, Work, Working
<1>2. cmd.b \in Blocks /\ Sig("NT").kind = "NT"
  BY <1>1, SigShape DEF IInv, CommandFits
<1>3. /\ ans' = Sig("NT") /\ turn' = "answer" /\ cmd' = cmd /\ at' = at
      /\ UNCHANGED <<param, cmd, field, at, sector, result, book, clean, wrBl, intReg, mem, numReads, running>>
  BY <1>1 DEF Reply, Rest1, reader, EmAuth
<1>4. /\ authSc' = SectorOf(cmd.b) /\ keyed' = TRUE /\ skew' = 0 /\ state' = "AUTH1"
  BY DEF EmAuth
<1>5. TypeOK'
  <2>1. authSc' \in 0..15
    BY <1>2, <1>4, SectorTyped, ZenonT(60)
  <2>2. state' \in States /\ ans'.kind \in Kinds
    BY <1>2, <1>3, <1>4 DEF States, Kinds
  <2>. QED BY <1>3, <1>4, <2>1, <2>2 DEF IInv, TypeOK
<1>6. BlockFits' /\ ReadsFit' /\ MemoryAsTold'
  BY <1>3, <1>4 DEF IInv, BlockFits, ReadsFit, MemoryAsTold, ValueOps
<1>7. CommandFits' /\ SectorFits' /\ FieldFits' /\ Waiting' /\ Promised'
  BY <1>1, Answering, SigShape
<1>8. Heard'
  BY <1>1, <1>2, <1>3, <1>4 DEF Heard, SelectionHeard, NonceHeard, CipherHeard, AckHeard,
    SilenceHeard, Unanswered, Following, Enciphered
<1>9. ProperOrLost'
  BY <1>1, <1>2, <1>3 DEF ProperOrLost, Proper, OneOf
<1>. QED BY <1>5, <1>6, <1>7, <1>8, <1>9 DEF IInv

LEMMA EmReadKeeps == ASSUME IInv, EmRead PROVE IInv'
<1>. DEFINE a == Answer("BLOCK", mem[cmd.b])
<1>1. /\ Working /\ Rest1 /\ cmd.op = "READ" /\ ~Refused /\ Respond(a)
      /\ turn = "tag" /\ running
  BY CanBeRead DEF EmRead, Work, Working, Got
<1>2. a = Answer(a.kind, a.v) /\ a.kind = "BLOCK" /\ a.v = mem[cmd.b]
  BY DEF Answer
<1>3. OnCard(cmd.b) /\ cmd.b \in Blocks
  BY <1>1, RefusedOrOnCard DEF BlockOps
<1>4. /\ skew' \in Int /\ turn' = "answer" /\ ans' = a
      /\ UNCHANGED <<param, cmd, field, at, sector, result, book, clean, keyed, authSc, wrBl, intReg, mem>>
      /\ state' = "WORK"
  BY <1>1, Responded DEF EmRead, Rest1, reader
<1>. HIDE DEF a
<1>5. numReads' \in 0..param.exitAfter /\ ReadsFit' /\ running' \in BOOLEAN
  <2>1. param.exitAfter \in Nat
    BY DEF IInv, TypeOK
  <2>2. numReads \in 0..param.exitAfter /\ (param.exitAfter = 0 \/ numReads < param.exitAfter)
    BY <1>1 DEF IInv, TypeOK, ReadsFit
  <2>3. /\ numReads' = IF param.exitAfter > 0 THEN numReads + 1 ELSE numReads
        /\ running' = (param.exitAfter = 0 \/ numReads + 1 # param.exitAfter)
    BY DEF EmRead
  <2>4. numReads' \in 0..param.exitAfter
    BY <2>1, <2>2, <2>3
  <2>5. param.exitAfter # 0 /\ running' => numReads + 1 < param.exitAfter
    <3>1. running' => param.exitAfter = 0 \/ numReads + 1 # param.exitAfter
      BY <2>3
    <3>2. numReads \in Nat
      BY <2>1, <2>2
    <3>. QED BY <2>1, <2>2, <3>1, <3>2
  <2>6. ReadsFit'
    BY <1>4, <2>1, <2>3, <2>5 DEF ReadsFit
  <2>. QED BY <2>3, <2>4, <2>6
<1>6. TypeOK'
  <2>1. state' \in States /\ ans'.kind \in Kinds
    BY <1>2, <1>4 DEF States, Kinds
  <2>. QED BY <1>4, <1>5, <2>1 DEF IInv, TypeOK
<1>7. BlockFits' /\ MemoryAsTold'
  BY <1>4 DEF IInv, BlockFits, MemoryAsTold, ValueOps
<1>8. AckHeard'
  BY <1>2, <1>4 DEF AckHeard
<1>9. ProperOrLost'
  <2>1. mem[cmd.b] \in book[cmd.b]
    BY <1>3 DEF IInv, MemoryAsTold
  <2>. QED BY <1>1, <1>2, <1>3, <1>4, <2>1 DEF ProperOrLost, Proper, OneOf, OnCard, Open, Enc
<1>. QED BY <1>1, <1>2, <1>3, <1>4, <1>5, <1>6, <1>7, <1>8, <1>9, WorkKeeps

LEMMA EmWriteKeeps == ASSUME IInv, EmWrite PROVE IInv'
<1>1. /\ Working /\ Rest1 /\ cmd.op = "WRITE" /\ ~Refused /\ Respond(Sig("ACK"))
      /\ turn = "tag" /\ Sig("ACK").kind = "ACK"
      /\ Sig("ACK") = Answer(Sig("ACK").kind, Sig("ACK").v)
  BY CanBeRead, SigShape DEF EmWrite, Work, Working
<1>2. OnCard(cmd.b) /\ cmd.b \in Blocks
  BY <1>1, RefusedOrOnCard DEF BlockOps
<1>3. /\ skew' \in Int /\ turn' = "answer" /\ ans' = Sig("ACK")
      /\ UNCHANGED <<param, cmd, field, at, sector, result, book, clean, keyed, authSc, intReg,
                     mem, numReads, running>>
      /\ state' = "WRITEBL2" /\ wrBl' = cmd.b
  BY <1>1, Responded DEF EmWrite, Rest1, reader
<1>4. TypeOK'
  <2>1. state' \in States /\ ans'.kind \in Kinds /\ wrBl' \in 0..63
    BY <1>1, <1>2, <1>3, SectorTyped, ZenonT(60) DEF States, Kinds
  <2>. QED BY <1>3, <2>1 DEF IInv, TypeOK
<1>5. BlockFits' /\ ReadsFit' /\ MemoryAsTold'
  BY <1>2, <1>3 DEF IInv, BlockFits, ReadsFit, MemoryAsTold, ValueOps
<1>6. AckHeard'
  BY <1>1, <1>2, <1>3 DEF AckHeard, OpenBlock, OnCard, Open, Enc
<1>7. ProperOrLost'
  BY <1>1, <1>2, <1>3 DEF ProperOrLost, Proper, OneOf, OnCard, Open, Enc
<1>. QED BY <1>1, <1>3, <1>4, <1>5, <1>6, <1>7, WorkKeeps

LEMMA EmValueOpKeeps == ASSUME IInv, EmValueOp PROVE IInv'
<1>1. /\ Working /\ Rest1 /\ cmd.op \in ValueOps /\ ~Refused /\ turn = "tag"
  BY CanBeRead DEF EmValueOp, Work, Working, ValueOps
<1>2. /\ OnCard(cmd.b) /\ cmd.b \in Blocks /\ at \in {"active", "transfer"}
      /\ mem[cmd.b] \in book[cmd.b]
  BY <1>1, RefusedOrOnCard DEF BlockOps, ValueOps, IInv, MemoryAsTold
<1>3. CASE mem[cmd.b] \in Values
  <2>1. Respond(Sig("ACK")) /\ state' = cmd.op /\ wrBl' = cmd.b
    BY <1>3 DEF EmValueOp
  <2>2. Sig("ACK").kind = "ACK" /\ Sig("ACK") = Answer(Sig("ACK").kind, Sig("ACK").v)
    BY SigShape
  <2>3. /\ skew' \in Int /\ turn' = "answer" /\ ans' = Sig("ACK")
        /\ UNCHANGED <<param, cmd, field, at, sector, result, book, clean, keyed, authSc, intReg,
                       mem, numReads, running>>
    BY <1>1, <2>1, Responded DEF EmValueOp, Rest1, reader
  <2>4. TypeOK'
    <3>1. state' \in States /\ ans'.kind \in Kinds /\ wrBl' \in 0..63
      BY <1>1, <1>2, <2>1, <2>2, <2>3, SectorTyped, ZenonT(60) DEF States, Kinds, ValueOps
    <3>. QED BY <2>3, <3>1 DEF IInv, TypeOK
  <2>5. BlockFits' /\ ReadsFit' /\ MemoryAsTold'
    BY <1>2, <1>3, <2>1, <2>3 DEF IInv, BlockFits, ReadsFit, MemoryAsTold, ValueOps
  <2>6. AckHeard'
    BY <1>1, <1>2, <2>1, <2>2, <2>3 DEF AckHeard, OpenBlock, OnCard, Open, Enc
  <2>7. ProperOrLost'
    <3>1. ans'.kind \in ValueAnswer(cmd.b)'
      BY <1>2, <1>3, <2>2, <2>3 DEF ValueAnswer, OnCard, Open, Enc
    <3>. QED BY <1>1, <2>2, <2>3, <3>1 DEF ProperOrLost, Proper, OneOf, ValueOps
  <2>. QED BY <1>1, <2>1, <2>2, <2>3, <2>4, <2>5, <2>6, <2>7, WorkKeeps
<1>4. CASE mem[cmd.b] \notin Values
  <2>1. Respond(Sig("NACK")) /\ Moves("WORK")
    BY <1>4 DEF EmValueOp, Nack, Moves
  <2>2. /\ ans' = Sig("NACK") /\ Sig("NACK").kind = "NACK"
        /\ UNCHANGED <<cmd, sector, authSc, book>>
    BY <1>1, <2>1, Responded, SigShape DEF Moves
  <2>3. ans'.kind \in ValueAnswer(cmd.b)'
    BY <1>2, <1>4, <2>2 DEF ValueAnswer, OnCard, Open, Enc
  <2>4. ProperOrLost'
    BY <1>1, <2>2, <2>3 DEF ProperOrLost, Proper, OneOf, ValueOps
  <2>. QED BY <1>1, <1>2, <2>1, <2>4, WorkMoves
<1>. QED BY <1>3, <1>4
LEMMA EmTransferKeeps == ASSUME IInv, EmTransfer PROVE IInv'
<1>1. /\ Working /\ Rest1 /\ cmd.op = "TRANSFER" /\ ~Refused /\ Respond(Sig("ACK"))
      /\ turn = "tag" /\ Sig("ACK").kind = "ACK"
      /\ Sig("ACK") = Answer(Sig("ACK").kind, Sig("ACK").v)
  BY CanBeRead, SigShape DEF EmTransfer, Work, Working
<1>2. OnCard(cmd.b) /\ cmd.b \in Blocks /\ at = "transfer"
  BY <1>1, RefusedOrOnCard DEF BlockOps
<1>3. Value(intReg) \in result /\ result \subseteq book[cmd.b]
  BY <1>1, <1>2, CanBeRead DEF IInv, Promised, OnCard
<1>4. /\ skew' \in Int /\ turn' = "answer" /\ ans' = Sig("ACK") /\ state' = "WORK"
      /\ UNCHANGED <<param, cmd, field, at, sector, result, book, clean, keyed, authSc, wrBl,
                     intReg, numReads, running>>
      /\ mem' = [mem EXCEPT ![cmd.b] = Value(intReg)]
  BY <1>1, Responded DEF EmTransfer, Rest1, reader
<1>5. mem'[cmd.b] = Value(intReg) /\ mem' \in [Blocks -> Contents]
  <2>1. mem \in [Blocks -> Contents] /\ Value(intReg) \in Contents
    BY ValueTyped DEF IInv, TypeOK, Contents
  <2>. QED BY <1>2, <1>4, <2>1
<1>6. TypeOK'
  <2>1. state' \in States /\ ans'.kind \in Kinds
    BY <1>1, <1>4 DEF States, Kinds
  <2>. QED BY <1>4, <1>5, <2>1 DEF IInv, TypeOK
<1>7. BlockFits' /\ ReadsFit'
  BY <1>4 DEF IInv, BlockFits, ReadsFit, ValueOps
<1>8. MemoryAsTold'
  <2>1. \A b \in Blocks : mem'[b] = IF b = cmd.b THEN Value(intReg) ELSE mem[b]
    BY <1>4 DEF IInv, TypeOK
  <2>. QED BY <1>3, <1>4, <2>1 DEF IInv, MemoryAsTold
<1>9. AckHeard'
  BY <1>1, <1>3, <1>4, <1>5 DEF AckHeard
<1>10. ProperOrLost'
  BY <1>1, <1>2, <1>4 DEF ProperOrLost, Proper, OneOf, OnCard, Open, Enc
<1>. QED BY <1>1, <1>4, <1>6, <1>7, <1>8, <1>9, <1>10, WorkKeeps

(* Commands in WORK that are not answered.                                 *)
LEMMA SilentMoves ==
  ASSUME IInv, Working, Rest1, Reply(Silence), NEW s \in {"WORK", "HALTED"}, Moves(s),
         Advance(Bits(cmd)), cmd.op \in {"HLTA", "PPS"}, cmd.op = "HLTA" => s = "HALTED"
  PROVE  IInv'
<1>1. turn = "tag" /\ Bits(cmd) \in Nat
  BY CanBeRead
<1>2. skew' \in Int
  BY <1>1, Advanced
<1>3. Silence = Answer(Silence.kind, Silence.v) /\ Silence.kind = "none"
  BY SigShape
<1>4. TypeOK' /\ BlockFits' /\ ReadsFit' /\ MemoryAsTold'
  <2>1. "none" \in Kinds /\ s \in States /\ s \notin ValueOps \cup {"WRITEBL2"}
    BY DEF Kinds, States, ValueOps
  <2>. QED BY <1>1, <1>2, <1>3, <2>1, Moving
<1>5. CommandFits' /\ SectorFits' /\ FieldFits' /\ Waiting' /\ Promised'
  BY <1>1, <1>3, Answering
<1>6. ans' = Silence /\ cmd' = cmd /\ at' = at /\ state' = s
  BY DEF Reply, Rest1, reader, Moves
<1>7. Heard'
  BY <1>3, <1>6 DEF Heard, SelectionHeard, NonceHeard, CipherHeard, AckHeard,
    SilenceHeard, Unanswered, Following, Enciphered
<1>8. ProperOrLost'
  BY <1>3, <1>6 DEF ProperOrLost, Proper, OneOf
<1>. QED BY <1>4, <1>5, <1>7, <1>8 DEF IInv

LEMMA EmHaltKeeps == ASSUME IInv, EmHalt PROVE IInv'
BY SilentMoves DEF EmHalt, Work, Working

LEMMA EmWrongLengthKeeps == ASSUME IInv, EmWrongLength PROVE IInv'
<1>1. Working /\ Legible /\ at \in {"active", "transfer", "ready2"}
  BY CanBeRead DEF EmWrongLength
<1>2. cmd.op \in Says[at] /\ cmd.op \in DOMAIN Length /\ turn = "tag"
  BY CanBeRead DEF EmWrongLength, IInv, CommandFits, TypeOK
<1>3. cmd.op \notin BlockOps \cup {"AUTH", "HLTA", "RATS"} /\ cmd.op \notin {"ACK", "NAK"}
  BY <1>1, <1>2, Lengths DEF EmWrongLength
<1>4. cmd.op = "PPS"
  <2>1. at = "ready2" => cmd.op = "HLTA"
    BY <1>1, CanBeRead
  <2>. QED BY <1>1, <1>2, <1>3, <2>1 DEF Says, BlockOps
<1>. QED BY <1>1, <1>4, SilentMoves DEF EmWrongLength, Working

LEMMA EmWriteDataKeeps == ASSUME IInv, EmWriteData PROVE IInv'
<1>1. turn = "tag" /\ ~Request /\ Rest1 /\ state = "WRITEBL2"
  BY DEF EmWriteData, In, Got
<1>2. at = "data"
  BY <1>1, PlaceOf
<1>3. cmd.op = "DATA" /\ OpenBlock /\ Together(-Bits(cmd)) /\ Bits(cmd) \in Nat
  <2>1. cmd.op = "DATA"
    BY <1>1, <1>2 DEF IInv, CommandFits, Says
  <2>2. OpenBlock /\ Together(OnAir) /\ OnAir = -Bits(cmd)
    BY <1>1, <1>2, <2>1 DEF IInv, Waiting, Home, OnAir
  <2>3. Bits(cmd) \in Nat
    BY <2>1 DEF Bits, Length
  <2>. QED BY <2>1, <2>2, <2>3
<1>4. cmd.v \in book[cmd.b] /\ cmd.b \in Blocks /\ wrBl = cmd.b /\ cmd.v \in Contents
  BY <1>1, <1>3 DEF IInv, Promised, OpenBlock, CommandFits
<1>5. Sig("ACK") = Answer(Sig("ACK").kind, Sig("ACK").v) /\ Sig("ACK").kind = "ACK"
  BY SigShape
<1>6. HalfBytes(Sig("ACK")) = 1
  BY <1>5, HalfBytesOf
<1>7. /\ Reply(Sig("ACK")) /\ state' = "WORK" /\ mem' = [mem EXCEPT ![cmd.b] = cmd.v]
      /\ turn' = "answer" /\ ans' = Sig("ACK")
      /\ UNCHANGED <<param, cmd, field, at, sector, result, book, clean, keyed, authSc, wrBl,
                     intReg, numReads, running>>
  BY <1>1, <1>3, <1>4 DEF EmWriteData, Respond, Reply, Rest1, reader
<1>8. skew' \in Int /\ IF Enc THEN keyed /\ authSc = sector /\ skew' = 1 ELSE ~keyed
  <2>1. Advance(Bits(cmd) + 1) /\ Bits(cmd) + 1 \in Int
    BY <1>3, <1>6 DEF EmWriteData, Respond
  <2>2. skew' \in Int
    BY <2>1, Advanced
  <2>3. Enc => keyed /\ authSc = sector /\ skew' = -Bits(cmd) + (Bits(cmd) + 1)
    BY <1>3, <2>1 DEF Advance, Together, InStep
  <2>. QED BY <1>3, <2>2, <2>3 DEF Together
<1>9. mem' \in [Blocks -> Contents] /\ \A b \in Blocks : mem'[b] = IF b = cmd.b THEN cmd.v ELSE mem[b]
  BY <1>4, <1>7 DEF IInv, TypeOK
<1>10. TypeOK'
  <2>1. state' \in States /\ ans'.kind \in Kinds
    BY <1>5, <1>7 DEF States, Kinds
  <2>. QED BY <1>7, <1>8, <1>9, <2>1 DEF IInv, TypeOK
<1>11. BlockFits' /\ ReadsFit'
  BY <1>7 DEF IInv, BlockFits, ReadsFit, ValueOps
<1>12. MemoryAsTold'
  BY <1>4, <1>7, <1>9 DEF IInv, MemoryAsTold
<1>13. CommandFits' /\ SectorFits' /\ FieldFits' /\ Waiting' /\ Promised'
  BY <1>1, <1>5, <1>7, Answering
<1>14. Heard'
  BY <1>3, <1>4, <1>5, <1>6, <1>7, <1>8, <1>9 DEF Heard, SelectionHeard, NonceHeard, CipherHeard,
    AckHeard, SilenceHeard, Unanswered, Following, Enciphered, Together, InStep, Enc
<1>15. ProperOrLost'
  BY <1>3, <1>5, <1>7 DEF ProperOrLost, Proper, OneOf
<1>. QED BY <1>10, <1>11, <1>12, <1>13, <1>14, <1>15 DEF IInv
LEMMA EmOperandKeeps == ASSUME IInv, EmOperand PROVE IInv'
<1>1. PICK op \in ValueOps, x \in OperandOf(cmd) :
        /\ In(op) /\ intReg' = Computed(op, mem[wrBl].value, x)
        /\ Reply(Silence) /\ Advance(Bits(cmd)) /\ state' = "WORK"
        /\ UNCHANGED <<keyed, authSc, wrBl, mem, numReads, running>>
  BY DEF EmOperand, ValueOps
<1>2. turn = "tag" /\ ~Request /\ Rest1 /\ state = op /\ state # "NOFIELD"
  BY <1>1 DEF In, Got
<1>3. at = op \/ (at = "transfer" /\ ~clean)
  BY <1>2, PlaceOf
<1>4. cmd.op \in Says[at] /\ cmd.op = IF at = op THEN "OPERAND" ELSE "TRANSFER"
  <2>1. cmd.op \in Says[at]
    BY <1>2 DEF IInv, CommandFits
  <2>. QED BY <1>3, <2>1 DEF Says, ValueOps
<1>5. x \in 0..(Wrap - 1) /\ (at = op => x = cmd.v)
  BY <1>2, <1>3, <1>4 DEF OperandOf, IInv, CommandFits, ValueOps
<1>6. wrBl \in Blocks /\ mem[wrBl] \in Values /\ mem[wrBl].value \in 0..(Wrap - 1)
  BY <1>2 DEF IInv, BlockFits, Values
<1>7. intReg' \in 0..(Wrap - 1)
  BY <1>1, <1>5, <1>6, ComputedInRange
<1>8. Bits(cmd) \in Nat /\ skew' \in Int
  BY <1>1, <1>4, Advanced DEF Bits, Length
<1>9. Silence = Answer(Silence.kind, Silence.v) /\ Silence.kind = "none"
  BY SigShape
<1>10. /\ turn' = "answer" /\ ans' = Silence /\ state' = "WORK"
       /\ UNCHANGED <<param, cmd, field, at, sector, result, book, clean, keyed, authSc, wrBl,
                      mem, numReads, running>>
  BY <1>1, <1>2 DEF Reply, Rest1, reader
<1>11. TypeOK'
  <2>1. state' \in States /\ ans'.kind \in Kinds
    BY <1>9, <1>10 DEF States, Kinds
  <2>. QED BY <1>7, <1>8, <1>10, <2>1 DEF IInv, TypeOK
<1>12. BlockFits' /\ ReadsFit' /\ MemoryAsTold'
  BY <1>10 DEF IInv, BlockFits, ReadsFit, MemoryAsTold, ValueOps
<1>13. CommandFits' /\ SectorFits' /\ FieldFits' /\ Waiting' /\ Promised'
  BY <1>1, <1>2, <1>9, Answering
<1>14. ASSUME at = op
       PROVE  /\ Together(0)' /\ SectorOf(cmd.b) = Open' /\ mem'[cmd.b] \in Values
              /\ intReg' = Computed(at, mem'[cmd.b].value, cmd.v)
  <2>1. OpenBlock /\ Together(OnAir) /\ OnAir = -Bits(cmd)
    BY <1>2, <1>14 DEF IInv, Waiting, Home, ValueOps, OnAir
  <2>2. wrBl = cmd.b /\ SectorOf(cmd.b) = Open'
    BY <1>10, <2>1 DEF OpenBlock, Open, Enc
  <2>3. Enc => keyed /\ authSc = sector /\ skew' = -Bits(cmd) + Bits(cmd)
    BY <1>1, <2>1 DEF Advance, Together, InStep
  <2>4. Together(0)'
    BY <1>8, <1>10, <2>1, <2>3 DEF Together, InStep, Enc
  <2>. QED BY <1>1, <1>5, <1>6, <1>10, <1>14, <2>2, <2>4
<1>15. Heard'
  <2>1. SilenceHeard'
    BY <1>3, <1>4, <1>10, <1>14 DEF SilenceHeard
  <2>. QED BY <1>9, <1>10, <2>1 DEF Heard, SelectionHeard, NonceHeard, CipherHeard, AckHeard,
       Unanswered, Following, Enciphered
<1>16. ProperOrLost'
  BY <1>3, <1>4, <1>9, <1>10 DEF ProperOrLost, Proper, OneOf
<1>. QED BY <1>11, <1>12, <1>13, <1>15, <1>16 DEF IInv

LEMMA EmFieldKeeps == ASSUME IInv, EmField PROVE IInv'
<1>1. PICK s \in {"IDLE", "NOFIELD"} :
        /\ Moves(s)
        /\ IF s = "IDLE" THEN state = "NOFIELD" /\ field ELSE ~field
  BY DEF EmField
<1>2. /\ turn # "tag" /\ state' = s
      /\ UNCHANGED <<param, keyed, authSc, wrBl, intReg, mem, numReads, running, turn, cmd, ans,
                     field, at, sector, result, book, clean, skew>>
  BY <1>1 DEF EmField, Moves, reader
<1>3. TypeOK'
  <2>1. state' \in States
    BY <1>2 DEF States
  <2>. QED BY <1>2, <2>1 DEF IInv, TypeOK
<1>4. CommandFits' /\ SectorFits' /\ FieldFits' /\ ReadsFit' /\ Promised' /\ MemoryAsTold'
  BY <1>2 DEF IInv, CommandFits, SectorFits, FieldFits, ReadsFit, Promised, MemoryAsTold, Enc,
    Open
<1>5. BlockFits'
  BY <1>2 DEF BlockFits, ValueOps
<1>6. ProperOrLost'
  BY <1>2 DEF IInv, ProperOrLost, Proper, OneOf, OnCard, ValueAnswer, Open, Enc
<1>7. CASE ~field
  <2>1. turn = "reader" /\ at = "restart"
    BY <1>7 DEF IInv, FieldFits
  <2>2. Waiting' /\ Heard'
    BY <1>2, <2>1 DEF Waiting, Heard, Home, ValueOps
  <2>. QED BY <1>3, <1>4, <1>5, <1>6, <2>2 DEF IInv
<1>8. CASE field
  <2>1. state = "NOFIELD" /\ state' = "IDLE"
    BY <1>1, <1>2, <1>8
  <2>2. Waiting'
    <3>1. turn = "reader" => at \notin DOMAIN Home /\ at # "transfer"
      BY <2>1 DEF IInv, Waiting, Home, ValueOps
    <3>2. turn = "reader" => at \notin ValueOps \cup {"data"}
      BY <3>1 DEF Home, ValueOps
    <3>3. turn' = turn /\ at' = at /\ state' = "IDLE" /\ turn # "tag" /\ turn \in {"reader", "tag", "answer"}
      BY <1>2, <2>1 DEF IInv, TypeOK
    <3>. QED BY <3>1, <3>2, <3>3 DEF Waiting
  <2>3. Heard'
    <3>. SUFFICES ASSUME turn = "answer" PROVE Heard'
      BY <1>2 DEF Heard
    <3>1. SelectionHeard /\ NonceHeard /\ CipherHeard /\ AckHeard /\ SilenceHeard /\ Unanswered
      BY DEF IInv, Heard
    <3>2. ans.kind \notin {"NT", "AT", "NACK", "BLOCK", "ACK"}
      BY <2>1, <3>1 DEF NonceHeard, CipherHeard, AckHeard, ValueOps
    <3>3. ans.kind \notin DOMAIN Following
      BY <2>1, <3>1 DEF SelectionHeard, Following, Home
    <3>4. SilenceHeard'
      <4>1. cmd.op = "OPERAND" => at \in ValueOps
        <5>1. cmd.op \in Says[at] /\ at \in Stages
          BY DEF IInv, CommandFits, TypeOK
        <5>. QED BY <5>1 DEF Says, Stages, ValueOps
      <4>. QED BY <1>2, <2>1, <3>1, <4>1 DEF SilenceHeard, ValueOps
    <3>5. Unanswered'
      BY <1>2, <3>1 DEF Unanswered
    <3>. QED BY <1>2, <3>2, <3>3, <3>4, <3>5 DEF Heard, SelectionHeard, NonceHeard, CipherHeard,
         AckHeard, Enciphered
  <2>. QED BY <1>3, <1>4, <1>5, <1>6, <2>2, <2>3 DEF IInv
<1>. QED BY <1>7, <1>8

LEMMA EmButtonKeeps == ASSUME IInv, EmButton PROVE IInv'
<1>1. /\ running' = FALSE
      /\ UNCHANGED <<param, state, keyed, authSc, wrBl, intReg, mem, numReads, turn, cmd, ans,
                     field, at, sector, result, book, clean, skew>>
  BY DEF EmButton, reader
<1>2. TypeOK' /\ ReadsFit'
  BY <1>1 DEF IInv, TypeOK, ReadsFit
<1>3. CommandFits' /\ SectorFits' /\ BlockFits' /\ FieldFits' /\ Promised' /\ MemoryAsTold'
  BY <1>1 DEF IInv, CommandFits, SectorFits, BlockFits, FieldFits, Promised, MemoryAsTold, Enc, Open
<1>4. Waiting'
  BY <1>1 DEF IInv, Waiting, Together, InStep, OnAir, OpenBlock, Bits, Enc, Open
<1>5. Heard'
  BY <1>1 DEF IInv, Heard, SelectionHeard, NonceHeard, CipherHeard, AckHeard, SilenceHeard,
    Unanswered, Together, InStep, HalfBytes, OpenBlock, Enc, Open
<1>6. ProperOrLost'
  BY <1>1 DEF IInv, ProperOrLost, Proper, OneOf, OnCard, ValueAnswer, Open, Enc
<1>. QED BY <1>2, <1>3, <1>4, <1>5, <1>6 DEF IInv
-----------------------------------------------------------------------------
(* The air.                                                                *)
LEMMA CommandLostKeeps == ASSUME IInv, CommandLost PROVE IInv'
<1>1. /\ turn = "tag" /\ turn' = "answer" /\ ans' = Silence /\ ~clean' /\ clean' \in BOOLEAN
      /\ UNCHANGED <<param, state, keyed, authSc, wrBl, intReg, mem, numReads, running, cmd,
                     field, at, sector, result, book, skew>>
  BY DEF CommandLost, emulator, reader
<1>2. Silence = Answer(Silence.kind, Silence.v) /\ Silence.kind = "none"
  BY SigShape
<1>3. TypeOK'
  BY <1>1, <1>2 DEF IInv, TypeOK, Kinds
<1>4. /\ CommandFits' /\ SectorFits' /\ BlockFits' /\ FieldFits' /\ ReadsFit' /\ MemoryAsTold'
      /\ Waiting' /\ Promised' /\ ProperOrLost'
  BY <1>1, <1>2 DEF IInv, CommandFits, SectorFits, BlockFits, FieldFits, ReadsFit, MemoryAsTold,
    Waiting, Promised, ProperOrLost, Enc
<1>5. SilenceHeard'
  <2>1. cmd.op \in Says[at] /\ at \in Stages
    BY <1>1 DEF IInv, CommandFits, TypeOK
  <2>2. cmd.op = "OPERAND" => at \in ValueOps
    BY <2>1 DEF Says, Stages, ValueOps
  <2>3. at \in ValueOps \cup {"halted"} => state = Home[at]
    BY <1>1 DEF IInv, Waiting, Home, ValueOps
  <2>4. cmd.op = "OPERAND" => SectorOf(cmd.b) = Open'
    BY <1>1, <2>2 DEF IInv, Waiting, OpenBlock, Open, Enc
  <2>. QED BY <1>1, <2>2, <2>3, <2>4 DEF SilenceHeard, Home, ValueOps
<1>6. Heard'
  BY <1>1, <1>2, <1>5 DEF Heard, SelectionHeard, NonceHeard, CipherHeard, AckHeard,
    Unanswered, Following, Enciphered
<1>. QED BY <1>3, <1>4, <1>6 DEF IInv

LEMMA AnswerLostKeeps == ASSUME IInv, AnswerLost PROVE IInv'
<1>1. /\ turn = "answer" /\ ans.kind # "none" /\ turn' = turn /\ ans' = Silence
      /\ ~clean' /\ clean' \in BOOLEAN
      /\ UNCHANGED <<param, state, keyed, authSc, wrBl, intReg, mem, numReads, running, cmd,
                     field, at, sector, result, book, skew>>
  BY DEF AnswerLost, emulator, reader
<1>2. Silence = Answer(Silence.kind, Silence.v) /\ Silence.kind = "none"
  BY SigShape
<1>3. TypeOK'
  BY <1>1, <1>2 DEF IInv, TypeOK, Kinds
<1>4. /\ CommandFits' /\ SectorFits' /\ BlockFits' /\ FieldFits' /\ ReadsFit' /\ MemoryAsTold'
      /\ Waiting' /\ Promised' /\ ProperOrLost'
  BY <1>1, <1>2 DEF IInv, CommandFits, SectorFits, BlockFits, FieldFits, ReadsFit, MemoryAsTold,
    Waiting, Promised, ProperOrLost, Enc
<1>5. SilenceHeard'
  BY <1>1 DEF IInv, Heard, Unanswered, SilenceHeard
<1>6. Heard'
  BY <1>1, <1>2, <1>5 DEF Heard, SelectionHeard, NonceHeard, CipherHeard, AckHeard,
    Unanswered, Following, Enciphered
<1>. QED BY <1>3, <1>4, <1>6 DEF IInv
-----------------------------------------------------------------------------
(* The reader sends: the emulator's state is what the place says, and the  *)
(* reader's key stream goes ahead by the frame.                            *)
LEMMA Sending ==
  ASSUME IInv, NEW f, Send(f), f.op \in Says[at], at \in Stages,
         f = Frame(f.op, f.b, f.v), f.b \in Nat,
         f.op \in BlockOps => f.b \in AnyBlock,
         f.op \in {"AUTH", "TRANSFER", "DATA", "OPERAND"} => f.b \in Blocks,
         f.op = "DATA" => f.v \in Contents,
         f.op = "OPERAND" => f.v \in 0..(Wrap - 1),
         at \in ValueOps \cup {"data"} => f.b = cmd.b,
         book' \in [Blocks -> SUBSET Contents],
         \A b \in Blocks : book[b] \subseteq book'[b],
         f.op = "DATA" => f.v \in book'[f.b],
         f.op = "TRANSFER" /\ SectorOf(f.b) = Open => result \subseteq book'[f.b]
  PROVE  IInv'
<1>1. /\ turn = "reader" /\ field /\ turn' = "tag" /\ cmd' = f /\ ans' = Silence
      /\ clean' = (clean \/ f.op \in {"WUPA", "REQA"})
      /\ UNCHANGED <<param, state, keyed, authSc, wrBl, intReg, mem, numReads, running,
                     field, at, sector, result>>
  BY DEF Send, emulator
<1>2. f.op \in DOMAIN Length
  BY Lengths DEF Says, Stages
<1>3. Bits(f) \in Nat
  BY <1>2, Lengths DEF Bits
<1>4. skew' = IF Enc THEN skew - Bits(f) ELSE skew
  BY DEF Send
<1>5. TypeOK'
  <2>1. ans'.kind \in Kinds
    BY <1>1, SigShape DEF Kinds
  <2>2. skew' \in Int
    BY <1>3, <1>4 DEF IInv, TypeOK
  <2>3. clean' \in BOOLEAN
    BY <1>1, Zenon
  <2>. QED BY <1>1, <1>2, <2>1, <2>2, <2>3 DEF IInv, TypeOK
<1>6. CommandFits'
  BY <1>1, SigShape DEF CommandFits, Enc
<1>7. SectorFits' /\ BlockFits' /\ FieldFits' /\ ReadsFit'
  BY <1>1 DEF IInv, SectorFits, BlockFits, FieldFits, ReadsFit, Enc
<1>8. MemoryAsTold' /\ Promised'
  BY <1>1 DEF IInv, MemoryAsTold, Promised, Open, Enc
<1>9. Heard' /\ ProperOrLost'
  BY <1>1 DEF Heard, ProperOrLost
<1>10. Waiting'
  <2>1. OnAir = 0 /\ OnAir' = -Bits(f) /\ (Enc /\ skew = 0 => skew' = -Bits(f))
    BY <1>1, <1>3, <1>4 DEF OnAir, Bits
  <2>2. Together(OnAir) => Together(OnAir)'
    BY <1>1, <2>1 DEF Together, InStep, Enc
  <2>3. at \in ValueOps \cup {"data"} => OpenBlock'
    BY <1>1 DEF IInv, Waiting, OpenBlock, Open, Enc
  <2>4. at = "transfer" => f.op = "TRANSFER"
    BY DEF Says
  <2>5. at = "transfer" =>
          \/ state' = "WORK" /\ Together(OnAir)' /\ Value(intReg)' \in result'
          \/ ~clean' /\ state' \in ValueOps
    <3>1. at = "transfer" /\ state = "WORK" /\ Together(OnAir) /\ Value(intReg) \in result
            => state' = "WORK" /\ Together(OnAir)' /\ Value(intReg)' \in result'
      BY <1>1, <2>2 DEF Value
    <3>2. at = "transfer" /\ ~clean => ~clean'
      BY <1>1, <2>4
    <3>. QED BY <1>1, <3>1, <3>2 DEF IInv, Waiting
  <2>6. /\ at = "start" => state' \in {"NOFIELD", "IDLE"}
        /\ at \in DOMAIN Home => state' = Home[at]
        /\ at \in DOMAIN Home \ {"halted"} => Together(OnAir)'
    BY <1>1, <2>2 DEF IInv, Waiting
  <2>. QED BY <1>1, <2>3, <2>5, <2>6 DEF Waiting
<1>. QED BY <1>5, <1>6, <1>7, <1>8, <1>9, <1>10 DEF IInv

LEMMA ReaderSendsKeeps == ASSUME IInv, ReaderSends PROVE IInv'
<1>1. at \in Stages /\ book \in [Blocks -> SUBSET Contents] /\ result \subseteq Contents
  BY DEF IInv, TypeOK
<1>2. ASSUME NEW op, Op(op), op \in Says[at],
             op \notin BlockOps \cup {"AUTH", "TRANSFER", "DATA", "OPERAND"},
             at \notin ValueOps \cup {"data"}
      PROVE  IInv'
  <2>. DEFINE f == Frame(op, 0, 0)
  <2>1. f.op = op /\ f.b = 0 /\ f = Frame(f.op, f.b, f.v) /\ Send(f) /\ book' = book
    BY <1>2 DEF Frame, Op
  <2>. HIDE DEF f
  <2>. QED BY <1>1, <1>2, <2>1, Sending
<1>3. ASSUME NEW op, NEW b \in AnyBlock, OnBlock(op, b), op \in Says[at],
             op \notin {"TRANSFER", "DATA", "OPERAND"},
             op = "AUTH" => b \in Blocks, at \notin ValueOps \cup {"data"}
      PROVE  IInv'
  <2>. DEFINE f == Frame(op, b, 0)
  <2>1. f.op = op /\ f.b = b /\ f = Frame(f.op, f.b, f.v) /\ Send(f) /\ book' = book
    BY <1>3 DEF Frame, OnBlock
  <2>2. b \in Nat
    BY <1>3, BlockNumbers
  <2>. HIDE DEF f
  <2>. QED BY <1>1, <1>3, <2>1, <2>2, Sending
<1>4. CASE at \in {"start", "halted"} /\ Op("REQA")
  BY <1>2, <1>4 DEF Says, BlockOps, ValueOps
<1>5. CASE at \in {"start", "halted", "restart"} /\ Op("WUPA")
  BY <1>2, <1>5 DEF Says, BlockOps, ValueOps
<1>6. CASE at = "ready1" /\ Op("SELALL1")
  BY <1>2, <1>6 DEF Says, BlockOps, ValueOps
<1>7. CASE at = "uid1" /\ Op("SELECT1")
  BY <1>2, <1>7 DEF Says, BlockOps, ValueOps
<1>8. CASE at = "ready2" /\ Op("SELALL2")
  BY <1>2, <1>8 DEF Says, BlockOps, ValueOps
<1>9. CASE at = "uid2" /\ Op("SELECT2")
  BY <1>2, <1>9 DEF Says, BlockOps, ValueOps
<1>10. CASE at = "active" /\ \E b \in Blocks : OnBlock("AUTH", b)
  BY <1>3, <1>10 DEF Says, BlockOps, ValueOps, AnyBlock
<1>11. CASE at = "nonce" /\ \E ok \in {0, 1} : Send(Frame("NRAR", 0, ok)) /\ UNCHANGED book
  <2>1. PICK ok \in {0, 1} : Send(Frame("NRAR", 0, ok)) /\ book' = book
    BY <1>11
  <2>. DEFINE f == Frame("NRAR", 0, ok)
  <2>2. f.op = "NRAR" /\ f.b = 0 /\ f = Frame(f.op, f.b, f.v) /\ Send(f)
    BY <2>1 DEF Frame
  <2>3. f.op \in Says[at] /\ f.op \notin BlockOps /\ at \notin ValueOps \cup {"data"}
    BY <1>11, <2>2 DEF Says, BlockOps, ValueOps
  <2>. HIDE DEF f
  <2>. QED BY <1>1, <2>1, <2>2, <2>3, Sending
<1>12. CASE at = "active" /\ \E op \in {"RATS", "ACK", "NAK"} : Op(op)
  BY <1>2, <1>12 DEF Says, BlockOps, ValueOps
<1>13. CASE at \in {"ready1", "ready2", "active"} /\ \E op \in {"HLTA", "PPS"} : Op(op)
  BY <1>2, <1>13 DEF Says, BlockOps, ValueOps
<1>14. CASE /\ at = "active"
            /\ \E op \in BlockOps \ {"TRANSFER"}, b \in AnyBlock : OnBlock(op, b)
  BY <1>3, <1>14 DEF Says, BlockOps, ValueOps
<1>15. CASE /\ at = "data"
            /\ \E c \in Contents :
                 /\ Send(Frame("DATA", cmd.b, c))
                 /\ book' = [book EXCEPT ![cmd.b] = @ \cup {c}]
  <2>1. PICK c \in Contents : /\ Send(Frame("DATA", cmd.b, c))
                              /\ book' = [book EXCEPT ![cmd.b] = @ \cup {c}]
    BY <1>15
  <2>2. turn = "reader"
    BY <2>1 DEF Send
  <2>3. cmd.b \in Blocks
    BY <1>15, <2>2 DEF IInv, Waiting, OpenBlock
  <2>. DEFINE f == Frame("DATA", cmd.b, c)
  <2>4. f.op = "DATA" /\ f.b = cmd.b /\ f.v = c /\ f = Frame(f.op, f.b, f.v) /\ Send(f)
    BY <2>1 DEF Frame
  <2>5. /\ f.op \in Says[at] /\ f.op \notin BlockOps /\ f.b \in Nat
    BY <1>15, <2>3, <2>4, BlockNumbers DEF Says, BlockOps, AnyBlock
  <2>. HIDE DEF f
  <2>6. /\ book' \in [Blocks -> SUBSET Contents] /\ f.v \in book'[f.b]
        /\ \A b \in Blocks : book[b] \subseteq book'[b]
    BY <1>1, <2>1, <2>3, <2>4
  <2>. QED BY <1>1, <2>3, <2>4, <2>5, <2>6, Sending
<1>16. CASE /\ at \in {"INC", "DEC", "REST"}
            /\ \E x \in Operands : Send(Frame("OPERAND", cmd.b, x)) /\ UNCHANGED book
  <2>1. PICK x \in Operands : Send(Frame("OPERAND", cmd.b, x)) /\ book' = book
    BY <1>16
  <2>2. turn = "reader"
    BY <2>1 DEF Send
  <2>3. cmd.b \in Blocks
    BY <1>16, <2>2 DEF IInv, Waiting, OpenBlock, ValueOps
  <2>. DEFINE f == Frame("OPERAND", cmd.b, x)
  <2>4. f.op = "OPERAND" /\ f.b = cmd.b /\ f.v = x /\ f = Frame(f.op, f.b, f.v) /\ Send(f)
    BY <2>1 DEF Frame
  <2>5. f.op \in Says[at] /\ f.op \notin BlockOps /\ f.v \in 0..(Wrap - 1)
    BY <1>16, <2>4 DEF Says, BlockOps
  <2>6. f.b \in Nat
    BY <2>3, <2>4, BlockNumbers DEF AnyBlock
  <2>. HIDE DEF f
  <2>. QED BY <1>1, <2>1, <2>3, <2>4, <2>5, <2>6, Sending
<1>17. CASE /\ at = "transfer"
            /\ \E b \in Blocks :
                 /\ MayWrite(b) /\ Send(Frame("TRANSFER", b, 0))
                 /\ book' = [book EXCEPT ![b] = @ \cup (IF SectorOf(b) = SectorOf(cmd.b)
                                                    THEN result ELSE {})]
  <2>1. PICK b \in Blocks :
          /\ Send(Frame("TRANSFER", b, 0))
          /\ book' = [book EXCEPT ![b] = @ \cup (IF SectorOf(b) = SectorOf(cmd.b) THEN result ELSE {})]
    BY <1>17
  <2>. DEFINE f == Frame("TRANSFER", b, 0)
  <2>2. f.op = "TRANSFER" /\ f.b = b /\ f = Frame(f.op, f.b, f.v) /\ Send(f)
    BY <2>1 DEF Frame
  <2>3. /\ f.op \in Says[at] /\ f.b \in Nat /\ f.b \in AnyBlock
        /\ at \notin ValueOps \cup {"data"}
    BY <1>17, <2>2 DEF Says, ValueOps, AnyBlock
  <2>. HIDE DEF f
  <2>5. SectorOf(cmd.b) = Open
    BY <1>17, <2>1 DEF Send, IInv, Waiting
  <2>4. /\ book' \in [Blocks -> SUBSET Contents]
        /\ SectorOf(b) = Open => result \subseteq book'[b]
        /\ \A d \in Blocks : book[d] \subseteq book'[d]
    <3>1. CASE SectorOf(b) = Open
      BY <1>1, <2>1, <2>5, <3>1
    <3>2. CASE SectorOf(b) # Open
      BY <1>1, <2>1, <2>5, <3>2
    <3>. QED BY <3>1, <3>2
  <2>. QED BY <1>1, <2>2, <2>3, <2>4, Sending
<1>. QED BY <1>4, <1>5, <1>6, <1>7, <1>8, <1>9, <1>10, <1>11, <1>12, <1>13, <1>14, <1>15, <1>16,
     <1>17 DEF ReaderSends
-----------------------------------------------------------------------------
(* The reader hears an answer: no frame is on the air any more.            *)
LEMMA Hearing ==
  ASSUME IInv, NEW next \in Stages, NEW s \in {NoSector} \cup 0..15, Hear(next, s),
         book' \in [Blocks -> SUBSET Contents], result' \subseteq Contents,
         MemoryAsTold',
         s # NoSector => next \in Amid \cup {"active"},
         next = "nonce" => s # NoSector,
         next \in DOMAIN Home => state = Home[next],
         next \in DOMAIN Home \ {"halted"} =>
           IF s = NoSector THEN ~keyed
                           ELSE keyed /\ authSc = s /\ skew' = 0,
         next # "start",
         next \in ValueOps \cup {"data"} => OpenBlock /\ s = sector,
         next = "transfer" => s = sector /\ SectorOf(cmd.b) = Open,
         next = "transfer" =>
           \/ /\ state = "WORK" /\ Value(intReg) \in result'
              /\ IF s = NoSector THEN ~keyed
                                 ELSE keyed /\ authSc = s /\ skew' = 0
           \/ ~clean /\ state \in ValueOps
  PROVE  IInv'
<1>1. /\ turn' = "reader" /\ at' = next /\ sector' = s /\ ans' = Silence
      /\ cmd' = IF next \in {"data", "INC", "DEC", "REST", "transfer"} THEN cmd ELSE NoFrame
      /\ UNCHANGED <<param, state, keyed, authSc, wrBl, intReg, mem, numReads, running,
                     field, clean>>
      /\ turn = "answer"
  BY DEF Hear, emulator
<1>2. NoFrame = Frame("HLTA", 0, 0) /\ NoFrame.op = "HLTA" /\ NoFrame.b = 0 /\ NoFrame.v = 0
  BY DEF NoFrame, Frame
<1>3. TypeOK'
  <2>1. ans'.kind \in Kinds /\ ans' = Silence
    BY <1>1, SigShape DEF Kinds
  <2>2. cmd'.op \in DOMAIN Length
    BY <1>1, <1>2, Lengths DEF IInv, TypeOK
  <2>3. skew' \in Int
    <3>1. HalfBytes(ans) \in Nat /\ skew \in Int
      BY HalfBytesOf DEF IInv, TypeOK
    <3>. QED BY <3>1 DEF Hear
  <2>. QED BY <1>1, <2>1, <2>2, <2>3 DEF IInv, TypeOK
<1>4. CommandFits'
  <2>1. CASE next \in {"data", "INC", "DEC", "REST", "transfer"}
    <3>1. cmd' = cmd
      BY <1>1, <2>1
    <3>. QED BY <1>1, <3>1, SigShape DEF IInv, CommandFits, Enc
  <2>2. CASE next \notin {"data", "INC", "DEC", "REST", "transfer"}
    <3>1. cmd' = NoFrame
      BY <1>1, <2>2
    <3>. QED BY <1>1, <1>2, <3>1, SigShape DEF CommandFits, BlockOps, Enc
  <2>. QED BY <2>1, <2>2
<1>5. SectorFits'
  BY <1>1 DEF SectorFits, Enc, Amid, ValueOps
<1>6. BlockFits' /\ ReadsFit' /\ Heard' /\ ProperOrLost' /\ Promised'
  BY <1>1 DEF IInv, BlockFits, ReadsFit, Heard, ProperOrLost, Promised
<1>7. FieldFits'
  BY <1>1 DEF IInv, FieldFits
<1>8. Waiting'
  <2>1. next \in DOMAIN Home \ {"halted"} => Together(OnAir)'
    BY <1>1 DEF Together, OnAir, InStep, Enc
  <2>2. next \in ValueOps \cup {"data"} => OpenBlock'
    BY <1>1 DEF OpenBlock, ValueOps, Open, Enc
  <2>3. next = "transfer" =>
          \/ state' = "WORK" /\ Together(OnAir)' /\ Value(intReg)' \in result'
          \/ ~clean' /\ state' \in ValueOps
    BY <1>1 DEF Together, InStep, OnAir, Value, Enc
  <2>4. next = "transfer" => SectorOf(cmd.b)' = Open'
    BY <1>1 DEF Open, Enc
  <2>. QED BY <1>1, <2>1, <2>2, <2>3, <2>4 DEF Waiting
<1>. QED BY <1>3, <1>4, <1>5, <1>6, <1>7, <1>8 DEF IInv

(* After an enciphered answer the key streams are at the same place.       *)
LEMMA HeardInStep ==
  ASSUME IInv, turn = "answer", ans.kind \in DOMAIN Enciphered,
         NEW next, NEW s, Hear(next, s)
  PROVE  IF Enc THEN keyed /\ authSc = sector /\ skew' = 0 ELSE ~keyed
<1>1. Together(HalfBytes(ans)) /\ HalfBytes(ans) \in Nat
  BY HalfBytesOf DEF IInv, Heard, CipherHeard
<1>. QED BY <1>1 DEF Together, InStep, Hear

LEMMA KeepsTold ==
  ASSUME IInv, Keep, mem' = mem
  PROVE  /\ book' \in [Blocks -> SUBSET Contents] /\ result' \subseteq Contents
         /\ MemoryAsTold'
BY DEF IInv, TypeOK, Keep, MemoryAsTold

LEMMA HearSelectionKeeps == ASSUME IInv, HearSelection PROVE IInv'
<1>1. /\ turn = "answer" /\ ans.kind \in DOMAIN Following /\ Keep /\ mem' = mem
      /\ Hear(Following[ans.kind], NoSector)
  BY DEF HearSelection, Hear, emulator
<1>2. state = Home[Following[ans.kind]] /\ ~keyed
  BY <1>1 DEF IInv, Heard, SelectionHeard
<1>3. Following[ans.kind] \in {"ready1", "uid1", "ready2", "uid2", "active"}
  BY <1>1 DEF Following
<1>. DEFINE next == Following[ans.kind]
<1>4. /\ next \in Stages /\ next \notin {"start", "nonce", "transfer"}
      /\ next \notin ValueOps \cup {"data"} /\ next \notin Amid
  BY <1>3 DEF Stages, ValueOps, Amid
<1>. HIDE DEF next
<1>5. Hear(next, NoSector) /\ state = Home[next]
  BY <1>1, <1>2 DEF next
<1>. QED BY <1>1, <1>2, <1>4, <1>5, KeepsTold, Hearing

LEMMA HearSpoiltKeeps == ASSUME IInv, HearSpoilt PROVE IInv'
<1>1. Keep /\ mem' = mem /\ Hear("restart", NoSector)
  BY DEF HearSpoilt, Hear, emulator
<1>2. "restart" \in Stages /\ "restart" \notin DOMAIN Home \cup Amid \cup ValueOps \cup {"data"}
  BY DEF Stages, Home, Amid, ValueOps
<1>. QED BY <1>1, <1>2, KeepsTold, Hearing

LEMMA HearNonceKeeps == ASSUME IInv, HearNonce PROVE IInv'
<1>1. /\ turn = "answer" /\ ans.kind = "NT" /\ Keep /\ mem' = mem
      /\ Hear("nonce", SectorOf(cmd.b))
  BY DEF HearNonce, Hear, emulator
<1>2. /\ cmd.op = "AUTH" /\ state = "AUTH1" /\ keyed /\ authSc = SectorOf(cmd.b) /\ skew = 0
  BY <1>1 DEF IInv, Heard, NonceHeard
<1>3. SectorOf(cmd.b) \in 0..15 /\ SectorOf(cmd.b) # NoSector
  BY <1>2, SectorTyped DEF IInv, CommandFits
<1>4. skew' = 0
  <2>1. HalfBytes(ans) = 0
    BY <1>1, HalfBytesOf
  <2>. QED BY <1>1, <1>2, <2>1 DEF Hear
<1>5. "nonce" \in Stages /\ "nonce" \in Amid /\ "nonce" \notin ValueOps \cup {"data"}
      /\ Home["nonce"] = "AUTH1"
  BY DEF Stages, Amid, ValueOps, Home
<1>. QED BY <1>1, <1>2, <1>3, <1>4, <1>5, KeepsTold, Hearing

(* The answers after which the reader may send any command.                *)
LEMMA HearingActive ==
  ASSUME IInv, Hear("active", sector), ans.kind \in DOMAIN Enciphered, state = "WORK",
         book' \in [Blocks -> SUBSET Contents], result' \subseteq Contents, MemoryAsTold'
  PROVE  IInv'
<1>1. IF Enc THEN keyed /\ authSc = sector /\ skew' = 0 ELSE ~keyed
  BY HeardInStep DEF Hear
<1>2. "active" \in Stages /\ "active" \notin Amid /\ "active" \notin ValueOps \cup {"data"}
      /\ Home["active"] = "WORK"
  BY DEF Stages, Amid, ValueOps, Home
<1>3. sector \in {NoSector} \cup 0..15
  BY DEF IInv, TypeOK
<1>. QED BY <1>1, <1>2, <1>3, Hearing DEF Enc

LEMMA HearTagKeeps == ASSUME IInv, HearTag PROVE IInv'
<1>1. turn = "answer" /\ ans.kind = "AT" /\ Keep /\ mem' = mem /\ Hear("active", sector)
  BY DEF HearTag, Hear, emulator
<1>2. state = "WORK" /\ ans.kind \in DOMAIN Enciphered
  BY <1>1 DEF IInv, Heard, CipherHeard, Enciphered
<1>. QED BY <1>1, <1>2, KeepsTold, HearingActive

LEMMA HearNackKeeps == ASSUME IInv, HearNack PROVE IInv'
<1>1. turn = "answer" /\ ans.kind = "NACK" /\ Keep /\ mem' = mem /\ Hear("active", sector)
  BY DEF HearNack, Hear, emulator
<1>2. state = "WORK" /\ ans.kind \in DOMAIN Enciphered
  BY <1>1 DEF IInv, Heard, CipherHeard, Enciphered
<1>. QED BY <1>1, <1>2, KeepsTold, HearingActive

LEMMA HearBlockKeeps == ASSUME IInv, HearBlock PROVE IInv'
<1>1. /\ turn = "answer" /\ ans.kind = "BLOCK" /\ mem' = mem /\ Hear("active", sector)
      /\ book' = [book EXCEPT ![cmd.b] = {ans.v}] /\ result' = {}
  BY DEF HearBlock, Hear, emulator
<1>2. /\ state = "WORK" /\ ans.kind \in DOMAIN Enciphered
      /\ cmd.b \in Blocks /\ ans.v = mem[cmd.b]
  BY <1>1 DEF IInv, Heard, CipherHeard, Enciphered
<1>3. mem \in [Blocks -> Contents] /\ book \in [Blocks -> SUBSET Contents]
  BY DEF IInv, TypeOK
<1>4. book' \in [Blocks -> SUBSET Contents]
  <2>1. {ans.v} \in SUBSET Contents
    <3>1. mem[cmd.b] \in Contents
      BY <1>2, <1>3
    <3>. QED BY <1>2, <3>1
  <2>. QED BY <1>1, <1>3, <2>1
<1>5. MemoryAsTold'
  BY <1>1, <1>2, <1>3 DEF IInv, MemoryAsTold
<1>. QED BY <1>1, <1>2, <1>4, <1>5, HearingActive
(* An acknowledgement: the state of the emulator is that of AckHeard.      *)
LEMMA HearAckKeeps == ASSUME IInv, HearAck PROVE IInv'
<1>1. turn = "answer" /\ ans.kind = "ACK" /\ ans.kind \in DOMAIN Enciphered
  BY DEF HearAck, Hear, Enciphered
<1>2. \/ cmd.op = "WRITE" /\ state = "WRITEBL2" /\ OpenBlock
      \/ cmd.op \in ValueOps /\ state = cmd.op /\ OpenBlock
      \/ cmd.op = "DATA" /\ state = "WORK" /\ mem[cmd.b] = cmd.v
      \/ cmd.op = "TRANSFER" /\ state = "WORK" /\ mem[cmd.b] \in result
      \/ cmd.op = "NAK" /\ state = "WORK"
  BY <1>1 DEF IInv, Heard, AckHeard
<1>3. mem \in [Blocks -> Contents] /\ book \in [Blocks -> SUBSET Contents] /\ result \subseteq Contents
  BY DEF IInv, TypeOK
<1>4. sector \in {NoSector} \cup 0..15
  BY DEF IInv, TypeOK
(* A two-step command: the reader goes on to its data or its operand.      *)
<1>5. ASSUME NEW next \in {"data"} \cup ValueOps, Hear(next, sector), Keep,
             state = Home[next], OpenBlock
      PROVE  IInv'
  <2>1. IF Enc THEN keyed /\ authSc = sector /\ skew' = 0 ELSE ~keyed
    BY <1>1, <1>5, HeardInStep
  <2>3. mem' = mem
    BY <1>5 DEF Hear, emulator
  <2>4. /\ next \in Stages /\ next \in Amid /\ next \notin {"start", "nonce", "transfer"}
        /\ next \in DOMAIN Home \ {"halted"}
    BY <1>5 DEF Stages, Amid, ValueOps, Home
  <2>. QED BY <1>4, <1>5, <2>1, <2>3, <2>4, KeepsTold, Hearing DEF Enc
<1>6. CASE cmd.op = "WRITE"
  <2>1. Hear("data", sector) /\ Keep
    BY <1>6 DEF HearAck
  <2>. QED BY <1>2, <1>5, <1>6, <2>1 DEF Home, ValueOps
<1>7. CASE cmd.op \in ValueOps
  <2>1. Hear(cmd.op, sector) /\ Keep
    BY <1>7 DEF HearAck, ValueOps
  <2>2. state = cmd.op /\ OpenBlock /\ Home[cmd.op] = cmd.op
    BY <1>2, <1>7 DEF Home, ValueOps
  <2>. QED BY <1>5, <1>7, <2>1, <2>2
<1>8. CASE cmd.op = "DATA"
  <2>1. /\ Hear("active", sector) /\ book' = [book EXCEPT ![cmd.b] = {cmd.v}]
        /\ result' = {} /\ mem' = mem
    BY <1>8 DEF HearAck, ValueOps, Hear, emulator
  <2>2. state = "WORK" /\ mem[cmd.b] = cmd.v /\ cmd.b \in Blocks /\ cmd.v \in Contents
    BY <1>2, <1>8 DEF ValueOps, IInv, CommandFits
  <2>3. book' \in [Blocks -> SUBSET Contents]
    <3>1. {cmd.v} \in SUBSET Contents
      BY <2>2
    <3>. QED BY <1>3, <2>1, <3>1
  <2>4. MemoryAsTold'
    BY <1>3, <2>1, <2>2 DEF IInv, MemoryAsTold
  <2>. QED BY <1>1, <2>1, <2>2, <2>3, <2>4, HearingActive
<1>9. CASE cmd.op = "TRANSFER"
  <2>1. /\ Hear("active", sector) /\ book' = [book EXCEPT ![cmd.b] = result]
        /\ result' = {} /\ mem' = mem
    BY <1>9 DEF HearAck, ValueOps, Hear, emulator
  <2>2. state = "WORK" /\ mem[cmd.b] \in result /\ cmd.b \in Blocks
    BY <1>2, <1>9 DEF ValueOps, IInv, CommandFits
  <2>3. book' \in [Blocks -> SUBSET Contents]
    BY <1>3, <2>1
  <2>4. MemoryAsTold'
    BY <1>3, <2>1, <2>2 DEF IInv, MemoryAsTold
  <2>. QED BY <1>1, <2>1, <2>2, <2>3, <2>4, HearingActive
<1>10. CASE cmd.op = "NAK"
  <2>1. Hear("active", sector) /\ Keep /\ mem' = mem
    BY <1>10 DEF HearAck, ValueOps, Hear, emulator
  <2>2. state = "WORK"
    BY <1>2, <1>10 DEF ValueOps
  <2>. QED BY <1>1, <2>1, <2>2, KeepsTold, HearingActive
<1>. QED BY <1>2, <1>6, <1>7, <1>8, <1>9, <1>10

LEMMA HearSilenceKeeps == ASSUME IInv, HearSilence PROVE IInv'
<1>1. turn = "answer" /\ ans.kind = "none" /\ mem' = mem
  BY DEF HearSilence, Hear, emulator
<1>2. SilenceHeard /\ cmd.op \in Says[at] /\ at \in Stages
  BY <1>1 DEF IInv, Heard, CommandFits, TypeOK
<1>3. CASE cmd.op = "OPERAND"
  <2>1. /\ Hear("transfer", sector) /\ book' = book
        /\ result' = { Value(Computed(at, c.value, cmd.v)) : c \in book[cmd.b] \cap Values }
    BY <1>3 DEF HearSilence
  <2>2. at \in ValueOps /\ cmd.b \in Blocks /\ cmd.v \in 0..(Wrap - 1)
    <3>1. at \in ValueOps
      BY <1>2, <1>3 DEF Says, Stages, ValueOps
    <3>. QED BY <1>3, <3>1 DEF IInv, CommandFits
  <2>3. result' \subseteq Contents
    <3>1. ASSUME NEW c \in book[cmd.b] \cap Values PROVE Value(Computed(at, c.value, cmd.v)) \in Contents
      <4>1. c.value \in 0..(Wrap - 1)
        BY DEF Values
      <4>2. Computed(at, c.value, cmd.v) \in 0..(Wrap - 1)
        BY <2>2, <4>1, ComputedInRange
      <4>3. Computed(at, c.value, cmd.v) \in Int
        BY <4>2
      <4>. QED BY <4>3, ValueTyped DEF Contents
    <3>. QED BY <2>1, <3>1
  <2>4. book' \in [Blocks -> SUBSET Contents] /\ MemoryAsTold'
    BY <1>1, <2>1 DEF IInv, TypeOK, MemoryAsTold
  <2>5. skew \in Int /\ (skew = 0 => skew' = 0)
    <3>1. HalfBytes(ans) = 0
      BY <1>1, HalfBytesOf
    <3>. QED BY <2>1, <3>1 DEF Hear, IInv, TypeOK
  <2>6. \/ /\ state = "WORK" /\ Value(intReg) \in result'
           /\ IF Enc THEN keyed /\ authSc = sector /\ skew' = 0 ELSE ~keyed
        \/ ~clean /\ state \in ValueOps
    <3>1. CASE /\ state = "WORK" /\ Together(0) /\ mem[cmd.b] \in Values
               /\ intReg = Computed(at, mem[cmd.b].value, cmd.v)
      <4>1. mem[cmd.b] \in book[cmd.b]
        BY <2>2 DEF IInv, MemoryAsTold
      <4>2. Value(intReg) \in result'
        BY <2>1, <3>1, <4>1
      <4>. QED BY <2>5, <3>1, <4>2 DEF Together, InStep
    <3>2. CASE ~clean /\ state = at
      BY <2>2, <3>2
    <3>. QED BY <1>1, <1>2, <1>3, <3>1, <3>2 DEF SilenceHeard
  <2>7. /\ "transfer" \in Stages /\ "transfer" \in Amid /\ "transfer" \notin DOMAIN Home
        /\ "transfer" \notin ValueOps \cup {"data"}
    BY DEF Stages, Amid, ValueOps, Home
  <2>8. sector \in {NoSector} \cup 0..15 /\ SectorOf(cmd.b) = Open
    BY <1>2, <1>1, <1>3 DEF SilenceHeard, IInv, TypeOK
  <2>. QED BY <2>1, <2>3, <2>4, <2>6, <2>7, <2>8, Hearing DEF Enc
<1>4. CASE cmd.op # "OPERAND"
  <2>1. PICK next \in {"halted", "restart"} :
          /\ Hear(next, NoSector) /\ Keep
          /\ next = "halted" => \/ cmd.op = "HLTA" /\ at = "active" /\ clean
                                \/ cmd.op = "REQA" /\ at = "halted"
    <3>1. CASE cmd.op = "HLTA" /\ at = "active" /\ clean
      BY <1>4, <3>1 DEF HearSilence
    <3>2. CASE cmd.op = "REQA" /\ at = "halted"
      BY <1>4, <3>2 DEF HearSilence
    <3>3. CASE ~(cmd.op = "HLTA" /\ at = "active" /\ clean) /\ ~(cmd.op = "REQA" /\ at = "halted")
      BY <1>4, <3>3 DEF HearSilence
    <3>. QED BY <3>1, <3>2, <3>3
  <2>2. next = "halted" => state = "HALTED"
    BY <1>1, <1>2, <2>1 DEF SilenceHeard
  <2>3. /\ next \in Stages /\ next \notin Amid /\ next \notin ValueOps \cup {"data"}
        /\ next \notin DOMAIN Home \ {"halted"} /\ next # "start" /\ next # "transfer"
        /\ next # "active"
    BY <2>1 DEF Stages, Amid, ValueOps, Home
  <2>4. next \in DOMAIN Home => state = Home[next]
    BY <2>1, <2>2, <2>3 DEF Home
  <2>. QED BY <1>1, <2>1, <2>3, <2>4, KeepsTold, Hearing
<1>. QED BY <1>3, <1>4

LEMMA SwitchFieldKeeps == ASSUME IInv, SwitchField PROVE IInv'
<1>1. /\ turn = "reader" /\ turn' = turn /\ at' = "restart" /\ sector' = NoSector
      /\ clean' = FALSE /\ cmd' = NoFrame /\ result' = {} /\ field' = ~field
      /\ UNCHANGED <<param, state, keyed, authSc, wrBl, intReg, mem, numReads, running, ans,
                     book, skew>>
  BY DEF SwitchField, emulator
<1>2. NoFrame = Frame("HLTA", 0, 0) /\ NoFrame.op = "HLTA" /\ NoFrame.b = 0 /\ NoFrame.v = 0
  BY DEF NoFrame, Frame
<1>3. TypeOK'
  <2>1. cmd'.op \in DOMAIN Length /\ at' \in Stages
    BY <1>1, <1>2, Lengths DEF Stages
  <2>2. field' \in BOOLEAN /\ clean' \in BOOLEAN
    BY <1>1, Zenon
  <2>. QED BY <1>1, <2>1, <2>2 DEF IInv, TypeOK
<1>4. CommandFits'
  BY <1>1, <1>2 DEF IInv, CommandFits, BlockOps
<1>5. SectorFits' /\ BlockFits' /\ FieldFits' /\ ReadsFit' /\ MemoryAsTold'
  BY <1>1 DEF IInv, SectorFits, BlockFits, FieldFits, ReadsFit, MemoryAsTold, Enc, Amid, ValueOps
<1>6. Waiting' /\ Promised' /\ Heard' /\ ProperOrLost'
  BY <1>1 DEF Waiting, Promised, Heard, ProperOrLost, Home, ValueOps
<1>. QED BY <1>3, <1>4, <1>5, <1>6 DEF IInv
-----------------------------------------------------------------------------
(* The invariant holds, whatever is lost, switched off or stopped when.    *)
THEOREM Invariance == Spec => []IInv
<1>1. ASSUME IInv, [Next]_vars PROVE IInv'
  <2>1. CASE Emulator
    BY <1>1, <2>1, EmRequestKeeps, EmIgnoreKeeps, EmSelect1Keeps, EmSelect2Keeps, EmNrarKeeps,
       EmAuthKeeps, EmAckNakKeeps, EmRefuseKeeps, EmReadKeeps, EmWriteKeeps, EmValueOpKeeps,
       EmTransferKeeps, EmHaltKeeps, EmNotAllowedKeeps, EmWrongLengthKeeps, EmWriteDataKeeps,
       EmOperandKeeps, EmFieldKeeps, EmButtonKeeps DEF Emulator
  <2>2. CASE CommandLost \/ AnswerLost
    BY <1>1, <2>2, CommandLostKeeps, AnswerLostKeeps
  <2>3. CASE Reader
    BY <1>1, <2>3, ReaderSendsKeeps, HearSelectionKeeps, HearSpoiltKeeps, HearNonceKeeps, HearTagKeeps,
       HearBlockKeeps, HearAckKeeps, HearNackKeeps, HearSilenceKeeps, SwitchFieldKeeps
       DEF Reader, ReaderHears
  <2>4. CASE UNCHANGED vars
    <3>1. UNCHANGED <<param, state, keyed, authSc, wrBl, intReg, mem, numReads, running, turn,
                      cmd, ans, field, at, sector, result, book, clean, skew>>
      BY <2>4 DEF vars, emulator, reader
    <3>2. TypeOK' /\ BlockFits' /\ ReadsFit' /\ FieldFits'
      BY <1>1, <3>1 DEF IInv, TypeOK, BlockFits, ReadsFit, FieldFits
    <3>3. CommandFits' /\ SectorFits' /\ Promised' /\ MemoryAsTold'
      BY <1>1, <3>1 DEF IInv, CommandFits, SectorFits, Promised, MemoryAsTold, Enc, Open
    <3>4. Waiting'
      BY <1>1, <3>1 DEF IInv, Waiting, Together, InStep, OnAir, OpenBlock, Bits, Enc, Open
    <3>5. Heard'
      BY <1>1, <3>1 DEF IInv, Heard, SelectionHeard, NonceHeard, CipherHeard, AckHeard,
        SilenceHeard, Unanswered, Together, InStep, HalfBytes, OpenBlock, Enc, Open
    <3>6. ProperOrLost'
      BY <1>1, <3>1 DEF IInv, ProperOrLost, Proper, OneOf, OnCard, ValueAnswer, Open, Enc
    <3>. QED BY <3>2, <3>3, <3>4, <3>5, <3>6 DEF IInv
  <2>. QED BY <1>1, <2>1, <2>2, <2>3, <2>4 DEF Next
<1>. QED BY <1>1, InitIInv, PTL DEF Spec

(* Types: the register and the memory stay within a value's range and the  *)
(* number of reads within its limit.                                       *)
THEOREM TypeCorrect == Spec => []TypeOK
BY Invariance, PTL DEF IInv

(* In a session that lost nothing each command gets its answer, whatever   *)
(* the sessions before it left Mifare1ksim in.                             *)
THEOREM SessionsServed == Spec => []Served
<1>1. IInv => Served
  BY DEF IInv, ProperOrLost, Served
<1>. QED BY <1>1, Invariance, PTL

(* What was acknowledged is in the emulator memory, and nothing else is.   *)
THEOREM MemoryTold == Spec => []MemoryAsTold
BY Invariance, PTL DEF IInv

(* The emulator memory changes only in the block the reader's command      *)
(* named, in the sector of the last key.  A reader that has authenticated   *)
(* has done so for that sector; one that has not is let in as well, as      *)
(* EmRefuse does not ask for a key.  For the data of a WRITE the code does  *)
(* not look again: wrBl may have been set long before.                     *)
WritesInSector ==
  [][\A b \in Blocks : mem'[b] # mem[b] =>
       /\ cmd.op \in {"DATA", "TRANSFER"} /\ cmd.b = b /\ SectorOf(b) = authSc
       /\ IF Enc THEN keyed /\ sector = authSc ELSE ~keyed]_vars

(* A read, a refused command or a session broken off never changes it, nor *)
(* does a write reach another sector than that of the last key.            *)
THEOREM SectorWrites == Spec => WritesInSector
<1>1. ASSUME IInv, [Next]_vars, NEW b \in Blocks, mem'[b] # mem[b]
      PROVE  /\ cmd.op \in {"DATA", "TRANSFER"} /\ cmd.b = b /\ SectorOf(b) = authSc
             /\ IF Enc THEN keyed /\ sector = authSc ELSE ~keyed
  <2>1. EmTransfer \/ EmWriteData
    <3>1. mem' # mem
      BY <1>1
    <3>2. CASE Emulator
      BY <3>1, <3>2 DEF Emulator, EmRequest, EmIgnore, EmSelect1, EmSelect2, EmNrar, EmAuth,
        EmAckNak, EmRefuse, EmRead, EmWrite, EmValueOp, EmHalt, EmNotAllowed, EmWrongLength,
        EmOperand, EmField, EmButton, Silent, Moves, emulator
    <3>3. CASE CommandLost \/ AnswerLost
      BY <3>1, <3>3 DEF CommandLost, AnswerLost, emulator
    <3>4. CASE ReaderSends \/ SwitchField
      BY <3>1, <3>4 DEF ReaderSends, SwitchField, Op, OnBlock, Send, emulator
    <3>5. CASE ReaderHears
      BY <3>1, <3>5 DEF ReaderHears, HearSelection, HearSpoilt, HearNonce, HearTag, HearBlock, HearAck,
        HearNack, HearSilence, Hear, emulator
    <3>6. CASE UNCHANGED vars
      BY <3>1, <3>6 DEF vars, emulator
    <3>. QED BY <1>1, <3>2, <3>3, <3>4, <3>5, <3>6 DEF Next, Reader
  <2>2. mem \in [Blocks -> Contents]
    BY <1>1 DEF IInv, TypeOK
  <2>3. CASE EmTransfer
    <3>1. Working /\ cmd.op = "TRANSFER" /\ ~Refused
      BY <2>3 DEF EmTransfer, Work
    <3>2. OnCard(cmd.b) /\ Open = authSc /\ Together(-Bits(cmd))
      BY <1>1, <3>1, RefusedOrOnCard, CanBeRead DEF BlockOps
    <3>3. b = cmd.b
      BY <1>1, <2>2, <2>3 DEF EmTransfer
    <3>. QED BY <3>1, <3>2, <3>3 DEF OnCard, Together, InStep
  <2>4. CASE EmWriteData
    <3>1. cmd.op = "DATA" /\ b = wrBl
      BY <1>1, <2>2, <2>4 DEF EmWriteData
    <3>2. turn = "tag" /\ state = "WRITEBL2" /\ ~Request
      BY <2>4 DEF EmWriteData, In, Got
    <3>3. at = "data"
      BY <1>1, <3>2, PlaceOf
    <3>4. OpenBlock /\ Together(OnAir)
      BY <1>1, <3>2, <3>3 DEF IInv, Waiting, Home
    <3>. QED BY <3>1, <3>4 DEF OpenBlock, Open, Together, InStep
  <2>. QED BY <2>1, <2>3, <2>4
<1>2. IInv /\ [Next]_vars =>
        [\A b \in Blocks : mem'[b] # mem[b] =>
           /\ cmd.op \in {"DATA", "TRANSFER"} /\ cmd.b = b /\ SectorOf(b) = authSc
           /\ IF Enc THEN keyed /\ sector = authSc ELSE ~keyed]_vars
  BY <1>1
<1>. QED BY <1>2, Invariance, PTL DEF Spec, WritesInSector
=============================================================================
