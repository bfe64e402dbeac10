------------------------------ MODULE SelectCard ------------------------------
(***************************************************************************)
(* The firmware as a reader of its own: ReaderIso14443a with               *)
(* iso14443a_select_card and iso14_apdu, in a field with one or several    *)
(* cards.  The cards are external (ISO 14443-3), or another device that    *)
(* runs SimulateIso14443aTag or Mifare1ksim.                               *)
(*                                                                         *)
(* The reader blocks on the answer to each frame it sends, so that a frame *)
(* and what is heard of its answers are one step (Exchange).  Each card    *)
(* may miss the frame, each answer may be lost.                            *)
(*                                                                         *)
(* One part of a UID is the set of the positions (0..31, in the order of   *)
(* transmission) of its 1 bits; with its check byte it is a subset of      *)
(* 0..39.  Answers sent at once superpose: where they differ the           *)
(* demodulator reads a 1 and notes the first collision.                    *)
(***************************************************************************)
EXTENDS Naturals, FiniteSets, Sequences

CONSTANTS
  Populations, \* what may be in the field: sequences of Card
  Requests,    \* the iso14a_command flags hosts use: subsets of Flags
  Loss         \* may frames and answers be lost?

Flags    == {"CONNECT", "NO_SELECT", "APDU", "RAW", "NO_DISCONNECT"}
Position == 0..31
Card(kind, iso4, parts) == [kind |-> kind, iso4 |-> iso4, parts |-> parts]
CardKinds == {"card", "simtag", "mf1k"}

CardType == [kind : CardKinds, iso4 : BOOLEAN, parts : Seq(SUBSET Position)]

(* UIDs have up to three parts, every one but the last begins with the     *)
(* cascade tag and no other does, and are unique (ISO 14443-3).  The       *)
(* emulations answer to any UID: each is in the field alone.  Mifare1ksim  *)
(* has no SAK of an ISO 14443-4 card.                                      *)
ASSUME SelectConstants ==
  /\ Populations \subseteq Seq(CardType)
  /\ \A p \in Populations : \A i \in 1..Len(p) :
       /\ Len(p[i].parts) \in 1..3
       /\ \A l \in 1..Len(p[i].parts) :
            l < Len(p[i].parts) <=> p[i].parts[l] \cap 0..7 = {3, 7}
       /\ p[i].kind = "mf1k" => ~p[i].iso4
       /\ \A j \in 1..Len(p) :
            i # j => p[i].kind = "card" /\ p[i].parts # p[j].parts
  /\ Requests \subseteq SUBSET Flags
  /\ Loss \in BOOLEAN

VARIABLES
  pop,      \* what is in the field
  card,     \* what state each card is in
  field,
  flags,    \* the request the firmware executes
  pc,       \* what it sends next
  level,    \* cascade_level + 1
  known,    \* uid_resp, the positions of its 1 bits
  bits,     \* uid_resp_bits
  uid,      \* the parts of the UID stored in p_hi14a_card so far
  ret,      \* what iso14443a_select_card returned
  blocknum, \* iso14_pcb_blocknum
  fresh,    \* the field was off when the request came
  quiet,    \* nothing was lost since it came
  insync    \* nothing was lost since the last RATS was answered

tag  == <<pop, card>>
selectVars == <<pop, card, field, flags, pc, level, known, bits, uid, ret, blocknum,
          fresh, quiet, insync>>
Cards == 1..Len(pop)
-----------------------------------------------------------------------------
(* Bits on the air.                                                        *)
Odd(S) == Cardinality(S) % 2 = 1
Bcc(part) == { 32 + j : j \in { k \in 0..7 : Odd(part \cap {k, 8 + k, 16 + k, 24 + k}) } }
Full(part) == part \cup Bcc(part)
Smallest(S) == CHOOSE x \in S : \A y \in S : x <= y

(* Demod.collisionPos for the answers `fulls', sent from bit n on: the     *)
(* demodulator counts from the byte that holds bit n, a parity bit as bit  *)
(* 8 of its byte, and takes the position 0 for no collision.               *)
CollisionPos(fulls, n) ==
  LET differ(q)  == \E a, b \in fulls : q \in a /\ q \notin b
      odd(a, k)  == Odd(a \cap (8*k .. 8*k + 7))
      data   == { q - 8 * (n \div 8) : q \in { r \in n..39 : differ(r) } }
      parity == { 8 * (k - n \div 8) + 8 :
                    k \in { j \in (n \div 8)..4 : \E a, b \in fulls : odd(a, j) # odd(b, j) } }
      seen   == (data \cup parity) \ {0}
  IN  IF seen = {} THEN 0 ELSE Smallest(seen)
-----------------------------------------------------------------------------
(* Frames of the reader.  `known' and `n' are the part of the UID sent.    *)
Frame(op, l, k, n) == [op |-> op, level |-> l, known |-> k, n |-> n]
Bare(op)   == Frame(op, 0, {}, 0)

(* What a card does with a frame: its next state and the kind of answer.   *)
At(c, st, l, num, ans) == [to |-> [st |-> st, level |-> l, num |-> num], ans |-> ans]
Stay(c)        == At(c, card[c].st, card[c].level, card[c].num, "none")
Part(c)        == pop[c].parts[card[c].level]
Prefix(S, n)   == { b \in S : b < n }
Matches(c, f)  == Prefix(Full(Part(c)), f.n) = f.known

(* An ISO 14443-3 card.  A frame that does not fit sends it back to idle.  *)
Selected(c) ==
  IF card[c].level < Len(pop[c].parts)
  THEN At(c, "ready", card[c].level + 1, 0, "cascade")
  ELSE At(c, "active", card[c].level, 0, "sak")
ReadyCard(c, f) ==
  CASE f.op \in {"SELALL", "PARTIAL"} /\ f.level = card[c].level ->
         IF Matches(c, f) /\ f.n < 40 THEN At(c, "ready", card[c].level, 0, "uid") ELSE Stay(c)
    [] f.op = "SELECT" /\ f.level = card[c].level /\ Part(c) = f.known -> Selected(c)
    [] OTHER -> At(c, "idle", 1, 0, "none")
IsoCard(c, f) ==
  CASE card[c].st = "idle" -> IF f.op = "WUPA" THEN At(c, "ready", 1, 0, "atqa") ELSE Stay(c)
    [] card[c].st = "halt" -> IF f.op = "WUPA" THEN At(c, "ready", 1, 0, "atqa") ELSE Stay(c)
    [] card[c].st = "ready" -> ReadyCard(c, f)
    [] card[c].st = "active" ->
         CASE f.op = "RATS" /\ pop[c].iso4 -> At(c, "protocol", 1, 1, "ats")
           [] f.op = "HLTA"                -> At(c, "halt", 1, 0, "none")
           [] OTHER                        -> At(c, "idle", 1, 0, "none")
    [] OTHER -> IF f.op = "APDU" THEN At(c, "protocol", 1, 1 - card[c].num, "block") ELSE Stay(c)

(* SimulateIso14443aTag looks at the first bytes of a frame only, not at   *)
(* the UID in a SELECT nor at what came before it; a partial SELECT is     *)
(* unknown to it.  st and level are what a reader has been told.           *)
SimTag(c, f) ==
  LET parts == Len(pop[c].parts)
      knows == f.level \in 1..parts
  IN  CASE f.op = "WUPA"  -> At(c, "ready", 1, 0, "atqa")
        [] f.op = "SELALL" /\ knows -> At(c, "ready", f.level, 0, "uid")
        [] f.op = "SELECT" /\ knows ->
             IF f.level < parts THEN At(c, "ready", f.level + 1, 0, "cascade")
                                ELSE At(c, "active", f.level, 0, "sak")
        [] f.op = "RATS" -> IF pop[c].iso4 THEN At(c, "protocol", 1, 1, "ats")
                                           ELSE At(c, card[c].st, card[c].level, 0, "nack")
        [] f.op = "APDU" -> At(c, card[c].st, card[c].level, blocknum, "block")
        [] OTHER         -> Stay(c)

(* Mifare1ksim up to the point where it is selected (the rest is in module *)
(* Mifare1ksim); it has no partial SELECT either.                          *)
Mf1k(c, f) ==
  CASE f.op = "WUPA" -> At(c, "ready", 1, 0, "atqa")
    [] card[c].st = "ready" /\ f.op = "SELALL" /\ f.level = card[c].level ->
         At(c, "ready", f.level, 0, "uid")
    [] card[c].st = "ready" /\ f.op = "SELECT" /\ f.level = card[c].level /\ Part(c) = f.known ->
         Selected(c)
    [] f.op = "HLTA" /\ (card[c].st = "active" \/ (card[c].st = "ready" /\ card[c].level = 2)) ->
         At(c, "halt", 1, 0, "none")
    [] card[c].st = "active" /\ f.op = "RATS" -> At(c, "active", card[c].level, 0, "nack")
    [] OTHER -> Stay(c)

Reaction(c, f) ==
  CASE pop[c].kind = "card"   -> IsoCard(c, f)
    [] pop[c].kind = "simtag" -> SimTag(c, f)
    [] pop[c].kind = "mf1k"   -> Mf1k(c, f)

(* ReaderTransmit, which switches the field on if it is not, and           *)
(* ReaderReceive: `missed' cards do not hear the frame, of the answers all *)
(* but the `lost' ones are heard.                                          *)
Exchange(f, Handle(_)) ==
  \E missed \in IF Loss THEN SUBSET Cards ELSE {{}} :
    LET r(c)    == IF c \in missed THEN Stay(c) ELSE Reaction(c, f)
        answers == { c \in Cards : r(c).ans # "none" }
    IN  \E lost \in IF Loss THEN SUBSET answers ELSE {{}} :
          /\ card' = [c \in Cards |-> r(c).to]
          /\ quiet' = (quiet /\ missed = {} /\ lost = {})
          /\ insync' = IF f.op = "RATS" THEN missed = {} /\ lost = {}
                       ELSE insync /\ missed = {} /\ lost = {}
          /\ Handle([c \in answers \ lost |-> r(c).ans])
          /\ field' = TRUE
          /\ UNCHANGED <<pop, flags, fresh>>
-----------------------------------------------------------------------------
(* iso14443a_select_card.  `heard' maps the cards heard to their answers.  *)
Return(r) == ret' = r /\ pc' = "apdu"
Nobody(heard) == DOMAIN heard = {}

Wupa ==
  /\ pc = "wupa"
  /\ Exchange(Bare("WUPA"), LAMBDA heard :
       /\ IF Nobody(heard) THEN Return(0) ELSE pc' = "selall" /\ ret' = ret
       /\ level' = 1 /\ uid' = <<>>
       /\ UNCHANGED <<known, bits, blocknum>>)

Fulls(heard) == { Full(pop[c].parts[level]) : c \in DOMAIN heard }

(* A collision at p: the bits before it are taken over, at the index they  *)
(* have in the answer, and the collision is resolved with a 1.  Bits past  *)
(* the four bytes of uid_resp hold what was there before.                  *)
Colliding(fulls, p) ==
  LET offset == bits % 8
      base   == 8 * (bits \div 8)
      at     == bits + p - offset
      valid  == { i \in offset..(p - 1) : i + base \in UNION fulls }
  IN  /\ \E junk \in SUBSET (33..(at - 1)) : known' = known \cup valid \cup {at} \cup junk
      /\ bits' = at + 1
      /\ pc' = "partial" /\ ret' = ret

(* No collision (any more): the rest of the answer completes the UID.      *)
CompleteFromZero(fulls) ==                                       \* mutant
  /\ known' = known \cup { b \in Position : b > bits /\ b \in UNION fulls }
  /\ UNCHANGED bits
  /\ pc' = "select" /\ ret' = ret
Complete(fulls) ==
  /\ known' = known \cup { b \in Position : b >= bits /\ b \in UNION fulls }
  /\ UNCHANGED bits
  /\ pc' = "select" /\ ret' = ret

Anticollision(op) ==
  Exchange(Frame(op, level, Prefix(known, bits), bits), LAMBDA heard :
    /\ LET fulls == Fulls(heard)
           p     == CollisionPos(fulls, bits)
       IN  IF Nobody(heard) THEN Return(0) /\ UNCHANGED <<known, bits>>
           ELSE IF p # 0 THEN Colliding(fulls, p) ELSE Complete(fulls)
    /\ UNCHANGED <<level, uid, blocknum>>)
SelectAll == pc = "selall" /\ Anticollision("SELALL")
SelectPartial == pc = "partial" /\ Anticollision("PARTIAL")

(* SELECT and its SAK: the next level, RATS, or the end of a card that is  *)
(* not ISO 14443-4 compliant.  The cascade tag is not part of the UID.     *)
DropNoByte(S) == S                                               \* mutant
DropFirstByte(S) == { b - 8 : b \in { c \in S : c >= 8 } }
SelectUid ==
  /\ pc = "select"
  /\ Exchange(Frame("SELECT", level, known \cap Position, 0), LAMBDA heard :
       LET says(sak) == \E c \in DOMAIN heard : heard[c] = sak
       IN  /\ CASE Nobody(heard)   -> Return(0) /\ UNCHANGED <<uid, level>>
                [] ~Nobody(heard) /\ says("cascade") ->
                     /\ uid' = Append(uid, DropFirstByte(known \cap Position))
                     /\ level' = level + 1 /\ pc' = "selall" /\ ret' = ret
                [] OTHER ->
                     /\ uid' = Append(uid, known \cap Position) /\ UNCHANGED level
                     /\ IF \E c \in DOMAIN heard : pop[c].iso4
                        THEN pc' = "rats" /\ ret' = ret ELSE Return(2)
           /\ known' = {} /\ bits' = 0 /\ UNCHANGED blocknum)

RatsKeepNumber ==                                                \* mutant
  /\ pc = "rats"
  /\ Exchange(Bare("RATS"), LAMBDA heard :
       /\ Return(IF Nobody(heard) THEN 0 ELSE 1)
       /\ UNCHANGED <<level, uid, known, bits, blocknum>>)
RatsLength ==                                                    \* mutant
  /\ pc = "rats"
  /\ Exchange(Bare("RATS"), LAMBDA heard :
       /\ IF Nobody(heard) THEN Return(0) /\ UNCHANGED blocknum
                           ELSE Return(6) /\ blocknum' = 0
       /\ UNCHANGED <<level, uid, known, bits>>)
Rats ==
  /\ pc = "rats"
  /\ Exchange(Bare("RATS"), LAMBDA heard :
       /\ IF Nobody(heard) THEN Return(0) /\ UNCHANGED blocknum
                           ELSE Return(1) /\ blocknum' = 0
       /\ UNCHANGED <<level, uid, known, bits>>)
-----------------------------------------------------------------------------
(* ReaderIso14443a.                                                        *)
Request(f) ==
  /\ pc = "idle" /\ flags' = f
  /\ fresh' = ~field /\ quiet' = TRUE
  /\ field' = (field \/ "CONNECT" \in f)
  /\ level' = 1 /\ known' = {} /\ bits' = 0 /\ uid' = <<>> /\ ret' = 0
  /\ pc' = IF "CONNECT" \in f /\ "NO_SELECT" \notin f THEN "wupa" ELSE "apdu"
  /\ UNCHANGED <<pop, card, blocknum, insync>>

(* The host is sent the result of the selection before the APDU, which is  *)
(* sent whatever that result is.                                           *)
SkipApdu ==
  /\ pc = "apdu" /\ "APDU" \notin flags /\ pc' = "raw"
  /\ UNCHANGED <<pop, card, field, flags, level, known, bits, uid, ret, blocknum, fresh, quiet, insync>>

(* iso14_apdu: the block number changes when the card acknowledges it.     *)
Apdu ==
  /\ pc = "apdu" /\ "APDU" \in flags
  /\ Exchange(Bare("APDU"), LAMBDA heard :
       /\ blocknum' = IF ~Nobody(heard) /\ (\E c \in DOMAIN heard : Reaction(c, Bare("APDU")).to.num = 1)
                                            = (blocknum = 1)
                      THEN 1 - blocknum ELSE blocknum
       /\ pc' = "raw"
       /\ UNCHANGED <<level, uid, known, bits, ret>>)

(* ISO14A_RAW, here with the HLTA hosts send with it.                      *)
Raw ==
  /\ pc = "raw" /\ "RAW" \in flags
  /\ Exchange(Bare("HLTA"), LAMBDA heard :
       pc' = "done" /\ UNCHANGED <<level, uid, known, bits, ret, blocknum>>)
SkipRaw ==
  /\ pc = "raw" /\ "RAW" \notin flags /\ pc' = "done"
  /\ UNCHANGED <<pop, card, field, flags, level, known, bits, uid, ret, blocknum, fresh, quiet, insync>>

Idle(c) == [st |-> "idle", level |-> 1, num |-> 0]
Disconnect ==
  /\ pc = "done" /\ pc' = "idle"
  /\ IF "NO_DISCONNECT" \in flags THEN UNCHANGED <<field, card, insync>>
     ELSE /\ field' = FALSE /\ insync' = FALSE
          /\ card' = [c \in Cards |-> Idle(c)]
  /\ level' = 1 /\ known' = {} /\ bits' = 0 /\ uid' = <<>> /\ ret' = 0
  /\ flags' = {} /\ fresh' = FALSE /\ quiet' = TRUE
  /\ UNCHANGED <<pop, blocknum>>

Select == Wupa \/ SelectAll \/ SelectPartial \/ SelectUid \/ Rats
Reader == Select \/ SkipApdu \/ Apdu \/ Raw \/ SkipRaw \/ Disconnect
-----------------------------------------------------------------------------
SelectInit ==
  /\ pop \in Populations
  /\ card = [c \in Cards |-> Idle(c)]
  /\ field = FALSE /\ flags = {} /\ pc = "idle"
  /\ level = 1 /\ known = {} /\ bits = 0 /\ uid = <<>> /\ ret = 0
  /\ blocknum = 0 /\ fresh = FALSE /\ quiet = TRUE /\ insync = FALSE

SelectNext == Reader \/ \E f \in Requests : Request(f)

SelectSpec == SelectInit /\ [][SelectNext]_selectVars
-----------------------------------------------------------------------------
(* Types: uid_resp never gets more than eight bits past its four bytes.    *)
SelectTypeOK ==
  /\ pop \in Populations
  /\ card \in [Cards -> [st : {"idle", "ready", "active", "protocol", "halt"},
                         level : 1..3, num : {0, 1}]]
  /\ field \in BOOLEAN /\ flags \in Requests \cup {{}}
  /\ pc \in {"idle", "wupa", "selall", "partial", "select", "rats", "apdu", "raw", "done"}
  /\ level \in 1..3 /\ known \subseteq 0..39 /\ bits \in 0..40
  /\ Len(uid) <= 3 /\ ret \in 0..2 /\ blocknum \in {0, 1}
  /\ fresh \in BOOLEAN /\ quiet \in BOOLEAN /\ insync \in BOOLEAN

UidOf(c) ==
  [l \in 1..Len(pop[c].parts) |->
     LET part == pop[c].parts[l]
     IN  IF l < Len(pop[c].parts) THEN { b \in Position : b + 8 \in part } ELSE part]
SelectDone == pc = "apdu" /\ "CONNECT" \in flags /\ "NO_SELECT" \notin flags

(* When iso14443a_select_card says it found a card, one card has been      *)
(* selected, the UID reported is that card's, and the value returned tells *)
(* whether it is in the block protocol: whatever collided and whatever     *)
(* was lost on the way.  The field was off before: a card left in the      *)
(* middle of a selection or selected by an earlier request may miss frame  *)
(* after frame and join in later.                                          *)
OneSelected ==
  SelectDone /\ fresh /\ ret # 0 =>
    \E c \in Cards :
      /\ { d \in Cards : card[d].st \in {"active", "protocol"} } = {c}
      /\ uid = UidOf(c)
      /\ ret = IF card[c].st = "protocol" THEN 1 ELSE 2

(* Populations whose collisions the anticollision loop can resolve: up to  *)
(* three cards that do not differ in the first bit of a UID part (a        *)
(* collision at position 0 counts as none); of three the first collision   *)
(* has to come before the last bit of the first byte (the one after it is  *)
(* then still copied to the right place).                                  *)
SameUpTo(c, d, l) ==
  /\ Len(pop[c].parts) >= l /\ Len(pop[d].parts) >= l
  /\ \A k \in 1..(l - 1) : pop[c].parts[k] = pop[d].parts[k]
FirstDifferences(c, l) ==
  LET group == { d \in Cards : SameUpTo(c, d, l) }
      Diff(d, e) == (pop[d].parts[l] \ pop[e].parts[l]) \cup (pop[e].parts[l] \ pop[d].parts[l])
  IN  { Smallest(S) : S \in { Diff(d, e) : d, e \in group } \ {{}} }
Resolvable ==
  /\ Len(pop) \in 1..3
  /\ \A c \in Cards : \A l \in 1..Len(pop[c].parts) :
       LET first == FirstDifferences(c, l)
       IN  first # {} => 0 \notin first /\ (Len(pop) <= 2 \/ Smallest(first) <= 6)

(* With the field just switched on and nothing lost, a card is found       *)
(* whenever the collisions can be resolved: the bits put together from     *)
(* several answers are the UID of a card that is there.                    *)
Resolves == SelectDone /\ fresh /\ quiet /\ ret = 0 => ~Resolvable

(* As long as nothing is lost the block number of the reader is the one    *)
(* the card expects, in every request since its RATS was answered, with    *)
(* selections that failed in between.                                      *)
NumberInStep ==
  insync => \A c \in Cards :
    { d \in Cards : card[d].st = "protocol" } = {c} /\ pop[c].kind = "card" =>
      blocknum = 1 - card[c].num
=============================================================================
