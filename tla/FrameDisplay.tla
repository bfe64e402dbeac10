---------------------------- MODULE FrameDisplay ----------------------------
(***************************************************************************)
(* How nfcdump -r shows a capture: main hands the records of decoder_t one *)
(* by one to decoder_t::to_string, which names each with an otfta_parse_t  *)
(* and guesses from the reader's frames, in the variable fsm of main, what *)
(* the next one may be.  A frame on the air may be missing among the       *)
(* records, or a record may have only its first bytes.                     *)
(*                                                                         *)
(* What is shown of a frame is its name, its cascade level, the bits its   *)
(* NVB announces and the remarks made on it; the values of its fields are  *)
(* left out, and the remarks on those of an ATS.                           *)
(***************************************************************************)
EXTENDS Integers, Sequences, SequencesExt, Bitwise

CONSTANTS
  Uids,    \* four bytes each
  Atqas,   \* two bytes each
  Crcs,    \* two bytes each
  Keeps    \* bytes of the UID a reader sends to resolve a collision

REQA == 38   WUPA == 82   HALT == 80   RATS == 224
ACCO == 147  ACCW == 149  ACCT == 151
SELC == 112  SELA == 32   SECC == 136
CommandBytes == {REQA, WUPA, HALT, RATS, ACCO, ACCW, ACCT, SECC}

(* The parser knows a command by its first byte and a SELECT by the        *)
(* second, whoever sent it: a card whose answers have these bytes there is *)
(* shown wrongly.  So is what is left of a UID when it has three bytes.    *)
ASSUME DisplayConstants ==
  /\ \A u \in Uids : u \in [1..4 -> 0..255] /\ u[1] \notin CommandBytes \cup {SELC, SELA}
  /\ \A a \in Atqas : a \in [1..2 -> 0..255] /\ a[1] \notin CommandBytes /\ a[1] # a[2]
                     /\ a[2] < 16 /\ a[1] % 64 < 32 /\ a[1] < 192    \* no bits RFU
  /\ \A c \in Crcs : c \in [1..2 -> 0..255]
  /\ Keeps \subseteq {1, 3, 4}

VARIABLES
  card,   \* who is on the air
  sent,   \* the last frame on the air
  fsm,    \* the variable of main
  told,   \* what is shown of that frame, Nothing when it left no record
  whole,  \* its record has all its bytes
  gap,    \* since the last request shown, a frame had no whole record
  blind,  \* a RATS was missed and no request, halt or RATS shown since
  main    \* "showing", or "ended" by an exception

vars == <<card, sent, fsm, told, whole, gap, blind, main>>

Name(kind) == [kind |-> kind, level |-> 0, bits |-> 0, remarks |-> {}]
Nothing == Name("nothing")
Thrown  == Name("thrown")
Unknown == Name("unknown")
Remark(label, rs) == [label EXCEPT !.remarks = @ \cup rs]
Malformed(found) == IF found THEN {"malformed"} ELSE {}
Invalid(found)   == IF found THEN {"invalid"} ELSE {}
Spurious(found)  == IF found THEN {"spurious"} ELSE {}
Bcc(v) == FoldLeft(LAMBDA a, b : a ^^ b, 0, v)
-----------------------------------------------------------------------------
(* otfta_parse_t.                                                          *)
ParseReqwup(v) == Name(IF v[1] = REQA THEN "REQA" ELSE "WUPA")

(* The bits an NVB announces, less those of SEL and NVB.                   *)
NvbBytes(nvb) == (nvb & 112) \div 16
NvbListed(nvb) == NvbBytes(nvb) \in 2..7
NvbBits(nvb) == (IF NvbListed(nvb) THEN 8 * NvbBytes(nvb) ELSE 0) + (nvb & 7)
ParseNvb(label, nvb) ==
  [Remark(label, Invalid(~NvbListed(nvb) \/ (nvb & 136) # 0)) EXCEPT !.bits = NvbBits(nvb)]

LevelOf(sel) ==
  CASE sel = ACCO -> 1 [] sel = ACCW -> 2 [] sel = ACCT -> 3 [] OTHER -> 0

ParseSelanc(v) ==
  LET At(kind) == [Name(kind) EXCEPT !.level = LevelOf(v[1])]
  IN  IF Len(v) < 2 THEN Remark(Unknown, {"malformed"})
      ELSE IF v[2] = SELC THEN
        Remark(At("SELECT"), Malformed(Len(v) < 9)
                             \cup Invalid(Len(v) >= 7 /\ Bcc(SubSeq(v, 3, 7)) # 0))
      ELSE IF v[2] = SELA THEN At("ANTICOLLISION")
      ELSE IF v[1] # SECC THEN
        ParseNvb(Remark(At("PARTIAL"), Malformed(Len(v) < 6)), (v[2] - 32) % 256)
      ELSE Remark(Name("UID"), Malformed(Len(v) < 5 \/ Bcc(v) # 0))

ParseHalt(v) ==
  Remark(Name("HLTA"), Malformed(Len(v) # 4) \cup Invalid(Len(v) = 4 /\ v[2] # 0))

(* It goes on after it has found the CRC missing: v.at(2) throws.  A frame *)
(* size of 16 bytes has none of the bits RATSA_FSDI_IS_VALID wants, one    *)
(* above 128 is not in the table.                                          *)
ParseRats(v) ==
  LET fsdi == v[2] & 240
  IN  IF Len(v) = 2 THEN Thrown
      ELSE Remark(Name("RATS"), Malformed(Len(v) < 4)
                                \cup Invalid(Len(v) >= 2 /\ (fsdi = 0 \/ fsdi > 128)))

ParseAtqa(state, v) ==
  Remark(Name("ATQA"),
         Invalid((v[2] & 240) # 0 \/ (v[1] & 32) # 0 \/ (v[1] & 192) = 192)
         \cup Spurious(state # "REQWUP"))

(* SAK_IS_VALID knows the bits of a cascade and of ISO/IEC 14443-4 only.   *)
Selecting == {"SELC_ONE", "SELC_ONE_CONTINUE", "SELC_TWO", "SELC_TWO_CONTINUE", "SELC_THREE"}
ParseSaka(state, v) ==
  Remark(Name("SAK"),
         Invalid((v[1] & 219) # 0)
         \cup Spurious(state \notin (Selecting \ {"SELC_ONE"}) \cup {"XMIT_RATS"}))

ParsePps(v) ==
  IF Len(v) = 3 THEN Name("PPSS")
  ELSE IF (v[1] & 208) = 208 THEN Name("PPS") ELSE Name("")

SelectResponse(state, v) ==
  IF state \in Selecting
  THEN Remark(Name("UID"), Invalid(Len(v) = 5 /\ Bcc(v) # 0))
  ELSE Unknown

ParseAts(v) ==
  IF Len(v) < 2 THEN Unknown
  ELSE IF v[1] = Len(v) - 2 THEN Name("ATS") ELSE Name("")

ParseOther(p, v) ==
  LET bcc == Bcc(v) = 0
  IN  IF Len(v) = 2 /\ ~bcc THEN ParseAtqa(p.state, v)
      ELSE IF Len(v) = 3 /\ ~p.hcol /\ p.state # "XMIT_PPS" THEN ParseSaka(p.state, v)
      ELSE IF ~bcc /\ Len(v) \in {3, 5} /\ p.state \in {"XMIT_RATS", "XMIT_PPS"}
           THEN ParsePps(v)
      ELSE IF bcc \/ p.hcol \/ Len(v) = 5 THEN SelectResponse(p.state, v)
      ELSE IF p.state = "XMIT_RATS" THEN ParseAts(v)
      ELSE Unknown

Cmd(p, v) ==
  IF p.hcol \/ p.state = "XMIT_PPS" THEN ParseOther(p, v)
  ELSE CASE v[1] \in {REQA, WUPA} -> ParseReqwup(v)
         [] v[1] \in {ACCO, ACCW, ACCT, SECC} -> ParseSelanc(v)
         [] v[1] = RATS -> ParseRats(v)
         [] v[1] = HALT -> ParseHalt(v)
         [] OTHER -> ParseOther(p, v)

(* to_string makes a parser of its own for every record: what parse_selanc *)
(* leaves in m_hcol for the next one is not there.                         *)
NewParser(s) == [state |-> s, hcol |-> FALSE]
-----------------------------------------------------------------------------
(* What to_string makes of the state, by the records of the reader.        *)
AfterRats(s, v) ==                                               \* mutant
  CASE v[1] \in {REQA, WUPA, HALT} -> "REQWUP"
    [] v[1] = ACCO /\ Len(v) = 2 -> "SELC_ONE_CONTINUE"
    [] v[1] = ACCO /\ Len(v) > 2 -> "SELC_TWO"
    [] v[1] = ACCW /\ Len(v) = 2 -> "SELC_TWO_CONTINUE"
    [] v[1] = ACCW /\ Len(v) > 2 -> "SELC_THREE"
    [] v[1] = ACCT -> "XMIT_RATS"
    [] OTHER -> s
AfterRequest(s, v) ==                                            \* mutant
  CASE v[1] \in {RATS, HALT} -> "REQWUP"
    [] v[1] = ACCO /\ Len(v) = 2 -> "SELC_ONE_CONTINUE"
    [] v[1] = ACCO /\ Len(v) > 2 -> "SELC_TWO"
    [] v[1] = ACCW /\ Len(v) = 2 -> "SELC_TWO_CONTINUE"
    [] v[1] = ACCW /\ Len(v) > 2 -> "SELC_THREE"
    [] v[1] = ACCT -> "XMIT_RATS"
    [] OTHER -> s
After(s, v) ==
  CASE v[1] \in {REQA, WUPA, RATS, HALT} -> "REQWUP"
    [] v[1] = ACCO /\ Len(v) = 2 -> "SELC_ONE_CONTINUE"
    [] v[1] = ACCO /\ Len(v) > 2 -> "SELC_TWO"
    [] v[1] = ACCW /\ Len(v) = 2 -> "SELC_TWO_CONTINUE"
    [] v[1] = ACCW /\ Len(v) > 2 -> "SELC_THREE"
    [] v[1] = ACCT -> "XMIT_RATS"
    [] OTHER -> s
-----------------------------------------------------------------------------
(* The frames of a session: a request, anticollision and SELECT once a     *)
(* level, then RATS, PPS and blocks, or the authentication of a MIFARE     *)
(* Classic card; the reader may begin again after any of them.             *)
F(by, kind, level) == [by |-> by, kind |-> kind, level |-> level, keep |-> 0]
FromReader(kind) == F("reader", kind, 0)
FromCard(kind)   == F("card", kind, 0)
Requests == {FromReader("REQA"), FromReader("WUPA")}

Follows(f) ==
  LET l == f.level
      Partial == {[F("reader", "PARTIAL", l) EXCEPT !.keep = k] : k \in Keeps}
  IN  CASE f.kind \in {"REQA", "WUPA"} -> {FromCard("ATQA")}
        [] f.kind = "ATQA" -> {F("reader", "ANTICOLLISION", 1)}
        [] f.kind = "ANTICOLLISION" -> {F("card", "UID", l)} \cup Partial
        [] f.kind = "PARTIAL" -> {[F("card", "REST", l) EXCEPT !.keep = f.keep]}
        [] f.kind \in {"UID", "REST"} -> {F("reader", "SELECT", l)}
        [] f.kind = "SELECT" -> {F("card", "SAK", l)}
        [] f.kind = "SAK" /\ l < card.parts -> {F("reader", "ANTICOLLISION", l + 1)}
        [] f.kind = "SAK" /\ l = card.parts ->
             {FromReader(IF card.iso THEN "RATS" ELSE "AUTH"), FromReader("HLTA")}
        [] f.kind = "RATS" -> {FromCard("ATS")}
        [] f.kind = "ATS" -> {FromReader("PPS"), FromReader("BLOCK")}
        [] f.kind = "PPS" -> {FromCard("PPSS")}
        [] f.kind = "BLOCK" -> {FromCard("ANSWER")}
        [] f.kind \in {"PPSS", "ANSWER"} -> {FromReader("BLOCK")}
        [] f.kind = "AUTH" -> {FromCard("NONCE")}
        [] OTHER -> {}

Sel(l) == 145 + 2 * l
Uid(l) ==
  LET u == IF l < card.parts THEN <<SECC>> \o SubSeq(card.uid, 1, 3) ELSE card.uid
  IN  Append(u, Bcc(u))

Bytes(f, crc) ==
  CASE f.kind = "REQA" -> <<REQA>>
    [] f.kind = "WUPA" -> <<WUPA>>
    [] f.kind = "ATQA" -> card.atqa
    [] f.kind = "ANTICOLLISION" -> <<Sel(f.level), SELA>>
    [] f.kind = "UID" -> Uid(f.level)
    [] f.kind = "PARTIAL" -> <<Sel(f.level), 32 + 16 * f.keep>> \o SubSeq(Uid(f.level), 1, f.keep)
    [] f.kind = "REST" -> SubSeq(Uid(f.level), f.keep + 1, 5)
    [] f.kind = "SELECT" -> <<Sel(f.level), SELC>> \o Uid(f.level) \o crc
    [] f.kind = "SAK" -> <<IF f.level < card.parts THEN 4 ELSE IF card.iso THEN 32 ELSE 8>> \o crc
    [] f.kind = "HLTA" -> <<HALT, 0>> \o crc
    [] f.kind = "RATS" -> <<RATS, 80>> \o crc
    [] f.kind = "ATS" -> <<5, 117, 119, 129, 2>> \o crc
    [] f.kind = "PPS" -> <<208, 17, 0>> \o crc
    [] f.kind = "PPSS" -> <<208>> \o crc
    [] f.kind = "BLOCK" -> <<2, 0, 164, 4, 0>> \o crc
    [] f.kind = "ANSWER" -> <<2, 144, 0>> \o crc
    [] f.kind = "AUTH" -> <<96, 4>> \o crc
    [] f.kind = "NONCE" -> <<1, 2, 3, 4>>

OnAir == Follows(sent) \cup Requests
-----------------------------------------------------------------------------
Init ==
  /\ card \in [parts : 1..3, iso : BOOLEAN, uid : Uids, atqa : Atqas]
  /\ sent = FromReader("none") /\ fsm = "REQWUP"
  /\ told = Nothing /\ whole = FALSE /\ gap = TRUE /\ blind = FALSE
  /\ main = "showing"

(* One record through to_string; an exception ends main's loop.            *)
Show(f, v) ==
  /\ main = "showing"
  /\ sent' = f
  /\ told' = Cmd(NewParser(fsm), v)
  /\ IF told' = Thrown
     THEN main' = "ended" /\ UNCHANGED <<fsm, blind>>
     ELSE /\ fsm' = IF f.by = "reader" THEN After(fsm, v) ELSE fsm
          /\ blind' = (blind /\ f.kind \notin {"REQA", "WUPA", "HLTA", "RATS"})
          /\ UNCHANGED main
  /\ UNCHANGED card

Decoded ==
  \E f \in OnAir, crc \in Crcs :
    /\ Show(f, Bytes(f, crc))
    /\ whole' = TRUE
    /\ gap' = (gap /\ f \notin Requests)

Cut ==
  \E f \in OnAir, crc \in Crcs :
    LET v == Bytes(f, crc)
    IN  \E n \in 1..(Len(v) - 1) : Show(f, SubSeq(v, 1, n))
  /\ whole' = FALSE /\ gap' = TRUE

Missed ==
  /\ main = "showing"
  /\ \E f \in OnAir :
       /\ sent' = f
       /\ blind' = (blind \/ f.kind = "RATS")
  /\ told' = Nothing /\ whole' = FALSE /\ gap' = TRUE
  /\ UNCHANGED <<card, fsm, main>>

Next == Decoded \/ Cut \/ Missed

Spec == Init /\ [][Next]_vars
-----------------------------------------------------------------------------
(* The name is that of the frame, with its level when the reader sent it.  *)
Right ==
  /\ told.kind = IF sent.kind = "REST" THEN "UID" ELSE sent.kind
  /\ sent.by = "reader" => told.level = sent.level
Hedged == told.kind \in {"unknown", ""} \/ "spurious" \in told.remarks

(* Whatever frames before it are missing or torn, a frame is shown as what *)
(* it is, as unknown or as spurious, and never as another: what main       *)
(* remembers of the frames before is no more than a hint.  RATS is the one *)
(* frame it may not miss, without it a block of five bytes is a UID; and   *)
(* what a collision left of a UID it knows by the frames before only.      *)
Faithful ==
  whole /\ ~blind /\ (sent.kind = "REST" => ~gap) => Right \/ Hedged

(* From a request on with nothing missing every frame of the selection, and *)
(* HLTA and RATS, is shown under its own name, with the bits its NVB        *)
(* announces and without a remark; only the UID of level 3 and the          *)
(* collisions that leave less than four bytes are not.  The last SAK of a   *)
(* card without ISO/IEC 14443-4, 08 of a MIFARE Classic, is shown as        *)
(* invalid.  And main shows every record, except that of a RATS cut to two  *)
(* bytes and those after it.                                                *)
Known ==
  \/ sent.kind \in {"REQA", "WUPA", "ATQA", "ANTICOLLISION", "SELECT", "SAK", "RATS", "HLTA"}
  \/ sent.kind = "UID" /\ sent.level < 3
  \/ sent.kind = "PARTIAL" /\ sent.keep = 4
Complete ==
  /\ whole /\ ~gap /\ Known =>
       /\ Right
       /\ told.remarks = Invalid(sent.kind = "SAK" /\ sent.level = card.parts /\ ~card.iso)
       /\ told.bits = 8 * sent.keep
  /\ main = "ended" => sent.kind = "RATS" /\ ~whole
=============================================================================
