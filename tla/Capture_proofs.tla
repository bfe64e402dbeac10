--------------------------- MODULE Capture_proofs ---------------------------
(***************************************************************************)
(* Proofs about the raw capture, from the sample buffers of the device to  *)
(* the records a reader gets back.  Of RawSniff: types, the order of what  *)
(* the file holds for every buffer size and number of runs, and the record *)
(* boundaries of a dump for the buffer size of the code.  Of CaptureFile:  *)
(* types, that a finished append is on disk, and what a read gives.        *)
(***************************************************************************)
EXTENDS RawSniff, CaptureFile, TLAPS

(* How many frames of the current dump the host has taken.                 *)
Taken ==
  IF fw = "dumping" THEN IF in = << >> THEN blk + 1 ELSE blk
  ELSE IF fw = "dump" THEN blk
  ELSE IF DumpOver THEN NB - 1 ELSE 0

(* The frame offered is the block copy_dma is at; a dump needs a full and  *)
(* used buffer; outside AppMain's loop the device is the one the process   *)
(* that started it has opened.                                             *)
DeviceInv ==
  /\ fw # "poll" => link
  /\ in # << >> => fw = "dumping" /\ in = <<blk>>
  /\ fw \in {"dump", "dumping"} => held /\ idx = NB
  /\ fw = "dumping" => blk < NB - 1

(* A record under construction holds consecutive frames and ends with the  *)
(* last one taken.                                                         *)
Recording == pc \in {"inner", "append", "writing"}
RecordInv ==
  Recording =>
    /\ rec # << >>
    /\ \A j \in 1..Len(rec)-1 : rec[j+1] = rec[j] + 1
    /\ link => rec[Len(rec)] = Taken - 1

(* The file is in order and what comes next continues it.                  *)
Previous ==
  IF file = << >> THEN [id |-> 0, run |-> 0, frames |-> << >>] ELSE file[Len(file)]
Latest == [id |-> id, run |-> run]
FileInv ==
  /\ FileInOrder
  /\ \A k \in DOMAIN file : file[k].frames # << >>
  /\ Previous.run <= run
  /\ pc # "off" => run # 0
  /\ pc \in {"open", "xmit"} => Previous.run # run /\ id = 0
  /\ pc = "outer" =>
       IF Previous.run = run
       THEN /\ id = Previous.id + 1
            /\ link => Taken = Previous.frames[Len(Previous.frames)] + 1
       ELSE id = 0 /\ (link => Taken = 0)
  /\ pc \in {"inner", "append"} => Follows(Previous, Latest, rec[1])
  /\ pc = "writing" => file # << >> /\ file[Len(file)] = Record(FALSE)

IInv == TypeOK /\ DeviceInv /\ RecordInv /\ FileInv

(* With NB = 48 the records of a dump begin at these frames, and the last  *)
(* one ends with the dump's last frame.                                    *)
Starts == {0, 2, 5, 11, 23}
Boundaries ==
  link =>
    /\ pc = "outer" => Taken \in Starts \cup {47}
    /\ pc = "inner" =>
         \E s \in Starts :
           /\ max = 512 * s
           /\ len = 507 + 512 * (Taken - s - 1)
           /\ s < Taken /\ Taken <= IF s = 0 THEN 1 ELSE 2 * s
    /\ pc \in {"append", "writing"} => Taken \in Starts \cup {47}
-----------------------------------------------------------------------------
Records == [id : Nat, run : 1..MaxRuns, frames : Seq(Blocks), whole : BOOLEAN]

LEMMA InitIInv == Init => IInv
<1>. SUFFICES ASSUME Init PROVE IInv
  OBVIOUS
<1>1. NB \in Nat /\ NB >= 2 /\ MaxRuns \in Nat
  BY SniffConstantsOK
<1>2. TypeOK
  <2>1. << >> \in Seq(Blocks) /\ << >> \in Seq(Records)
    OBVIOUS
  <2>2. 0 \in 0..NB /\ 0 \in Blocks /\ 0 \in 0..MaxRuns /\ 0 \in Nat
    BY <1>1 DEF Blocks
  <2>. QED BY <2>1, <2>2 DEF Init, TypeOK, Records
<1>3. DeviceInv /\ RecordInv
  BY <1>1 DEF Init, DeviceInv, RecordInv, Recording
<1>4. FileInv
  BY <1>1 DEF Init, FileInv, FileInOrder, Previous
<1>. QED BY <1>2, <1>3, <1>4 DEF IInv

(* A step of the firmware neither takes a frame nor touches what the host  *)
(* has: at most it lets the process out of its first transmit.             *)
FirmwareFrame ==
  /\ UNCHANGED <<link, run, id, rec, len, max, file>>
  /\ Taken' = Taken
  /\ \/ pc' = pc
     \/ pc = "xmit" /\ pc' = "outer" /\ Taken = 0

LEMMA FirmwareStep ==
  ASSUME TypeOK, DeviceInv, Firmware
  PROVE  TypeOK' /\ DeviceInv' /\ FirmwareFrame
<1>0. NB \in Nat /\ NB >= 2 /\ MaxRuns \in Nat /\ Activity \subseteq Nat
  BY SniffConstantsOK
<1>1. CASE FwEnter
  <2>1. TypeOK'
    <3>1. 0 \in 0..NB /\ fw' \in {"scan"} /\ pc' \in {"outer"} /\ idx' = 0 /\ held' = FALSE
      BY <1>0, <1>1 DEF FwEnter
    <3>2. UNCHANGED <<blk, in, link, run, id, rec, len, max, file>>
      BY <1>1 DEF FwEnter
    <3>. QED BY <3>1, <3>2 DEF TypeOK
  <2>2. DeviceInv'
    BY <1>0, <1>1 DEF FwEnter, DeviceInv
  <2>3. FirmwareFrame
    BY <1>0, <1>1 DEF FwEnter, FirmwareFrame, Taken, DumpOver
  <2>. QED BY <2>1, <2>2, <2>3
<1>2. CASE FwFull
  BY <1>0, <1>2 DEF FwFull, TypeOK, DeviceInv, FirmwareFrame, Taken, DumpOver, Blocks, hostVars
<1>3. ASSUME NEW n \in Activity, FwCollect(n) PROVE TypeOK' /\ DeviceInv' /\ FirmwareFrame
  <2>1. idx \in 0..NB /\ idx # NB /\ n \in Nat
    BY <1>0, <1>3 DEF FwCollect, TypeOK
  <2>2. /\ Collected(n) \in Nat /\ idx + Collected(n) \in 0..NB
        /\ idx + Collected(n) = NB => Collected(n) > 0
    BY <1>0, <2>1 DEF Collected
  <2>3. /\ fw = "scan" /\ idx' \in 0..NB /\ held' \in BOOLEAN
        /\ idx' = NB => held'
        /\ UNCHANGED <<fw, blk, in, hostVars>>
    BY <1>3, <2>2 DEF FwCollect
  <2>. QED BY <1>0, <2>1, <2>3
           DEF TypeOK, DeviceInv, FirmwareFrame, Taken, DumpOver, hostVars
<1>4. CASE FwSend
  <2>1. TypeOK'
    BY <1>0, <1>4 DEF FwSend, TypeOK, DeviceInv, Blocks, hostVars
  <2>2. DeviceInv'
    BY <1>0, <1>4 DEF FwSend, TypeOK, DeviceInv, Blocks, hostVars
  <2>3. FirmwareFrame
    BY <1>0, <1>4 DEF FwSend, TypeOK, DeviceInv, FirmwareFrame, Taken, hostVars
  <2>. QED BY <2>1, <2>2, <2>3
<1>5. CASE FwSent
  <2>1. TypeOK'
    BY <1>0, <1>5 DEF FwSent, TypeOK, DeviceInv, Blocks, hostVars
  <2>2. DeviceInv'
    BY <1>0, <1>5 DEF FwSent, TypeOK, DeviceInv, Blocks, hostVars
  <2>3. FirmwareFrame
    BY <1>0, <1>5 DEF FwSent, TypeOK, DeviceInv, FirmwareFrame, Taken, hostVars
  <2>. QED BY <2>1, <2>2, <2>3
<1>6. CASE FwDumped
  <2>1. TypeOK'
    BY <1>0, <1>6 DEF FwDumped, TypeOK, DeviceInv, Blocks, hostVars
  <2>2. DeviceInv'
    BY <1>0, <1>6 DEF FwDumped, TypeOK, DeviceInv, Blocks, hostVars
  <2>3. FirmwareFrame
    <3>1. blk = NB - 1
      BY <1>0, <1>6 DEF FwDumped, TypeOK, Blocks
    <3>. QED BY <1>6, <3>1 DEF FwDumped, DeviceInv, FirmwareFrame, Taken, DumpOver, hostVars
  <2>. QED BY <2>1, <2>2, <2>3
<1>. QED BY <1>1, <1>2, <1>3, <1>4, <1>5, <1>6 DEF Firmware, FwTurn, FwCopy

LEMMA FirmwarePreserves == ASSUME IInv, Firmware PROVE IInv'
<1>1. TypeOK' /\ DeviceInv' /\ FirmwareFrame
  BY FirmwareStep DEF IInv
<1>2. Previous' = Previous /\ FileInOrder' = FileInOrder
  BY <1>1 DEF FirmwareFrame, Previous, FileInOrder, Follows
<1>3. RecordInv'
  BY <1>1 DEF IInv, RecordInv, Recording, FirmwareFrame
<1>4. FileInv'
  BY <1>1, <1>2 DEF IInv, FileInv, FirmwareFrame, Follows, Latest, Record
<1>. QED BY <1>1, <1>3, <1>4 DEF IInv
-----------------------------------------------------------------------------
(* A frame is taken: the firmware stays where it is, one more is taken.    *)
LEMMA TakeFrame ==
  ASSUME TypeOK, DeviceInv, in # << >>, in' = << >>, UNCHANGED <<fwVars, link>>
  PROVE  /\ fw = "dumping" /\ in = <<blk>> /\ blk \in Blocks /\ Taken = blk
         /\ Taken' = Taken + 1 /\ DeviceInv'
  BY DEF TypeOK, DeviceInv, Taken, fwVars

LEMMA HostFirstPreserves == ASSUME IInv, HostFirst PROVE IInv'
<1>1. /\ fw = "dumping" /\ in = <<blk>> /\ blk \in Blocks /\ Taken = blk
      /\ Taken' = Taken + 1 /\ DeviceInv' /\ in[1] = blk
  BY TakeFrame DEF IInv, HostFirst
<1>2. /\ pc = "outer" /\ pc' = "inner" /\ rec' = <<blk>> /\ in' = << >> /\ link
      /\ len' = 507 /\ max' = 512 * blk
      /\ UNCHANGED <<fw, idx, held, blk, link, run, id, file>>
  BY <1>1 DEF HostFirst, fwVars, FirstBytes, USB_CMD_DSIZE
<1>3. blk \in Nat /\ 512 * blk \in Nat /\ <<blk>> \in Seq(Blocks)
      /\ <<blk>> # << >> /\ Len(<<blk>>) = 1 /\ <<blk>>[1] = blk
  BY <1>1, SniffConstantsOK DEF Blocks
<1>4. TypeOK'
  BY <1>2, <1>3 DEF IInv, TypeOK
<1>5. RecordInv'
  BY <1>1, <1>2, <1>3 DEF RecordInv, Recording
<1>6. Previous' = Previous /\ FileInOrder' = FileInOrder /\ Latest' = Latest
  BY <1>2 DEF Previous, FileInOrder, Follows, Latest
<1>7. Follows(Previous, Latest, blk)
  BY <1>1, <1>2 DEF IInv, FileInv, Follows, Latest
<1>8. FileInv'
  BY <1>2, <1>3, <1>6, <1>7 DEF IInv, FileInv, Follows
<1>. QED BY <1>1, <1>4, <1>5, <1>8 DEF IInv

LEMMA HostNextPreserves == ASSUME IInv, HostNext PROVE IInv'
<1>1. /\ fw = "dumping" /\ in = <<blk>> /\ blk \in Blocks /\ Taken = blk
      /\ Taken' = Taken + 1 /\ DeviceInv'
  BY TakeFrame DEF IInv, HostNext
<1>2. /\ pc = "inner" /\ pc' \in {"inner", "append"} /\ rec' = Append(rec, blk)
      /\ in' = << >> /\ link /\ len' = len + 512
      /\ UNCHANGED <<fw, idx, held, blk, link, run, id, max, file>>
  <2>1. rec \o <<blk>> = Append(rec, blk)
    BY <1>1 DEF IInv, TypeOK
  <2>. QED BY <1>1, <2>1 DEF HostNext, fwVars, USB_CMD_DSIZE
<1>3. /\ rec \in Seq(Blocks) /\ rec # << >> /\ rec' \in Seq(Blocks) /\ rec' # << >>
      /\ Len(rec') = Len(rec) + 1 /\ Len(rec) \in Nat /\ Len(rec) # 0
      /\ rec'[Len(rec) + 1] = blk /\ \A j \in 1..Len(rec) : rec'[j] = rec[j]
  <2>1. rec \in Seq(Blocks) /\ rec # << >>
    BY <1>2 DEF IInv, TypeOK, RecordInv, Recording
  <2>2. Len(rec) \in Nat /\ Len(rec) # 0
    BY <2>1
  <2>3. /\ rec' \in Seq(Blocks) /\ Len(rec') = Len(rec) + 1
        /\ rec'[Len(rec) + 1] = blk /\ \A j \in 1..Len(rec) : rec'[j] = rec[j]
    BY <1>1, <1>2, <2>1, <2>2
  <2>4. rec' # << >>
    BY <2>2, <2>3
  <2>. QED BY <2>1, <2>2, <2>3, <2>4
<1>4. TypeOK'
  BY <1>2, <1>3 DEF IInv, TypeOK
<1>5. RecordInv'
  <2>1. rec[Len(rec)] = blk - 1 /\ blk \in Nat
    BY <1>1, <1>2, SniffConstantsOK DEF IInv, RecordInv, Recording, Blocks
  <2>2. ASSUME NEW j \in 1..Len(rec')-1 PROVE rec'[j+1] = rec'[j] + 1
    <3>1. CASE j = Len(rec)
      BY <1>3, <2>1, <3>1
    <3>2. CASE j # Len(rec)
      <4>1. j \in 1..Len(rec)-1 /\ j + 1 \in 1..Len(rec) /\ j \in 1..Len(rec)
        BY <1>3, <3>2
      <4>2. rec[j+1] = rec[j] + 1
        BY <1>2, <4>1 DEF IInv, RecordInv, Recording
      <4>. QED BY <1>3, <4>1, <4>2
    <3>. QED BY <3>1, <3>2
  <2>3. rec'[Len(rec')] = Taken' - 1
    BY <1>1, <1>3, <2>1
  <2>. QED BY <1>3, <2>2, <2>3 DEF RecordInv
<1>6. Previous' = Previous /\ FileInOrder' = FileInOrder /\ Latest' = Latest
  BY <1>2 DEF Previous, FileInOrder, Follows, Latest
<1>7. rec'[1] = rec[1]
  BY <1>3
<1>8. FileInv'
  BY <1>2, <1>6, <1>7 DEF IInv, FileInv, Follows
<1>. QED BY <1>1, <1>4, <1>5, <1>8 DEF IInv
LEMMA HostAppendPreserves == ASSUME IInv, HostAppend PROVE IInv'
<1>. DEFINE n == Len(file)
            new == Record(FALSE)
<1>1. /\ pc = "append" /\ pc' = "writing" /\ file' = Append(file, new)
      /\ UNCHANGED <<fw, idx, held, blk, in, link, run, id, rec, len, max>>
  BY DEF HostAppend, fwVars
<1>2. new \in Records
  BY <1>1 DEF IInv, TypeOK, FileInv, Record, Records
<1>3. /\ file \in Seq(Records) /\ n \in Nat /\ DOMAIN file = 1..n
  BY DEF IInv, TypeOK, Records
<1>. HIDE DEF n, new
<1>4. /\ file' \in Seq(Records) /\ Len(file') = n + 1 /\ DOMAIN file' = 1..n+1
      /\ file'[n + 1] = new /\ \A k \in 1..n : file'[k] = file[k]
  BY <1>1, <1>2, <1>3 DEF n
<1>5. TypeOK' /\ DeviceInv' /\ Taken' = Taken
  BY <1>1, <1>4 DEF IInv, TypeOK, DeviceInv, Taken, DumpOver, Records
<1>6. RecordInv'
  BY <1>1, <1>5 DEF IInv, RecordInv, Recording
<1>7. file' # << >> /\ Previous' = new /\ Len(file') = n + 1
  <2>1. file' # << >>
    BY <1>3, <1>4
  <2>. QED BY <1>4, <2>1 DEF Previous
<1>8. /\ new.frames = rec /\ new.run = run /\ new.id = id /\ new.whole = FALSE
      /\ rec # << >> /\ \A j \in 1..Len(rec)-1 : rec[j+1] = rec[j] + 1
  BY <1>1 DEF new, Record, IInv, RecordInv, Recording
<1>9. FileInOrder'
  <2>. DEFINE Prev(f, k) ==
         IF k = 1 THEN [id |-> 0, run |-> 0, frames |-> << >>] ELSE f[k-1]
  <2>. SUFFICES ASSUME NEW k \in 1..n+1
                PROVE  /\ Follows(Prev(file', k), file'[k], file'[k].frames[1])
                       /\ \A j \in 1..Len(file'[k].frames)-1 :
                            file'[k].frames[j+1] = file'[k].frames[j] + 1
    BY <1>4 DEF FileInOrder, Follows
  <2>1. CASE k \in 1..n
    <3>1. Prev(file', k) = Prev(file, k) /\ file'[k] = file[k]
      BY <1>3, <1>4, <2>1
    <3>2. FileInOrder
      BY DEF IInv, FileInv
    <3>3. /\ Follows(Prev(file, k), file[k], file[k].frames[1])
          /\ \A j \in 1..Len(file[k].frames)-1 :
               file[k].frames[j+1] = file[k].frames[j] + 1
      BY <1>3, <2>1, <3>2 DEF FileInOrder
    <3>. HIDE DEF Prev
    <3>. QED BY <3>1, <3>3
  <2>2. CASE k = n + 1
    <3>1. Prev(file', k) = Previous
      <4>1. CASE n = 0
        <5>1. file = << >>
          BY <1>3, <4>1 DEF n
        <5>. QED BY <2>2, <4>1, <5>1 DEF Previous
      <4>2. CASE n # 0
        <5>1. file # << >> /\ k - 1 = n /\ n \in 1..n /\ k # 1
          BY <1>3, <2>2, <4>2 DEF n
        <5>. QED BY <1>4, <5>1 DEF Previous, n
      <4>. QED BY <4>1, <4>2
    <3>2. Follows(Previous, Latest, rec[1])
      BY <1>1 DEF IInv, FileInv
    <3>3. Follows(Previous, new, rec[1])
      BY <1>8, <3>2 DEF Follows, Latest
    <3>. QED BY <1>4, <1>8, <2>2, <3>1, <3>3
  <2>. QED BY <1>3, <2>1, <2>2
<1>10. \A k \in DOMAIN file' : file'[k].frames # << >>
  <2>1. \A k \in 1..n : file'[k].frames # << >>
    BY <1>3, <1>4 DEF IInv, FileInv
  <2>2. \A k \in 1..n+1 : k \in 1..n \/ k = n + 1
    BY <1>3
  <2>. QED BY <1>4, <1>8, <2>1, <2>2
<1>11. FileInv'
  <2>1. Previous'.run = run' /\ run' \in Nat /\ run' # 0
    BY <1>1, <1>7, <1>8 DEF IInv, TypeOK, FileInv
  <2>2. file'[Len(file')] = Record(FALSE)'
    BY <1>1, <1>4, <1>7 DEF new, Record
  <2>. QED BY <1>1, <1>7, <1>9, <1>10, <2>1, <2>2 DEF FileInv
<1>. QED BY <1>5, <1>6, <1>11 DEF IInv

LEMMA HostAppendedPreserves == ASSUME IInv, HostAppended PROVE IInv'
<1>. DEFINE n == Len(file)
            new == Record(TRUE)
<1>1. /\ pc = "writing" /\ pc' = "outer" /\ file' = [file EXCEPT ![n] = new]
      /\ id' = id + 1 /\ UNCHANGED <<fw, idx, held, blk, in, link, run, rec, len, max>>
  BY DEF HostAppended, fwVars
<1>2. new \in Records
  BY <1>1 DEF IInv, TypeOK, FileInv, Record, Records
<1>3. /\ file \in Seq(Records) /\ n \in Nat /\ DOMAIN file = 1..n /\ file # << >>
      /\ file[n] = Record(FALSE) /\ n # 0
  <2>1. file \in Seq(Records) /\ file # << >> /\ file[n] = Record(FALSE)
    BY <1>1 DEF IInv, TypeOK, FileInv, Records
  <2>. HIDE DEF new
  <2>. QED BY <2>1
<1>. HIDE DEF n, new
<1>4. /\ file' \in Seq(Records) /\ Len(file') = n /\ DOMAIN file' = 1..n
      /\ file'[n] = new /\ \A k \in 1..n : k # n => file'[k] = file[k]
  <2>1. file \in [1..n -> Records] /\ n \in 1..n
    BY <1>3 DEF n
  <2>2. /\ file' \in [1..n -> Records] /\ file'[n] = new
        /\ \A k \in 1..n : k # n => file'[k] = file[k]
    BY <1>1, <1>2, <2>1
  <2>3. file' \in Seq(Records) /\ Len(file') = n
    BY <1>3, <2>2
  <2>. QED BY <2>2, <2>3
<1>5. \A k \in 1..n : /\ file'[k].frames = file[k].frames
                     /\ file'[k].run = file[k].run /\ file'[k].id = file[k].id
  BY <1>3, <1>4 DEF Record, new
<1>6. /\ new.frames = rec /\ new.run = run /\ new.id = id
  BY DEF Record, new
<1>7. TypeOK' /\ DeviceInv' /\ RecordInv' /\ Taken' = Taken
  BY <1>1, <1>4 DEF IInv, TypeOK, DeviceInv, RecordInv, Recording, Taken, DumpOver, Records
<1>8. file' # << >> /\ Previous' = new
  BY <1>3, <1>4 DEF Previous
<1>9. FileInOrder'
  <2>1. \A k \in 1..n : k # 1 => k - 1 \in 1..n
    BY <1>3
  <2>2. FileInOrder
    BY DEF IInv, FileInv
  <2>. QED BY <1>3, <1>4, <1>5, <2>1, <2>2, SMTT(20) DEF FileInOrder, Follows
<1>10. \A k \in DOMAIN file' : file'[k].frames # << >>
  BY <1>3, <1>4, <1>5 DEF IInv, FileInv
<1>11. link => Taken = rec[Len(rec)] + 1
  <2>1. Taken \in Int
    BY SniffConstantsOK DEF IInv, TypeOK, Taken, Blocks
  <2>2. link => rec[Len(rec)] = Taken - 1
    BY <1>1 DEF IInv, RecordInv, Recording
  <2>. QED BY <2>1, <2>2
<1>12. FileInv'
  <2>1. run \in Nat /\ run # 0
    BY <1>1 DEF IInv, TypeOK, FileInv
  <2>. QED BY <1>1, <1>6, <1>7, <1>8, <1>9, <1>10, <1>11, <2>1 DEF FileInv
<1>. QED BY <1>7, <1>12 DEF IInv
LEMMA ProcessPreserves ==
  ASSUME IInv, HostStart \/ HostConfigured \/ HostRefused \/ HostLost \/ Kill \/ Replug
  PROVE  IInv'
<1>1. CASE HostStart
  <2>1. /\ pc = "off" /\ pc' = "open" /\ run < MaxRuns /\ run' = run + 1
        /\ id' = 0 /\ rec' = << >> /\ len' = 0 /\ max' = 0 /\ link' = TRUE
        /\ UNCHANGED <<fw, idx, held, blk, in, file>>
    BY <1>1 DEF HostStart, fwVars
  <2>2. run \in Nat /\ run' \in 0..MaxRuns /\ run' # 0 /\ << >> \in Seq(Blocks)
    BY <2>1, SniffConstantsOK DEF IInv, TypeOK
  <2>3. TypeOK' /\ DeviceInv' /\ RecordInv'
    BY <2>1, <2>2 DEF IInv, TypeOK, DeviceInv, RecordInv, Recording
  <2>4. Previous' = Previous /\ FileInOrder' = FileInOrder
    BY <2>1 DEF Previous, FileInOrder, Follows
  <2>5. Previous.run \in Nat
    <3>1. CASE file = << >>
      BY <3>1 DEF Previous
    <3>2. CASE file # << >>
      <4>1. file \in Seq(Records)
        BY DEF IInv, TypeOK, Records
      <4>2. file[Len(file)] \in Records
        BY <3>2, <4>1
      <4>. QED BY <3>2, <4>2 DEF Previous, Records
    <3>. QED BY <3>1, <3>2
  <2>6. FileInv'
    BY <2>1, <2>2, <2>4, <2>5 DEF IInv, FileInv
  <2>. QED BY <2>3, <2>6 DEF IInv
<1>2. CASE HostConfigured \/ HostRefused \/ HostLost \/ Kill
  <2>1. /\ pc' = "off" \/ (pc = "open" /\ pc' = "xmit")
        /\ UNCHANGED <<fw, idx, held, blk, in, link, run, id, rec, len, max, file>>
    BY <1>2 DEF HostConfigured, HostRefused, HostLost, Kill, fwVars
  <2>2. TypeOK' /\ DeviceInv' /\ RecordInv'
    BY <2>1 DEF IInv, TypeOK, DeviceInv, RecordInv, Recording
  <2>3. Previous' = Previous /\ FileInOrder' = FileInOrder /\ Latest' = Latest
    BY <2>1 DEF Previous, FileInOrder, Follows, Latest
  <2>4. FileInv'
    <3>1. CASE pc' = "off"
      BY <2>1, <2>3, <3>1 DEF IInv, FileInv
    <3>2. CASE pc = "open" /\ pc' = "xmit"
      BY <2>1, <2>3, <3>2 DEF IInv, FileInv
    <3>. QED BY <2>1, <3>1, <3>2
  <2>. QED BY <2>2, <2>4 DEF IInv
<1>3. CASE Replug
  <2>1. /\ fw' = "poll" /\ idx' = 0 /\ held' = FALSE /\ blk' = 0 /\ in' = << >>
        /\ link' = FALSE /\ UNCHANGED <<pc, run, id, rec, len, max, file>>
    BY <1>3 DEF Replug
  <2>2. 0 \in 0..NB /\ 0 \in Blocks
    BY SniffConstantsOK DEF Blocks
  <2>3. TypeOK' /\ DeviceInv' /\ RecordInv'
    BY <2>1, <2>2 DEF IInv, TypeOK, DeviceInv, RecordInv, Recording
  <2>4. Previous' = Previous /\ FileInOrder' = FileInOrder /\ Latest' = Latest
    BY <2>1 DEF Previous, FileInOrder, Follows, Latest
  <2>5. FileInv'
    BY <2>1, <2>4 DEF IInv, FileInv, Follows, Record
  <2>. QED BY <2>3, <2>5 DEF IInv
<1>. QED BY <1>1, <1>2, <1>3

LEMMA NextPreserves == ASSUME IInv, [Next]_vars PROVE IInv'
<1>1. CASE UNCHANGED vars
  BY <1>1 DEF vars, fwVars, hostVars, IInv, TypeOK, DeviceInv, RecordInv, Recording,
              FileInv, FileInOrder, Follows, Previous, Latest, Record, Taken, DumpOver
<1>. QED BY <1>1, FirmwarePreserves, HostFirstPreserves, HostNextPreserves,
            HostAppendPreserves, HostAppendedPreserves, ProcessPreserves
         DEF Next, HostRuns

THEOREM Invariance == Spec => []IInv
<1>. QED BY InitIInv, NextPreserves, PTL DEF Spec

(* Every variable keeps its type: dma_idx never leaves dmatwo, copy_dma    *)
(* never reads behind it.                                                  *)
THEOREM TypeCorrect == Spec => []TypeOK
<1>1. IInv => TypeOK
  BY DEF IInv
<1>. QED BY <1>1, Invariance, PTL

(* Whatever the size of the buffer, however often the process is killed or *)
(* the device unplugged: the file holds each run's records numbered and    *)
(* its frames in the order they were sent, none missing between two.       *)
THEOREM FileOrder == Spec => []FileInOrder
<1>1. IInv => FileInOrder
  BY DEF IInv, FileInv
<1>. QED BY <1>1, Invariance, PTL

(* What was completely written is never altered: ncap_t::append touches    *)
(* nothing but the tail of the file.                                       *)
THEOREM WrittenRecordsStay == Spec => WrittenStays
<1>1. ASSUME IInv, [Next]_vars PROVE [Kept]_vars
  <2>1. CASE HostAppend
    <3>1. file' = Append(file, Record(FALSE)) /\ file \in Seq(Records)
      BY <1>1, <2>1 DEF HostAppend, IInv, TypeOK, Records
    <3>. HIDE DEF Record
    <3>2. Len(file) \in Nat /\ DOMAIN file = 1..Len(file) /\ Len(file') = Len(file) + 1
          /\ DOMAIN file' = 1..Len(file)+1 /\ \A k \in 1..Len(file) : file'[k] = file[k]
      BY <3>1
    <3>. QED BY <3>2 DEF Kept
  <2>2. CASE HostAppended
    <3>1. file' = [file EXCEPT ![Len(file)] = Record(TRUE)] /\ file[Len(file)].whole = FALSE
      BY <1>1, <2>2 DEF HostAppended, IInv, FileInv, Record
    <3>. QED BY <3>1 DEF Kept
  <2>3. CASE UNCHANGED file
    BY <2>3 DEF Kept
  <2>4. [Next]_vars => HostAppend \/ HostAppended \/ UNCHANGED file
    BY DEF Next, Firmware, FwEnter, FwTurn, FwFull, FwCollect, FwCopy, FwSend, FwSent,
           FwDumped, HostStart, HostRuns, HostConfigured, HostRefused, HostFirst,
           HostNext, HostLost, Kill, Replug, hostVars, vars
  <2>. QED BY <1>1, <2>1, <2>2, <2>3, <2>4
<1>. QED BY <1>1, Invariance, PTL DEF Spec, WrittenStays
-----------------------------------------------------------------------------
(* The host's steps on record sizes, frame by frame.                       *)
LEMMA BoundaryFirst ==
  ASSUME NB = 48, IInv, Boundaries, HostFirst
  PROVE  Boundaries'
<1>1. /\ fw = "dumping" /\ in = <<blk>> /\ Taken = blk /\ Taken' = Taken + 1 /\ blk < 47
  BY TakeFrame DEF IInv, HostFirst, DeviceInv
<1>2. /\ pc = "outer" /\ pc' = "inner" /\ link /\ len' = 507 /\ max' = 512 * blk
  BY <1>1 DEF HostFirst, FirstBytes, USB_CMD_DSIZE
<1>3. blk \in Starts
  BY <1>1, <1>2 DEF Boundaries
<1>4. /\ max' = 512 * blk /\ len' = 507 + 512 * (Taken' - blk - 1) /\ blk < Taken'
      /\ Taken' <= IF blk = 0 THEN 1 ELSE 2 * blk
  BY <1>1, <1>2, <1>3 DEF Starts
<1>. QED BY <1>2, <1>3, <1>4 DEF Boundaries

LEMMA BoundaryNext ==
  ASSUME NB = 48, IInv, Boundaries, HostNext
  PROVE  Boundaries'
<1>1. Taken = blk /\ Taken' = Taken + 1 /\ blk \in Nat
  <2>1. blk \in Blocks /\ Taken = blk /\ Taken' = Taken + 1
    BY TakeFrame DEF IInv, HostNext
  <2>. QED BY <2>1, SniffConstantsOK DEF Blocks
<1>2. /\ pc = "inner" /\ link /\ len' = len + 512 /\ max' = max
      /\ pc' = IF len' < max' THEN "inner" ELSE "append"
  BY DEF HostNext, USB_CMD_DSIZE
<1>3. PICK s \in Starts :
        /\ max = 512 * s
        /\ len = 507 + 512 * (Taken - s - 1)
        /\ s < Taken /\ Taken <= IF s = 0 THEN 1 ELSE 2 * s
  BY <1>2 DEF Boundaries
<1>4. s \in Nat /\ len' = 507 + 512 * (Taken' - s - 1) /\ s < Taken'
  BY <1>1, <1>2, <1>3 DEF Starts
<1>5. CASE len' < max'
  <2>1. Taken' <= 2 * s /\ s # 0
    BY <1>1, <1>2, <1>3, <1>4, <1>5
  <2>. QED BY <1>2, <1>3, <1>4, <1>5, <2>1 DEF Boundaries
<1>6. CASE ~(len' < max')
  <2>1. Taken' = IF s = 0 THEN 2 ELSE 2 * s + 1
    BY <1>1, <1>2, <1>3, <1>4, <1>6
  <2>2. Taken' \in Starts \cup {47}
    BY <1>3, <2>1 DEF Starts
  <2>. QED BY <1>2, <1>6, <2>2 DEF Boundaries
<1>. QED BY <1>5, <1>6

LEMMA BoundaryStep ==
  ASSUME NB = 48, IInv, Boundaries, [Next]_vars
  PROVE  Boundaries'
<1>1. CASE Firmware
  <2>1. FirmwareFrame
    BY <1>1, FirmwareStep DEF IInv
  <2>. QED BY <2>1 DEF FirmwareFrame, Boundaries, Starts
<1>2. CASE HostAppend \/ HostAppended
  <2>1. /\ pc \in {"append", "writing"} /\ pc' \in {"outer", "writing"}
        /\ Taken' = Taken /\ link' = link
    <3>1. /\ pc \in {"append", "writing"} /\ pc' \in {"outer", "writing"} /\ link' = link
          /\ UNCHANGED <<fw, idx, held, blk, in>>
      BY <1>2 DEF HostAppend, HostAppended, fwVars
    <3>2. Taken' = Taken
      BY <3>1 DEF Taken, DumpOver
    <3>. QED BY <3>1, <3>2
  <2>. QED BY <2>1 DEF Boundaries
<1>3. CASE HostStart \/ HostConfigured \/ HostRefused \/ HostLost \/ Kill
  <2>1. pc' \in {"open", "xmit", "off"}
    BY <1>3 DEF HostStart, HostConfigured, HostRefused, HostLost, Kill
  <2>. QED BY <2>1 DEF Boundaries
<1>4. CASE Replug
  BY <1>4 DEF Replug, Boundaries
<1>5. CASE UNCHANGED vars
  BY <1>5 DEF vars, fwVars, hostVars, Boundaries, Taken, DumpOver
<1>. QED BY <1>1, <1>2, <1>3, <1>4, <1>5, BoundaryFirst, BoundaryNext DEF Next, HostRuns

(* With the code's buffer of 48 blocks, the 47 frames of a dump make up    *)
(* whole records of 2, 3, 6, 12 and 24 frames: the host is never left      *)
(* waiting for the rest of a record when copy_dma is through.              *)
THEOREM DumpEndsOnBoundary ==
  ASSUME NB = 48
  PROVE  Spec => []DumpEndsRecord
<1>1. Init => Boundaries
  BY DEF Init, Boundaries
<1>2. IInv /\ Boundaries => DumpEndsRecord
  <2>. SUFFICES ASSUME IInv, Boundaries, DumpOver, pc = "inner" PROVE FALSE
    BY DEF DumpEndsRecord
  <2>1. link /\ Taken = 47
    BY DEF IInv, DeviceInv, DumpOver, Taken
  <2>. QED BY <2>1 DEF Boundaries, Starts
<1>3. IInv /\ Boundaries /\ [Next]_vars => Boundaries'
  BY BoundaryStep
<1>. QED BY <1>1, <1>2, <1>3, Invariance, PTL DEF Spec
-----------------------------------------------------------------------------
(* The capture file word by word.                                          *)

Word == Nat \X Nat
RecordType == [id : Word, data : Seq(Word)]
InAppend == {"opened", "reopened", "written", "synced", "flushed", "failed"}
Handing == {"written", "synced", "flushed", "failed"}

FileTypes ==
  /\ lens \in Seq(Lengths) /\ Current <= MaxRecords
  /\ disk \in Seq(Word) /\ buffer \in Seq(Word)
  /\ wpc \in {"off", "capturing"} \cup InAppend
  /\ done \in Seq(Nat)
  /\ rpc \in {"idle", "opened", "sized", "parsing"}
  /\ size \in Nat /\ size <= Len(disk) /\ reads \in Nat /\ reads <= MaxReads
  /\ vec \in Seq(Word) /\ Len(vec) <= size /\ off \in Nat /\ off <= Len(vec)
  /\ \A i \in 1..Len(vec) : vec[i][1] \in 1..Current
  /\ list \in Seq(RecordType)

(* The words on disk, or in any prefix of it, come from records made, an   *)
(* earlier record's before a later one's; those of one record are          *)
(* neighbours and begin with the first.                                    *)
Framed(d, ls) ==
  /\ \A i \in 1..Len(d) : /\ d[i][1] \in 1..Len(ls)
                          /\ d[i][2] \in 1..(Header + ls[d[i][1]]) /\ d[i][2] <= i
  /\ \A i \in 1..Len(d) : \A k \in 1..d[i][2] : d[i - d[i][2] + k] = <<d[i][1], k>>
  /\ \A i, j \in 1..Len(d) : i < j =>
       \/ d[i][1] < d[j][1]
       \/ d[i][1] = d[j][1] /\ d[j][2] - d[i][2] = j - i
InDiskOrder == Framed(disk, lens)
DiskInv ==
  /\ InDiskOrder
  /\ wpc \in InAppend => Current >= 1
  /\ wpc \in {"opened", "reopened"} => \A i \in 1..Len(disk) : disk[i][1] < Current

(* The record being written is the end of the file and the buffer behind   *)
(* it, cut anywhere.                                                       *)
CutAt(k) ==
  /\ k + Len(buffer) = Header + lens[Current]
  /\ \A i \in 1..(Len(disk) - k) : disk[i][1] < Current
  /\ \A i \in 1..k : disk[Len(disk) - k + i] = <<Current, i>>
  /\ \A i \in 1..Len(buffer) : buffer[i] = <<Current, k + i>>
HandingInv ==
  /\ wpc \notin {"written", "failed"} => buffer = <<>>
  /\ wpc \in Handing => \E k \in 0..Len(disk) : CutAt(k)

(* A record whose append has returned is somewhere on disk; they are done  *)
(* in the order they were made; one that was torn never becomes done.      *)
DoneOnDisk == \A k \in 1..Len(done) : done[k] \in 1..Current /\ Offsets(done[k]) # {}
DoneInv ==
  /\ DoneOnDisk
  /\ \A j, k \in 1..Len(done) : j < k => done[j] < done[k]
  /\ torn \subseteq 1..Current /\ torn \cap RangeOf(done) = {}
  /\ wpc \in InAppend =>
       Current \notin torn /\ \A k \in 1..Len(done) : done[k] < Current

FileIInv == FileTypes /\ DiskInv /\ HandingInv /\ DoneInv
-----------------------------------------------------------------------------
LEMMA LensNat ==
  ASSUME FileTypes
  PROVE  /\ lens \in Seq(Nat) /\ Current \in Nat
         /\ \A r \in 1..Current : lens[r] \in Nat /\ lens[r] \in Lengths
<1>1. Lengths \subseteq Nat
  BY FileConstants
<1>2. lens \in Seq(Lengths)
  BY DEF FileTypes
<1>3. Len(lens) \in Nat /\ \A r \in 1..Len(lens) : lens[r] \in Lengths
  BY <1>2
<1>4. lens \in [1..Len(lens) -> Lengths]
  BY <1>2
<1>5. lens \in [1..Len(lens) -> Nat]
  BY <1>1, <1>4
<1>6. lens \in Seq(Nat)
  BY <1>3, <1>5
<1>. QED BY <1>1, <1>3, <1>6 DEF Current

LEMMA SeqOfNat ==
  ASSUME NEW l \in Seq(Lengths)
  PROVE  l \in Seq(Nat)
<1>1. l \in [1..Len(l) -> Lengths] /\ Lengths \subseteq Nat
  BY FileConstants
<1>2. l \in [1..Len(l) -> Nat]
  BY <1>1
<1>. QED BY <1>2

(* Where a record stands.                                                  *)
Stands(d, l, r, at) ==
  /\ at \in Nat /\ at + Header + l <= Len(d)
  /\ \A i \in 1..(Header + l) : d[at + i] = <<r, i>>

(* The words of a record are found at an offset when each of them stands.  *)
LEMMA StandsIn ==
  ASSUME NEW d \in Seq(Word), NEW l \in Nat, NEW r
  PROVE  \A at : at \in { o \in 0..(Len(d) - Header - l) :
                             SubSeq(d, o + 1, o + Header + l) = ToDisk(r, l) }
                  <=> Stands(d, l, r, at)
<1>1. Header \in Nat /\ Len(d) \in Nat
  BY DEF Header
<1>2. \A at : at \in 0..(Len(d) - Header - l)
                 <=> at \in Nat /\ at + Header + l <= Len(d)
  BY <1>1
<1>3. ASSUME NEW at \in Nat, at + Header + l <= Len(d)
      PROVE  SubSeq(d, at + 1, at + Header + l) = ToDisk(r, l)
               <=> \A i \in 1..(Header + l) : d[at + i] = <<r, i>>
  <2> DEFINE n == Header + l
  <2>1. n \in Nat /\ Len(d) \in Nat
    BY DEF Header
  <2>2. at + Header + l = at + n /\ at + n <= Len(d)
    BY <1>3 DEF Header
  <2>3. ToDisk(r, l) = [i \in 1..n |-> <<r, i>>]
    BY DEF ToDisk, Words
  <2> HIDE DEF n
  <2>4. SubSeq(d, at + 1, at + n) = [i \in 1..n |-> d[at + i]]
    <3>1. SubSeq(d, at + 1, at + n)
            = [i \in 1..((at + n) - (at + 1) + 1) |-> d[i + (at + 1) - 1]]
      BY <2>1, <2>2
    <3>2. (at + n) - (at + 1) + 1 = n
      BY <2>1
    <3>3. \A i \in 1..n : i + (at + 1) - 1 = at + i
      BY <2>1
    <3>. QED BY <3>1, <3>2, <3>3
  <2>. QED BY <2>2, <2>3, <2>4 DEF n
<1>. QED BY <1>2, <1>3 DEF Stands

LEMMA OffsetOf ==
  ASSUME FileTypes, NEW r \in 1..Current
  PROVE  \A at : at \in Offsets(r) <=> Stands(disk, lens[r], r, at)
<1>1. lens[r] \in Nat /\ disk \in Seq(Word)
  BY LensNat DEF FileTypes
<1>. QED BY <1>1, StandsIn DEF Offsets, At

LEMMA OffsetNext ==
  ASSUME disk' \in Seq(Word), NEW r, lens'[r] \in Nat
  PROVE  \A at : at \in Offsets(r)' <=> Stands(disk', lens'[r], r, at)
<1>. QED BY StandsIn DEF Offsets, At

(* What every step leaves of the file: all of it.                          *)
Grown ==
  /\ disk' \in Seq(Word)
  /\ Len(disk) <= Len(disk') /\ \A i \in 1..Len(disk) : disk'[i] = disk[i]
  /\ Current' \in Nat /\ Current <= Current'
  /\ \A r \in 1..Current : lens'[r] = lens[r]

LEMMA OffsetsStay ==
  ASSUME FileTypes, Grown, NEW r \in 1..Current
  PROVE  Offsets(r) \subseteq Offsets(r)'
<1>1. lens[r] \in Nat /\ lens'[r] = lens[r]
  BY LensNat DEF Grown
<1>2. ASSUME NEW at, Stands(disk, lens[r], r, at)
      PROVE  Stands(disk', lens[r], r, at)
  <2>1. at \in Nat /\ Len(disk) \in Nat /\ Len(disk') \in Nat
    BY <1>2, SMTT(20) DEF Stands, FileTypes, Grown
  <2>2. \A i \in 1..(Header + lens[r]) : at + i \in 1..Len(disk)
    BY <1>1, <1>2, <2>1 DEF Stands, Header
  <2>. QED BY <1>1, <1>2, <2>1, <2>2, SMTT(20) DEF Stands, Grown, Header
<1>. QED BY <1>1, <1>2, OffsetOf, OffsetNext DEF Grown

(* Words handed to the system go behind those it has.                      *)
LEMMA HandedOver ==
  ASSUME FileTypes, NEW s \in Seq(Word), disk' = disk \o s, UNCHANGED lens
  PROVE  /\ Grown
         /\ Len(disk') = Len(disk) + Len(s)
         /\ \A i \in 1..Len(s) : disk'[Len(disk) + i] = s[i]
<1>1. disk \in Seq(Word) /\ Current \in Nat /\ Current' = Current
  BY LensNat DEF FileTypes, Current
<1>2. /\ disk' \in Seq(Word) /\ Len(disk') = Len(disk) + Len(s)
      /\ \A i \in 1..Len(disk) : disk'[i] = disk[i]
      /\ \A i \in 1..Len(s) : disk'[Len(disk) + i] = s[i]
  BY <1>1
<1>. QED BY <1>1, <1>2 DEF Grown

LEMMA FileKept ==
  ASSUME FileTypes, UNCHANGED <<disk, lens>>
  PROVE  Grown /\ Current' = Current
<1>1. Current \in Nat
  BY LensNat
<1>2. Current' = Current
  BY DEF Current
<1>. QED BY <1>1, <1>2 DEF Grown, FileTypes

LEMMA DoneStays ==
  ASSUME FileTypes, DoneOnDisk, Grown, UNCHANGED done
  PROVE  DoneOnDisk'
<1>1. \A k \in 1..Len(done) : done[k] \in 1..Current'
  BY LensNat DEF DoneOnDisk, Grown
<1>2. \A k \in 1..Len(done) : Offsets(done[k])' # {}
  BY OffsetsStay DEF DoneOnDisk
<1>. QED BY <1>1, <1>2 DEF DoneOnDisk

LEMMA Behind ==
  ASSUME NEW m \in Nat, NEW n \in Nat, NEW l \in Nat, NEW i \in Nat,
         n < i, i <= n + l
  PROVE  i - n \in 1..l /\ m + (i - n) = i - (n - m) /\ n + (i - n) = i
OBVIOUS

(* Words of the last record, from where it was cut, keep the file framed.  *)
LEMMA AppendFramed ==
  ASSUME NEW d \in Seq(Word), NEW ls \in Seq(Nat), Framed(d, ls), Len(ls) >= 1,
         NEW m \in 0..Len(d), \A i \in 1..(Len(d) - m) : d[i][1] < Len(ls),
         \A i \in 1..m : d[Len(d) - m + i] = <<Len(ls), i>>,
         NEW s \in Seq(Word), \A i \in 1..Len(s) : s[i] = <<Len(ls), m + i>>,
         m + Len(s) <= Header + ls[Len(ls)]
  PROVE  Framed(d \o s, ls)
<1> DEFINE n == Len(d)
           c == Len(ls)
           e == d \o s
<1>1. /\ n \in Nat /\ c \in Nat /\ c >= 1 /\ Len(s) \in Nat /\ Len(e) = n + Len(s)
      /\ m \in 0..n /\ Header \in Nat /\ ls[c] \in Nat
  BY DEF Header
<1>2. \A i \in 1..n : e[i] = d[i]
  OBVIOUS
<1>3. \A i \in 1..Len(s) : e[n + i] = <<c, m + i>>
  BY SMTT(20)
<1>4. /\ m + Len(s) <= Header + ls[c]
      /\ \A i \in 1..(n - m) : d[i][1] < c
      /\ \A i \in 1..m : d[n - m + i] = <<c, i>>
  OBVIOUS
<1>5. /\ \A i \in 1..n : /\ d[i][1] \in 1..c
                          /\ d[i][2] \in 1..(Header + ls[d[i][1]]) /\ d[i][2] <= i
      /\ \A i \in 1..n : \A k \in 1..d[i][2] : d[i - d[i][2] + k] = <<d[i][1], k>>
      /\ \A i, j \in 1..n : i < j =>
           \/ d[i][1] < d[j][1]
           \/ d[i][1] = d[j][1] /\ d[j][2] - d[i][2] = j - i
  BY DEF Framed
<1> HIDE DEF n, c, e
<1>6. \A i \in 1..(n - m) : i \in 1..n /\ e[i] = d[i] /\ d[i][1] \in 1..c /\ d[i][1] < c
  <2>. TAKE i \in 1..(n - m)
  <2>1. i \in 1..n
    BY <1>1
  <2>2. e[i] = d[i]
    BY <1>2, <2>1
  <2>3. d[i][1] \in 1..c /\ d[i][1] < c
    BY <1>4, <1>5, <2>1
  <2>. QED BY <2>1, <2>2, <2>3
<1>0. \A i \in 1..n : d[i][1] \in Nat /\ d[i][2] \in Nat
  BY SMTT(20) DEF Word, n
<1>7. ASSUME NEW i \in (n - m + 1)..(n + Len(s))
      PROVE  e[i] = <<c, i - (n - m)>> /\ e[i][1] = c /\ e[i][2] = i - (n - m)
  <2>1. CASE i <= n
    <3>1. i - (n - m) \in 1..m /\ n - m + (i - (n - m)) = i /\ i \in 1..n
      BY <1>1, <2>1
    <3>2. d[i] = <<c, i - (n - m)>>
      BY <1>4, <3>1
    <3>3. e[i] = d[i]
      BY <1>2, <3>1
    <3>. QED BY <3>2, <3>3
  <2>2. CASE i > n
    <3>1. i - n \in 1..Len(s) /\ m + (i - n) = i - (n - m) /\ n + (i - n) = i
      <4>1. /\ m \in Nat /\ n \in Nat /\ Len(s) \in Nat /\ i \in Nat
            /\ n < i /\ i <= n + Len(s)
        BY <1>1, <2>2
      <4>. QED BY ONLY <4>1, Behind
    <3>2. e[n + (i - n)] = <<c, m + (i - n)>>
      BY <1>3, <3>1, Zenon
    <3>3. e[i] = <<c, i - (n - m)>>
      BY <3>1, <3>2, Zenon
    <3>. QED BY <3>3
  <2>3. i \in Nat /\ n \in Nat
    BY <1>1
  <2>4. i <= n \/ i > n
    BY <2>3
  <2>. QED BY <2>1, <2>2, <2>4, Zenon
<1>8. ASSUME NEW i \in 1..Len(e)
      PROVE  /\ e[i][1] \in 1..c
             /\ e[i][2] \in 1..(Header + ls[e[i][1]]) /\ e[i][2] <= i
  <2>1. CASE i <= n - m
    <3>1. i \in 1..(n - m)
      BY <1>1, <2>1
    <3>. QED BY <1>5, <1>6, <3>1
  <2>2. CASE i > n - m
    <3>1. i \in (n - m + 1)..(n + Len(s))
      BY <1>1, <2>2
    <3>2. e[i][1] = c /\ e[i][2] = i - (n - m)
      BY <1>7, <3>1
    <3>3. i - (n - m) \in 1..(Header + ls[c]) /\ i - (n - m) <= i /\ c \in 1..c
      BY <1>1, <1>4, <3>1, SMTT(20)
    <3>. QED BY <3>2, <3>3
  <2>. QED BY <1>1, <2>1, <2>2
<1>9. ASSUME NEW i \in 1..Len(e), NEW k \in 1..e[i][2]
      PROVE  e[i - e[i][2] + k] = <<e[i][1], k>>
  <2>1. CASE i <= n - m
    <3>0. i \in 1..(n - m)
      BY <1>1, <2>1
    <3>1. i \in 1..n /\ e[i] = d[i]
      BY <1>6, <3>0
    <3>2. d[i][2] <= i /\ d[i][2] \in Nat /\ d[i][1] \in Nat
      BY <1>0, <1>5, <3>1
    <3>3. k \in 1..d[i][2]
      BY <3>1
    <3>5. i - d[i][2] + k \in 1..(n - m)
      <4>1. PICK t \in Nat : t = d[i][2]
        BY <3>2
      <4>2. t <= i /\ k \in 1..t
        BY <3>2, <3>3, <4>1
      <4>4. i \in Nat /\ n - m \in Int /\ i <= n - m /\ k \in Nat /\ 1 <= k /\ k <= t
        BY <1>1, <3>0, <4>2
      <4>3. i - t + k \in 1..(n - m)
        BY <4>2, <4>4, SMTT(20)
      <4>. QED BY <4>1, <4>3
    <3>4. d[i - d[i][2] + k] = <<d[i][1], k>>
      BY <1>5, <3>1, <3>3
    <3>. QED BY <1>6, <3>1, <3>4, <3>5
  <2>2. CASE i > n - m
    <3>1. i \in (n - m + 1)..(n + Len(s))
      BY <1>1, <2>2
    <3>2. e[i][1] = c /\ e[i][2] = i - (n - m)
      BY <1>7, <3>1
    <3>3. k \in 1..(i - (n - m))
      BY <3>2
    <3>4. /\ i - (i - (n - m)) + k = n - m + k /\ n - m + k \in (n - m + 1)..(n + Len(s))
          /\ (n - m + k) - (n - m) = k
      BY <1>1, <3>1, <3>3
    <3>. QED BY <1>7, <3>2, <3>4
  <2>. QED BY <1>1, <2>1, <2>2, SMTT(20)
<1>10. ASSUME NEW i \in 1..Len(e), NEW j \in 1..Len(e), i < j
       PROVE  \/ e[i][1] < e[j][1]
              \/ e[i][1] = e[j][1] /\ e[j][2] - e[i][2] = j - i
  <2>1. CASE j <= n - m
    <3>1. i \in 1..(n - m) /\ j \in 1..(n - m)
      BY <1>1, <1>10, <2>1
    <3>2. i \in 1..n /\ j \in 1..n /\ e[i] = d[i] /\ e[j] = d[j]
      BY <1>6, <3>1
    <3>3. \/ d[i][1] < d[j][1]
          \/ d[i][1] = d[j][1] /\ d[j][2] - d[i][2] = j - i
      BY <1>5, <1>10, <3>2, Zenon
    <3>. QED BY <3>2, <3>3
  <2>2. CASE i <= n - m /\ j > n - m
    <3>1. i \in 1..(n - m) /\ j \in (n - m + 1)..(n + Len(s))
      BY <1>1, <1>10, <2>2
    <3>. QED BY <1>6, <1>7, <3>1
  <2>3. CASE i > n - m
    <3>1. i \in (n - m + 1)..(n + Len(s)) /\ j \in (n - m + 1)..(n + Len(s))
      BY <1>1, <1>10, <2>3
    <3>2. e[i][1] = c /\ e[i][2] = i - (n - m) /\ e[j][1] = c /\ e[j][2] = j - (n - m)
      BY <1>7, <3>1
    <3>3. (j - (n - m)) - (i - (n - m)) = j - i
      BY <1>1, <3>1
    <3>. QED BY <3>2, <3>3
  <2>. QED BY <1>1, <2>1, <2>2, <2>3
<1>. QED BY <1>8, <1>9, <1>10 DEF Framed, c, e

LEMMA AppendInOrder ==
  ASSUME FileTypes, InDiskOrder, Current >= 1,
         NEW m \in 0..Len(disk), \A i \in 1..(Len(disk) - m) : disk[i][1] < Current,
         \A i \in 1..m : disk[Len(disk) - m + i] = <<Current, i>>,
         NEW s \in Seq(Word), \A i \in 1..Len(s) : s[i] = <<Current, m + i>>,
         m + Len(s) <= Header + lens[Current],
         disk' = disk \o s, UNCHANGED lens
  PROVE  InDiskOrder'
<1>1. disk \in Seq(Word) /\ lens \in Seq(Nat)
  BY LensNat DEF FileTypes
<1>2. Framed(disk \o s, lens)
  BY <1>1, AppendFramed DEF InDiskOrder, Current
<1>. QED BY <1>2 DEF InDiskOrder

(* A record made later changes nothing.                                    *)
Longer(ls, lt) == Len(ls) <= Len(lt) /\ \A r \in 1..Len(ls) : lt[r] = ls[r]

LEMMA FramedLonger ==
  ASSUME NEW d \in Seq(Word), NEW ls \in Seq(Nat), NEW lt \in Seq(Nat), Longer(ls, lt),
         Framed(d, ls)
  PROVE  Framed(d, lt)
<1>1. Len(ls) \in Nat /\ Len(lt) \in Nat /\ Len(ls) <= Len(lt)
  BY DEF Longer
<1>2. \A i \in 1..Len(d) : d[i][1] \in 1..Len(ls)
  BY DEF Framed
<1>3. \A i \in 1..Len(d) : d[i][1] \in 1..Len(lt) /\ lt[d[i][1]] = ls[d[i][1]]
  BY <1>1, <1>2, SMTT(20) DEF Longer
<1>. QED BY <1>3 DEF Framed

LEMMA Sorted ==
  ASSUME FileTypes, InDiskOrder
  PROVE  /\ \A i \in 1..Len(disk) : disk[i][1] \in 1..Current
         /\ \A i, j \in 1..Len(disk) : i <= j => disk[i][1] <= disk[j][1]
<1>1. Len(disk) \in Nat /\ Current \in Nat
  BY LensNat DEF FileTypes
<1>2. \A i \in 1..Len(disk) : disk[i][1] \in 1..Current
  BY DEF InDiskOrder, Framed, Current
<1>3. ASSUME NEW i \in 1..Len(disk), NEW j \in 1..Len(disk), i <= j
      PROVE  disk[i][1] <= disk[j][1]
  <2>1. i = j \/ i < j
    BY <1>1, <1>3
  <2>. QED BY <1>2, <1>1, <2>1, SMTT(20) DEF InDiskOrder, Framed
<1>. QED BY <1>2, <1>3

(* What of the buffer the system gets lengthens the record on disk.        *)
LEMMA CutMoves ==
  ASSUME FileTypes, NEW m \in 0..Len(disk), CutAt(m),
         NEW k \in 0..Len(buffer), Handed(k), UNCHANGED lens
  PROVE  /\ m + k \in 0..Len(disk') /\ CutAt(m + k)'
         /\ disk' \in Seq(Word) /\ buffer' \in Seq(Word)
         /\ Grown
         /\ InDiskOrder /\ Current >= 1 => InDiskOrder'
<1> DEFINE s == SubSeq(buffer, 1, k)
<1>1. buffer \in Seq(Word) /\ disk \in Seq(Word) /\ Len(buffer) \in Nat /\ Len(disk) \in Nat
  BY DEF FileTypes
<1>2. s \in Seq(Word) /\ Len(s) = k /\ \A i \in 1..k : s[i] = buffer[i]
  BY <1>1
<1>3. /\ buffer' \in Seq(Word) /\ Len(buffer') = Len(buffer) - k
      /\ \A i \in 1..(Len(buffer) - k) : buffer'[i] = buffer[k + i]
  BY <1>1 DEF Handed
<1>4. disk' = disk \o s
  BY DEF Handed
<1> HIDE DEF s
<1>5. /\ Grown /\ Len(disk') = Len(disk) + k
      /\ \A i \in 1..Len(disk) : disk'[i] = disk[i]
      /\ \A i \in 1..k : disk'[Len(disk) + i] = buffer[i]
  BY <1>2, <1>4, HandedOver DEF Grown
<1>6. /\ Current' = Current
      /\ \A i \in 1..m : disk[Len(disk) - m + i] = <<Current, i>>
      /\ \A i \in 1..Len(buffer) : buffer[i] = <<Current, m + i>>
  BY DEF Current, CutAt
<1>7. CutAt(m + k)'
  <2>1. (m + k) + Len(buffer') = Header + lens[Current]
    BY <1>1, <1>3 DEF CutAt
  <2>2. ASSUME NEW i \in 1..(m + k)
        PROVE  disk'[Len(disk') - (m + k) + i] = <<Current, i>>
    <3>1. Len(disk') - (m + k) + i = Len(disk) - m + i
      BY <1>1, <1>5
    <3>2. CASE i <= m
      <4>1. Len(disk) - m + i \in 1..Len(disk)
        BY <1>1, <3>2
      <4>2. disk[Len(disk) - m + i] = <<Current, i>>
        <5>1. i \in 1..m
          BY <1>1, <3>2
        <5>. QED BY <1>6, <5>1
      <4>. QED BY <1>5, <3>1, <4>1, <4>2
    <3>3. CASE i > m
      <4>1. i - m \in 1..k /\ Len(disk) - m + i = Len(disk) + (i - m)
        BY <1>1, <3>3
      <4>2. i - m \in 1..Len(buffer) /\ m + (i - m) = i
        BY <1>1, <4>1
      <4>3. buffer[i - m] = <<Current, i>>
        BY <1>6, <4>2
      <4>. QED BY <1>5, <3>1, <4>1, <4>3
    <3>. QED BY <3>2, <3>3
  <2>3. ASSUME NEW i \in 1..Len(buffer')
        PROVE  buffer'[i] = <<Current, (m + k) + i>>
    <3>1. k + i \in 1..Len(buffer) /\ m + (k + i) = (m + k) + i
      BY <1>1, <1>3
    <3>. QED BY <1>3, <3>1 DEF CutAt
  <2>4. ASSUME NEW i \in 1..(Len(disk') - (m + k))
        PROVE  disk'[i][1] < Current
    <3>1. i \in 1..Len(disk) /\ i \in 1..(Len(disk) - m)
      BY <1>1, <1>5
    <3>. QED BY <1>5, <3>1 DEF CutAt
  <2>. QED BY <1>6, <2>1, <2>2, <2>3, <2>4 DEF CutAt
<1>8. InDiskOrder /\ Current >= 1 => InDiskOrder'
  <2>1. \A i \in 1..Len(s) : s[i] = <<Current, m + i>>
    <3>1. \A i \in 1..k : i \in 1..Len(buffer)
      BY <1>1
    <3>. QED BY <1>2, <1>6, <3>1
  <2>2. m + Len(s) <= Header + lens[Current]
    <3>1. m + Len(buffer) = Header + lens[Current]
      BY DEF CutAt
    <3>. QED BY <1>1, <1>2, <3>1
  <2>3. \A i \in 1..(Len(disk) - m) : disk[i][1] < Current
    BY DEF CutAt
  <2>. QED BY <1>2, <1>4, <1>6, <2>1, <2>2, <2>3, AppendInOrder
<1>9. m + k \in 0..Len(disk') /\ disk' \in Seq(Word)
  BY <1>1, <1>5 DEF Grown
<1>. QED BY <1>3, <1>5, <1>7, <1>8, <1>9

LEMMA FileStart == FileInit => FileIInv
<1>. SUFFICES ASSUME FileInit PROVE FileIInv
  OBVIOUS
<1>1. FileTypes
  <2>1. <<>> \in Seq(Lengths) /\ <<>> \in Seq(Word) /\ <<>> \in Seq(Nat) /\ Len(<<>>) = 0
    OBVIOUS
  <2>2. 0 <= MaxRecords /\ 0 <= MaxReads
    BY FileConstants
  <2>. QED BY <2>1, <2>2 DEF FileInit, FileTypes, Current
<1>2. DiskInv
  <2>1. Len(<<>>) = 0 /\ 1..0 = {}
    OBVIOUS
  <2>. QED BY <2>1 DEF FileInit, DiskInv, InDiskOrder, Framed, InAppend
<1>3. HandingInv /\ DoneInv
  BY DEF FileInit, HandingInv, DoneInv, DoneOnDisk, InAppend, Handing, RangeOf
<1>. QED BY <1>1, <1>2, <1>3 DEF FileIInv

(* Steps of the writer that touch neither file nor buffer, and the         *)
(* reader's.                                                               *)
LEMMA FileQuiet ==
  ASSUME FileIInv, FileTypes', UNCHANGED <<disk, lens, buffer, done, torn>>,
         wpc' \in InAppend => wpc \in InAppend,
         wpc' \in {"opened", "reopened"} => wpc \in {"opened", "reopened"},
         wpc' \in Handing => wpc \in Handing,
         wpc' \notin {"written", "failed"} => wpc \notin {"written", "failed"}
  PROVE  FileIInv' /\ Grown
<1>. USE DEF FileIInv
<1>1. Grown /\ Current' = Current
  BY FileKept
<1>2. DiskInv'
  BY <1>1 DEF DiskInv, InDiskOrder
<1>3. HandingInv'
  <2>1. \A k : CutAt(k) => CutAt(k)'
    BY <1>1 DEF CutAt
  <2>. QED BY <2>1 DEF HandingInv
<1>4. DoneInv'
  <2>1. DoneOnDisk'
    BY <1>1, DoneStays DEF DoneInv
  <2>. QED BY <1>1, <2>1 DEF DoneInv, RangeOf
<1>. QED BY <1>1, <1>2, <1>3, <1>4

(* Open: the next record has no word on disk and is neither done nor torn. *)
LEMMA OpenKeeps ==
  ASSUME FileIInv, Open
  PROVE  FileIInv' /\ Grown
<1>. USE DEF FileIInv
<1>1. PICK n \in Lengths : lens' = Append(lens, n)
  BY DEF Open
<1>2. /\ lens \in Seq(Lengths) /\ Current \in Nat
      /\ lens' \in Seq(Lengths) /\ Current' = Current + 1
      /\ \A r \in 1..Current : lens'[r] = lens[r]
  BY <1>1, LensNat DEF FileTypes, Current
<1>3. /\ wpc = "capturing" /\ wpc' = "opened" /\ Current < MaxRecords
      /\ UNCHANGED <<disk, buffer, done, torn, reader>>
  BY DEF Open
<1>4. Grown
  BY <1>2, <1>3 DEF Grown, FileTypes
<1>5. FileTypes'
  BY <1>2, <1>3, FileConstants, SMTT(20) DEF FileTypes, reader, InAppend
<1>6. DiskInv'
  <2>1. \A i \in 1..Len(disk) : disk[i][1] \in 1..Current
    BY Sorted DEF DiskInv
  <2>2. disk \in Seq(Word) /\ lens \in Seq(Nat) /\ n \in Nat
    BY LensNat, FileConstants DEF FileTypes
  <2>4. lens' \in Seq(Nat) /\ Longer(lens, lens')
    BY <1>1, <2>2 DEF Longer
  <2>3. Framed(disk, lens')
    BY <2>2, <2>4, FramedLonger DEF DiskInv, InDiskOrder
  <2>. QED BY <1>2, <1>3, <2>1, <2>3 DEF DiskInv, InDiskOrder
<1>7. HandingInv'
  BY <1>3 DEF HandingInv, Handing
<1>8. DoneInv'
  <2>1. DoneOnDisk'
    BY <1>3, <1>4, DoneStays DEF DoneInv
  <2>2. \A k \in 1..Len(done) : done[k] \in 1..Current
    BY DEF DoneInv, DoneOnDisk
  <2>3. torn \subseteq 1..Current'
    BY <1>2 DEF DoneInv
  <2>4. Current' \notin torn /\ \A k \in 1..Len(done) : done[k] < Current'
    BY <1>2, <2>2 DEF DoneInv
  <2>. QED BY <1>3, <2>1, <2>3, <2>4 DEF DoneInv, RangeOf
<1>. QED BY <1>4, <1>5, <1>6, <1>7, <1>8

(* Write: the first words go to the system, the others into the buffer.    *)
LEMMA WriteKeeps ==
  ASSUME FileIInv, Write
  PROVE  FileIInv' /\ Grown
<1>. USE DEF FileIInv
<1> DEFINE v == ToDisk(Current, lens[Current])
<1>1. PICK k \in 0..Len(v) : disk' = disk \o SubSeq(v, 1, k) /\ buffer' = SubSeq(v, k + 1, Len(v))
  BY DEF Write
<1>2. /\ wpc = "reopened" /\ wpc' = "written"
      /\ UNCHANGED <<lens, done, torn, reader>>
  BY DEF Write
<1>3. Current \in 1..Current /\ Current \in Nat /\ lens[Current] \in Nat /\ Current' = Current
  BY <1>2, LensNat DEF DiskInv, InAppend, Current
<1>4. /\ v \in Seq(Word) /\ Len(v) = Header + lens[Current] /\ Len(v) \in Nat
      /\ \A i \in 1..Len(v) : v[i] = <<Current, i>>
  <2>1. Header + lens[Current] \in Nat
    BY <1>3 DEF Header
  <2>2. \A i \in 1..(Header + lens[Current]) : <<Current, i>> \in Word
    BY <1>3, <2>1 DEF Word
  <2>. QED BY <2>1, <2>2 DEF ToDisk, Words
<1> HIDE DEF v
<1> DEFINE s == SubSeq(v, 1, k)
<1>5. s \in Seq(Word) /\ Len(s) = k /\ \A i \in 1..k : s[i] = <<Current, i>>
  BY <1>4
<1>6. /\ buffer' \in Seq(Word) /\ Len(buffer') = Len(v) - k
      /\ \A i \in 1..(Len(v) - k) : buffer'[i] = <<Current, k + i>>
  <2>1. buffer' \in Seq(Word) /\ Len(buffer') = Len(v) - k
    BY <1>1, <1>4
  <2>2. \A i \in 1..(Len(v) - k) : k + i \in 1..Len(v) /\ buffer'[i] = v[k + i]
    BY <1>1, <1>4
  <2>3. \A i \in 1..(Len(v) - k) : buffer'[i] = <<Current, k + i>>
    BY <1>4, <2>2
  <2>. QED BY <2>1, <2>3
<1>7. disk' = disk \o s
  BY <1>1
<1> HIDE DEF s
<1>8. /\ Grown /\ Len(disk') = Len(disk) + k /\ Len(disk) \in Nat
      /\ \A i \in 1..k : disk'[Len(disk) + i] = <<Current, i>>
  <2>1. /\ Grown /\ Len(disk') = Len(disk) + Len(s)
        /\ \A i \in 1..Len(s) : disk'[Len(disk) + i] = s[i]
    BY <1>2, <1>5, <1>7, HandedOver
  <2>2. Len(disk) \in Nat
    BY DEF FileTypes
  <2>. QED BY <1>5, <2>1, <2>2
<1>9. FileTypes'
  BY <1>2, <1>3, <1>6, <1>8 DEF FileTypes, reader, InAppend, Grown
<1>10. DiskInv'
  <2>1. PICK z \in 0..Len(disk) : z = 0
    BY <1>8
  <2>2. \A i \in 1..(Len(disk) - z) : disk[i][1] < Current
    BY <1>2, <1>8, <2>1 DEF DiskInv
  <2>3. z + Len(s) <= Header + lens[Current]
    BY <1>4, <1>5, <2>1
  <2>4. \A i \in 1..Len(s) : s[i] = <<Current, z + i>>
    BY <1>5, <2>1
  <2>5. \A i \in 1..z : disk[Len(disk) - z + i] = <<Current, i>>
    BY <2>1
  <2>6. InDiskOrder /\ Current >= 1 /\ s \in Seq(Word) /\ disk' = disk \o s /\ UNCHANGED lens
    BY <1>2, <1>3, <1>5, <1>7 DEF DiskInv
  <2>7. InDiskOrder'
    BY <2>2, <2>3, <2>4, <2>5, <2>6, AppendInOrder
  <2>. QED BY <1>2, <1>3, <2>7 DEF DiskInv
<1>11. HandingInv'
  <2>1. k \in 0..Len(disk')
    BY <1>4, <1>8
  <2>2. CutAt(k)'
    <3>1. k + Len(buffer') = Header + lens[Current]
      BY <1>4, <1>6
    <3>2. \A i \in 1..k : disk'[Len(disk') - k + i] = <<Current, i>>
      <4>1. Len(disk') - k = Len(disk)
        BY <1>4, <1>8
      <4>. QED BY <1>8, <4>1
    <3>3. \A i \in 1..Len(buffer') : buffer'[i] = <<Current, k + i>>
      BY <1>6
    <3>4. ASSUME NEW i \in 1..(Len(disk') - k)
          PROVE  disk'[i][1] < Current
      <4>1. i \in 1..Len(disk) /\ disk'[i] = disk[i]
        BY <1>4, <1>8 DEF Grown
      <4>. QED BY <1>2, <4>1 DEF DiskInv
    <3>. QED BY <1>2, <1>3, <3>1, <3>2, <3>3, <3>4 DEF CutAt
  <2>. QED BY <1>2, <2>1, <2>2 DEF HandingInv
<1>12. DoneInv'
  <2>1. DoneOnDisk'
    BY <1>2, <1>8, DoneStays DEF DoneInv
  <2>. QED BY <1>2, <1>3, <2>1 DEF DoneInv, RangeOf, InAppend
<1>. QED BY <1>8, <1>9, <1>10, <1>11, <1>12

(* SyncPart and Sync: a further part of the buffer goes to the system.     *)
LEMMA SyncKeeps ==
  ASSUME FileIInv, SyncPart \/ Sync
  PROVE  FileIInv' /\ Grown
<1>. USE DEF FileIInv
<1>1. PICK k \in 0..Len(buffer) : Handed(k) /\ (wpc' = "synced" => k = Len(buffer))
  BY DEF SyncPart, Sync, FileTypes
<1>2. /\ wpc = "written" /\ wpc' \in {"written", "synced"}
      /\ UNCHANGED <<lens, done, torn, reader>>
  BY DEF SyncPart, Sync
<1>3. PICK m \in 0..Len(disk) : CutAt(m)
  BY <1>2 DEF HandingInv, Handing
<1>4. /\ m + k \in 0..Len(disk') /\ CutAt(m + k)'
      /\ disk' \in Seq(Word) /\ buffer' \in Seq(Word) /\ Grown
      /\ InDiskOrder'
  BY <1>1, <1>2, <1>3, CutMoves DEF DiskInv, InAppend
<1>5. Current' = Current
  BY <1>2 DEF Current
<1>6. FileTypes'
  BY <1>2, <1>4, <1>5, SMTT(20) DEF FileTypes, reader, InAppend, Grown
<1>7. DiskInv'
  BY <1>2, <1>4, <1>5 DEF DiskInv, InAppend
<1>8. HandingInv'
  <2>1. k = Len(buffer) => buffer' = <<>>
    BY <1>1 DEF Handed, FileTypes
  <2>. QED BY <1>1, <1>2, <1>4, <2>1 DEF HandingInv, Handing
<1>9. DoneInv'
  <2>1. DoneOnDisk'
    BY <1>2, <1>4, DoneStays DEF DoneInv
  <2>. QED BY <1>2, <1>5, <2>1 DEF DoneInv, RangeOf, InAppend
<1>. QED BY <1>4, <1>6, <1>7, <1>8, <1>9

(* Close: the record stands at the end of the file.                        *)
LEMMA CloseKeeps ==
  ASSUME FileIInv, Close
  PROVE  FileIInv' /\ Grown
<1>. USE DEF FileIInv
<1>1. /\ wpc = "flushed" /\ wpc' = "capturing" /\ done' = Append(done, Current)
      /\ UNCHANGED <<disk, lens, buffer, torn, reader>>
  BY DEF Close
<1>2. /\ Current \in 1..Current /\ Current \in Nat /\ lens[Current] \in Nat
      /\ Len(disk) \in Nat /\ Header \in Nat
  BY <1>1, LensNat DEF DiskInv, InAppend, FileTypes, Header
<1>3. /\ done \in Seq(Nat) /\ done' \in Seq(Nat) /\ Len(done') = Len(done) + 1
      /\ \A k \in 1..Len(done) : done'[k] = done[k]
      /\ done'[Len(done) + 1] = Current
  BY <1>1, <1>2 DEF FileTypes
<1>4. buffer = <<>>
  BY <1>1 DEF HandingInv
<1>5. PICK m \in 0..Len(disk) : CutAt(m)
  BY <1>1 DEF HandingInv, Handing
<1>6. Len(disk) - m \in Offsets(Current)
  <2>1. m = Header + lens[Current]
    BY <1>2, <1>4, <1>5 DEF CutAt
  <2>2. Stands(disk, lens[Current], Current, Len(disk) - m)
    <3>1. Len(disk) - m \in Nat /\ (Len(disk) - m) + Header + lens[Current] <= Len(disk)
      BY <1>2, <2>1, SMTT(20)
    <3>2. \A i \in 1..(Header + lens[Current]) : disk[Len(disk) - m + i] = <<Current, i>>
      BY <1>5, <2>1 DEF CutAt
    <3>. QED BY <3>1, <3>2 DEF Stands
  <2>. QED BY <1>2, <2>2, OffsetOf
<1>7. Grown /\ Current' = Current
  BY <1>1, FileKept
<1>8. FileTypes'
  BY <1>1, <1>3, <1>7 DEF FileTypes, reader
<1>9. DiskInv' /\ HandingInv'
  BY <1>1, <1>4, <1>7 DEF DiskInv, InDiskOrder, HandingInv, InAppend, Handing
<1>10. DoneInv'
  <2>1. \A r \in 1..Current : Offsets(r)' = Offsets(r)
    BY <1>1 DEF Offsets, At
  <2>2. \A k \in 1..Len(done') : done'[k] \in 1..Current /\ Offsets(done'[k]) # {}
    <3>1. SUFFICES ASSUME NEW k \in 1..Len(done')
                   PROVE  done'[k] \in 1..Current /\ Offsets(done'[k]) # {}
      OBVIOUS
    <3>2. CASE k \in 1..Len(done)
      BY <1>3, <3>2 DEF DoneInv, DoneOnDisk
    <3>3. CASE k = Len(done) + 1
      BY <1>2, <1>3, <1>6, <3>3
    <3>. QED BY <1>3, <3>2, <3>3
  <2>3. DoneOnDisk'
    BY <1>7, <2>1, <2>2 DEF DoneOnDisk
  <2>4. \A j, k \in 1..Len(done') : j < k => done'[j] < done'[k]
    <3>1. SUFFICES ASSUME NEW j \in 1..Len(done'), NEW k \in 1..Len(done'), j < k
                   PROVE  done'[j] < done'[k]
      OBVIOUS
    <3>2. j \in 1..Len(done)
      BY <1>3, <3>1
    <3>3. CASE k \in 1..Len(done)
      BY <1>3, <3>1, <3>2, <3>3 DEF DoneInv
    <3>4. CASE k = Len(done) + 1
      BY <1>1, <1>3, <3>2, <3>4 DEF DoneInv, InAppend
    <3>. QED BY <1>3, <3>3, <3>4
  <2>5. RangeOf(done)' \subseteq RangeOf(done) \cup {Current}
    <3>1. \A k \in 1..Len(done') : k \in 1..Len(done) \/ k = Len(done) + 1
      BY <1>3
    <3>2. \A k \in 1..Len(done') : done'[k] \in RangeOf(done) \cup {Current}
      BY <1>3, <3>1 DEF RangeOf
    <3>. QED BY <3>2 DEF RangeOf
  <2>6. Current \notin torn /\ torn \subseteq 1..Current /\ torn \cap RangeOf(done) = {}
    BY <1>1 DEF DoneInv, InAppend
  <2>. QED BY <1>1, <1>7, <2>3, <2>4, <2>5, <2>6 DEF DoneInv, InAppend
<1>. QED BY <1>7, <1>8, <1>9, <1>10

(* A record that is done is whole on disk, and killing the writer tears    *)
(* none of it.                                                             *)
LEMMA CutNotDone ==
  ASSUME FileIInv
  PROVE  Cut \subseteq 1..Current /\ Cut \cap RangeOf(done) = {}
<1>. USE DEF FileIInv
<1>1. Cut \subseteq 1..Current
  BY LensNat DEF Cut
<1>2. ASSUME Current \in RangeOf(done), Current \in Cut
      PROVE  FALSE
  <2>1. Current \in 1..Current /\ Current \in Nat
    BY <1>1, <1>2, LensNat
  <2>2. PICK k \in 1..Len(done) : done[k] = Current
    BY <1>2 DEF RangeOf
  <2>3. PICK at : at \in Offsets(Current)
    BY <2>2 DEF DoneInv, DoneOnDisk
  <2>4. Stands(disk, lens[Current], Current, at)
    BY <2>1, <2>3, OffsetOf
  <2>5. lens[Current] \in Nat /\ Len(disk) \in Nat
    <3>1. lens[Current] \in Nat
      BY <2>1, LensNat, Zenon
    <3>2. disk \in Seq(Word)
      BY DEF FileTypes
    <3>. QED BY <3>1, <3>2
  <2>6. at + (Header + lens[Current]) \in 1..Len(disk)
        /\ Header + lens[Current] \in 1..(Header + lens[Current])
    BY <2>4, <2>5, SMTT(20) DEF Stands, Header
  <2>7. disk[at + (Header + lens[Current])] = <<Current, Header + lens[Current]>>
    BY <2>4, <2>6 DEF Stands
  <2>. QED BY <1>2, <2>6, <2>7 DEF Cut
<1>3. Cut \subseteq {Current}
  BY DEF Cut
<1>. QED BY <1>1, <1>2, <1>3

LEMMA KillKeeps ==
  ASSUME FileIInv, WriterKilled
  PROVE  FileIInv' /\ Grown
<1>. USE DEF FileIInv
<1>1. /\ wpc' = "off" /\ buffer' = <<>> /\ torn' = torn \cup Cut
      /\ UNCHANGED <<disk, lens, done, reader>>
  BY DEF WriterKilled
<1>2. Grown /\ Current' = Current
  BY <1>1, FileKept
<1>3. <<>> \in Seq(Word)
  OBVIOUS
<1>4. FileTypes'
  BY <1>1, <1>2, <1>3 DEF FileTypes, reader
<1>5. DiskInv' /\ HandingInv'
  BY <1>1, <1>2 DEF DiskInv, InDiskOrder, HandingInv, InAppend, Handing
<1>6. DoneInv'
  <2>1. DoneOnDisk'
    BY <1>1, <1>2, DoneStays DEF DoneInv
  <2>2. torn' \subseteq 1..Current /\ torn' \cap RangeOf(done) = {}
    BY <1>1, CutNotDone DEF DoneInv
  <2>. QED BY <1>1, <1>2, <2>1, <2>2 DEF DoneInv, RangeOf, InAppend
<1>. QED BY <1>2, <1>4, <1>5, <1>6

(* The destructor of a file that could not be written.                     *)
LEMMA UnwindKeeps ==
  ASSUME FileIInv, Unwind
  PROVE  FileIInv' /\ Grown
<1>. USE DEF FileIInv
<1>1. PICK k \in 0..Len(buffer) : disk' = disk \o SubSeq(buffer, 1, k)
  BY DEF Unwind
<1>2. /\ wpc = "failed" /\ wpc' = "off" /\ buffer' = <<>>
      /\ torn' = torn \cup Cut' /\ UNCHANGED <<lens, done, reader>>
  BY DEF Unwind
<1> DEFINE s == SubSeq(buffer, 1, k)
<1>3. s \in Seq(Word) /\ Len(s) = k /\ \A i \in 1..k : s[i] = buffer[i]
  BY DEF FileTypes
<1>4. disk' = disk \o s
  BY <1>1
<1> HIDE DEF s
<1>5. Current \in Nat /\ Current >= 1 /\ Current' = Current
  BY <1>2, LensNat DEF DiskInv, InAppend, Current
<1>6. InDiskOrder'
  <2>1. PICK m \in 0..Len(disk) : CutAt(m)
    BY <1>2 DEF HandingInv, Handing
  <2>2. buffer \in Seq(Word) /\ Len(buffer) \in Nat
    BY DEF FileTypes
  <2>3. \A i \in 1..k : i \in 1..Len(buffer) /\ buffer[i] = <<Current, m + i>>
    BY <2>1, <2>2 DEF CutAt
  <2>4. \A i \in 1..Len(s) : s[i] = <<Current, m + i>>
    BY <1>3, <2>3
  <2>5. m + Len(s) <= Header + lens[Current]
    <3>1. m + Len(buffer) = Header + lens[Current]
      BY <2>1 DEF CutAt
    <3>. QED BY <1>3, <2>2, <3>1
  <2>. QED BY <1>2, <1>3, <1>4, <1>5, <2>1, <2>4, <2>5, AppendInOrder DEF DiskInv, CutAt
<1>7. Grown
  BY <1>2, <1>3, <1>4, HandedOver
<1>8. <<>> \in Seq(Word)
  OBVIOUS
<1>9. FileTypes'
  BY <1>2, <1>5, <1>7, <1>8 DEF FileTypes, reader, Grown
<1>10. DiskInv' /\ HandingInv'
  BY <1>2, <1>6 DEF DiskInv, HandingInv, InAppend, Handing
<1>11. DoneInv'
  <2>1. DoneOnDisk'
    BY <1>2, <1>7, DoneStays DEF DoneInv
  <2>2. Cut' \subseteq {Current}
    BY <1>5 DEF Cut
  <2>3. Current \notin RangeOf(done)
    BY <1>2, <1>5 DEF DoneInv, InAppend, RangeOf
  <2>4. torn' \subseteq 1..Current /\ torn' \cap RangeOf(done) = {}
    <3>1. torn \subseteq 1..Current /\ torn \cap RangeOf(done) = {} /\ Current \in 1..Current
      BY <1>5 DEF DoneInv
    <3>. QED BY <1>2, <2>2, <2>3, <3>1
  <2>. QED BY <1>2, <1>5, <2>1, <2>4 DEF DoneInv, RangeOf, InAppend
<1>. QED BY <1>7, <1>9, <1>10, <1>11

LEMMA WriterKeeps ==
  ASSUME FileIInv, Writer
  PROVE  FileIInv' /\ Grown
<1>1. CASE Start
  <2>1. FileTypes'
    BY <1>1, FileKept DEF Start, FileIInv, FileTypes, reader, InAppend
  <2>. QED BY <1>1, <2>1, FileQuiet DEF Start, InAppend, Handing
<1>2. CASE Open
  BY <1>2, OpenKeeps
<1>3. CASE Reopen
  <2>1. FileTypes'
    BY <1>3, FileKept DEF Reopen, FileIInv, FileTypes, reader, InAppend
  <2>. QED BY <1>3, <2>1, FileQuiet DEF Reopen, InAppend, Handing
<1>4. CASE Write
  BY <1>4, WriteKeeps
<1>5. CASE SyncPart \/ Sync
  BY <1>5, SyncKeeps
<1>6. CASE Flush
  <2>1. FileTypes'
    BY <1>6, FileKept DEF Flush, FileIInv, FileTypes, reader, InAppend
  <2>. QED BY <1>6, <2>1, FileQuiet DEF Flush, InAppend, Handing
<1>7. CASE Close
  BY <1>7, CloseKeeps
<1>8. CASE Full
  <2>1. FileTypes'
    BY <1>8, FileKept DEF Full, FileIInv, FileTypes, reader, InAppend
  <2>. QED BY <1>8, <2>1, FileQuiet DEF Full, InAppend, Handing
<1>9. CASE Unwind
  BY <1>9, UnwindKeeps
<1>10. CASE WriterKilled
  BY <1>10, KillKeeps
<1>. QED BY <1>1, <1>2, <1>3, <1>4, <1>5, <1>6, <1>7, <1>8, <1>9, <1>10 DEF Writer

(* The reader changes nothing of the file and stays inside what it read.   *)
LEMMA ReaderTypes ==
  ASSUME FileIInv, Reader \/ UNCHANGED fileVars
  PROVE  UNCHANGED writer /\ FileIInv'
<1>1. UNCHANGED writer
  BY DEF Reader, ReadOpen, Size, ReadAll, NextRecord, Returned, Malformed, ReadEnds, fileVars
<1>0. Current' = Current
  BY <1>1 DEF writer, Current
<1>2. /\ Len(disk) \in Nat /\ disk \in Seq(Word) /\ size \in Nat /\ size <= Len(disk)
      /\ reads \in Nat /\ reads <= MaxReads /\ MaxReads \in Nat
      /\ vec \in Seq(Word) /\ Len(vec) <= size /\ off \in Nat /\ off <= Len(vec)
      /\ \A i \in 1..Len(vec) : vec[i][1] \in 1..Current
      /\ list \in Seq(RecordType) /\ rpc \in {"idle", "opened", "sized", "parsing"}
  BY FileConstants DEF FileIInv, FileTypes
<1> DEFINE Types == /\ rpc \in {"idle", "opened", "sized", "parsing"}
                    /\ size \in Nat /\ size <= Len(disk) /\ reads \in Nat /\ reads <= MaxReads
                    /\ vec \in Seq(Word) /\ Len(vec) <= size /\ off \in Nat /\ off <= Len(vec)
                    /\ \A i \in 1..Len(vec) : vec[i][1] \in 1..Current
                    /\ list \in Seq(RecordType)
<1>3. <<>> \in Seq(Word) /\ <<>> \in Seq(RecordType) /\ Len(<<>>) = 0
  OBVIOUS
<1>4. ASSUME ReadOpen PROVE Types'
  BY <1>1, <1>2, <1>4, <1>0 DEF ReadOpen, writer
<1>5. ASSUME Size PROVE Types'
  BY <1>1, <1>2, <1>5, <1>0 DEF Size, writer
<1>6. ASSUME ReadAll PROVE Types'
  <2>1. vec' \in Seq(Word) /\ Len(vec') = size /\ \A i \in 1..size : vec'[i] = disk[i]
    BY <1>2, <1>6 DEF ReadAll
  <2>2. \A i \in 1..Len(vec') : vec'[i][1] \in 1..Current
    BY <1>2, <2>1, Sorted DEF FileIInv, DiskInv
  <2>. QED BY <1>0, <1>1, <1>2, <1>3, <1>6, <2>1, <2>2 DEF ReadAll, writer
<1>7. ASSUME NextRecord PROVE Types'
  <2>1. /\ off' = off + Header + Announced /\ Rest >= Header /\ Announced <= Rest - Header
        /\ list' = Append(list, FileRecord(vec[off + 2], SubSeq(vec, off + Header + 1, off')))
        /\ UNCHANGED <<rpc, size, vec, told, whole, reads, disk>>
    BY <1>7 DEF NextRecord, Wellformed, writer
  <2>2. vec[off + 4] \in Word /\ vec[off + 2] \in Word
    BY <1>2, <2>1 DEF Rest, Header
  <2>3. Announced \in Nat
    <3>1. off + 4 \in 1..Len(vec)
      BY <1>2, <2>1, SMTT(20) DEF Rest, Header
    <3>. QED BY <1>2, <3>1, LensNat DEF Announced, FileIInv
  <2>4. off' \in Nat /\ off' <= Len(vec)
    BY <1>2, <2>1, <2>3 DEF Rest, Header
  <2>5. SubSeq(vec, off + Header + 1, off') \in Seq(Word)
    BY <1>2, <2>3, <2>4, <2>1, SMTT(20) DEF Header
  <2>6. list' \in Seq(RecordType)
    BY <1>2, <2>1, <2>2, <2>5 DEF RecordType, FileRecord
  <2>. QED BY <1>0, <1>1, <1>2, <2>1, <2>4, <2>6 DEF writer
<1>8. ASSUME Returned \/ Malformed PROVE Types'
  <2>1. /\ rpc' = "idle" /\ vec' = <<>> /\ off' = 0 /\ list' = <<>>
        /\ UNCHANGED <<writer, size, reads>>
    BY <1>8 DEF Returned, Malformed, ReadEnds
  <2>2. Len(vec') = 0 /\ 1..Len(vec') = {} /\ UNCHANGED disk
    BY <2>1 DEF writer
  <2>. QED BY <1>2, <1>3, <2>1, <2>2
<1>9. ASSUME UNCHANGED fileVars PROVE Types'
  BY <1>0, <1>2, <1>9 DEF fileVars, writer, reader
<1>10. Types'
  BY <1>4, <1>5, <1>6, <1>7, <1>8, <1>9 DEF Reader
<1>11. FileTypes'
  BY <1>1, <1>10 DEF writer, FileIInv, FileTypes, Current
<1>. QED BY <1>1, <1>11, FileQuiet DEF writer
-----------------------------------------------------------------------------
(* Reading the file back.  v is what was read, a prefix of what some time  *)
(* was on disk, and w what it consisted of.                                *)

WholeIn(v, ls) == { r \in 1..Len(ls) : <<r, Header + ls[r]>> \in RangeOf(v) }
BegunIn(v)     == { v[i][1] : i \in 1..Len(v) }
SnapshotOf(v, ls, w) ==
  /\ v \in Seq(Word) /\ Framed(v, ls)
  /\ w = [records |-> WholeIn(v, ls), parts |-> BegunIn(v) \ WholeIn(v, ls)]
Known(w, ls) ==
  /\ \A p, q \in w.parts : p = q
  /\ \A p \in w.parts, r \in w.records : p < r => ls[p] < Header + ls[r]

(* from_disk is at the first word of a record and has found the records    *)
(* before it, all of them whole, or it is inside a record and what is to   *)
(* come is an exception.                                                   *)
AtRecord(v, o, l, ls, w) ==
  /\ o < Len(v) => v[o + 1][2] = 1
  /\ \A i \in 1..Len(l) : \E r \in w.records : l[i] = FileRecord(<<r, 2>>, Data(r, ls[r]))
  /\ \A i, j \in 1..Len(l) : i < j => l[i].id[1] < l[j].id[1]
  /\ \A j \in 1..o : v[j][1] \in w.records /\ \E i \in 1..Len(l) : l[i].id[1] = v[j][1]
  /\ \A i \in 1..Len(l) : \A j \in (o + 1)..Len(v) : l[i].id[1] < v[j][1]
Astray(v, o, w) == o < Len(v) /\ v[o + 1][2] # 1 /\ w.parts # {}

LEMMA WithHeader ==
  ASSUME NEW o \in Nat, NEW x \in Nat
  PROVE  /\ Header + x \in Nat /\ Header + x >= 4
         /\ o + Header + x = o + (Header + x)
BY DEF Header

(* A whole record at its first word: all its words follow, and then the    *)
(* first word of a later record, if any.                                   *)
LEMMA WholeRecord ==
  ASSUME NEW v \in Seq(Word), NEW ls \in Seq(Nat), Framed(v, ls),
         NEW o \in Nat, o < Len(v), v[o + 1][2] = 1,
         NEW r \in WholeIn(v, ls), v[o + 1][1] = r
  PROVE  /\ o + Header + ls[r] <= Len(v)
         /\ \A k \in 1..(Header + ls[r]) : v[o + k] = <<r, k>>
         /\ \A j \in (o + Header + ls[r] + 1)..Len(v) : r < v[j][1]
         /\ o + Header + ls[r] < Len(v) => v[o + Header + ls[r] + 1][2] = 1
<1> DEFINE n == Header + ls[r]
<1>1. /\ n \in Nat /\ n >= 4 /\ Len(v) \in Nat /\ r \in 1..Len(ls) /\ r \in Nat
      /\ o + Header + ls[r] = o + n
  <2>1. r \in 1..Len(ls) /\ Len(ls) \in Nat
    BY DEF WholeIn
  <2>2. PICK x \in Nat : x = ls[r]
    BY <2>1
  <2>3. /\ Header + x \in Nat /\ Header + x >= 4
        /\ o + Header + x = o + (Header + x)
    BY WithHeader, Zenon
  <2>4. r \in Nat /\ Len(v) \in Nat
    BY <2>1
  <2>5. n \in Nat /\ n >= 4 /\ o + Header + ls[r] = o + n
    BY <2>2, <2>3, Zenon
  <2>. QED BY <2>1, <2>4, <2>5, Zenon
<1>2. \A i \in 1..Len(v) : v[i][1] \in Nat /\ v[i][2] \in Nat
  BY SMTT(20) DEF Word
<1>3. /\ \A i \in 1..Len(v) : v[i][2] \in 1..(Header + ls[v[i][1]])
      /\ \A i \in 1..Len(v) : \A k \in 1..v[i][2] : v[i - v[i][2] + k] = <<v[i][1], k>>
      /\ \A i, j \in 1..Len(v) : i < j =>
           \/ v[i][1] < v[j][1]
           \/ v[i][1] = v[j][1] /\ v[j][2] - v[i][2] = j - i
  BY DEF Framed
<1>4. \A i \in 1..Len(v) : v[i][1] = r => v[i][2] \in 1..n
  BY <1>3
<1>5. PICK j \in 1..Len(v) : v[j] = <<r, n>>
  BY DEF WholeIn, RangeOf
<1> HIDE DEF n
<1>6. v[j][1] = r /\ v[j][2] = n
  BY <1>5
<1>7. j = o + n
  <2>1. PICK x \in 1..Len(v) : x = o + 1
    BY <1>1
  <2>2. v[x][1] = r /\ v[x][2] = 1
    BY <2>1
  <2>3. CASE j < x
    <3>0. v[j][1] < v[x][1] \/ (v[j][1] = v[x][1] /\ v[x][2] - v[j][2] = x - j)
      BY <1>3, <2>3
    <3>1. v[x][2] - v[j][2] = x - j
      BY <1>1, <1>6, <2>2, <3>0
    <3>2. 1 - n = x - j
      BY <1>6, <2>2, <3>1
    <3>. QED BY <1>1, <2>3, <3>2
  <2>4. CASE x < j
    <3>0. v[x][1] < v[j][1] \/ (v[x][1] = v[j][1] /\ v[j][2] - v[x][2] = j - x)
      BY <1>3, <2>4
    <3>1. v[j][2] - v[x][2] = j - x
      BY <1>1, <1>6, <2>2, <3>0
    <3>2. n - 1 = j - x
      BY <1>6, <2>2, <3>1
    <3>. QED BY <1>1, <2>1, <3>2
  <2>5. CASE j = x
    BY <1>1, <1>6, <2>2, <2>5
  <2>. QED BY <1>1, <2>3, <2>4, <2>5
<1>8. \A k \in 1..n : v[o + k] = <<r, k>>
  <2>1. \A k \in 1..n : v[j - n + k] = <<r, k>>
    BY <1>3, <1>6
  <2>2. j - n = o
    BY <1>1, <1>7
  <2>. QED BY <2>1, <2>2
<1>9. ASSUME NEW i \in (o + n + 1)..Len(v)
      PROVE  r < v[i][1]
  <2>1. i \in 1..Len(v) /\ j < i
    BY <1>1, <1>7
  <2>2. v[j][1] < v[i][1] \/ (v[i][1] = r /\ v[i][2] - n = i - j)
    BY <1>3, <1>6, <2>1
  <2>3. CASE v[i][1] = r /\ v[i][2] - n = i - j
    <3>1. PICK t \in 1..n : t = v[i][2]
      BY <1>4, <2>1, <2>3
    <3>2. t - n = i - j
      BY <2>3, <3>1
    <3>. QED BY <1>1, <2>1, <3>2
  <2>. QED BY <1>6, <2>2, <2>3
<1>10. o + n < Len(v) => v[o + n + 1][2] = 1
  <2>1. SUFFICES ASSUME o + n < Len(v), v[o + n + 1][2] # 1 PROVE FALSE
    OBVIOUS
  <2>2. o + n + 1 \in 1..Len(v) /\ o + n + 1 \in (o + n + 1)..Len(v)
    BY <1>1, <2>1, SMTT(20)
  <2>3. PICK t \in Nat : t = v[o + n + 1][2]
    BY <1>2, <2>2
  <2>4. t >= 2
    <3>1. PICK x \in 1..Len(v) : x = o + n + 1
      BY <2>2
    <3>2. v[x][2] \in 1..(Header + ls[v[x][1]]) /\ v[x][2] = t
      BY <1>3, <2>3, <3>1
    <3>3. t >= 1
      BY <2>3, <3>2
    <3>. QED BY <2>1, <2>3, <3>3
  <2>5. t - 1 \in 1..t
    BY <2>4
  <2>6. v[o + n] = <<v[o + n + 1][1], t - 1>>
    <3>1. PICK x \in 1..Len(v) : x = o + n + 1
      BY <2>2
    <3>2. \A k \in 1..t : v[x - t + k] = <<v[x][1], k>>
      BY <1>3, <2>3, <3>1
    <3>3. v[x - t + (t - 1)] = <<v[x][1], t - 1>>
      BY <2>5, <3>2
    <3>4. x - t + (t - 1) = o + n
      BY <1>1, <3>1
    <3>. QED BY <3>1, <3>3, <3>4
  <2>7. v[o + n][1] = v[o + n + 1][1]
    BY <2>6
  <2>8. r < v[o + n + 1][1]
    BY <1>9, <2>2
  <2>. QED BY <1>1, <1>6, <1>7, <2>7, <2>8, SMTT(20)
<1>11. o + n <= Len(v)
  BY <1>5, <1>7
<1>12. /\ \A k \in 1..n : v[o + k] = <<r, k>>
       /\ \A i \in (o + n + 1)..Len(v) : r < v[i][1]
  BY <1>8, <1>9
<1>. QED BY <1>1, <1>10, <1>11, <1>12 DEF n
LEMMA HeaderAt ==
  ASSUME NEW v \in Seq(Word), NEW ls \in Seq(Nat), Framed(v, ls),
         NEW o \in Nat, o + Header <= Len(v), v[o + Header][2] = 4
  PROVE  \A k \in 1..4 : v[o + k] = <<v[o + 4][1], k>>
<1>1. PICK x \in 1..Len(v) : x = o + 4
  BY DEF Header
<1>2. v[x][2] = 4
  BY <1>1 DEF Header
<1>3. \A k \in 1..4 : v[x - 4 + k] = <<v[x][1], k>>
  BY <1>2 DEF Framed
<1>4. x - 4 = o
  BY <1>1
<1>. QED BY <1>1, <1>3, <1>4

(* The words of a file by number; two of one record lie as far apart as    *)
(* their numbers.                                                          *)
LEMMA FramedWords ==
  ASSUME NEW v \in Seq(Word), NEW ls \in Seq(Nat), Framed(v, ls)
  PROVE  /\ Len(v) \in Nat
         /\ \A i \in 1..Len(v) :
              /\ v[i] \in Nat \X Nat /\ v[i][1] \in 1..Len(ls) /\ v[i][1] \in Nat
              /\ ls[v[i][1]] \in Nat /\ v[i][2] \in 1..(Header + ls[v[i][1]])
         /\ \A i \in 1..Len(v) : \A k \in 1..v[i][2] : v[i - v[i][2] + k] = <<v[i][1], k>>
         /\ \A i, j \in 1..Len(v) : i < j => v[i][1] <= v[j][1]
         /\ \A i, j \in 1..Len(v) : v[i][1] = v[j][1] => v[j][2] - v[i][2] = j - i
<1>1. Len(v) \in Nat
  OBVIOUS
<1>2. ASSUME NEW i \in 1..Len(v)
      PROVE  /\ v[i] \in Nat \X Nat /\ v[i][1] \in 1..Len(ls) /\ v[i][1] \in Nat /\ v[i][2] \in Nat
             /\ ls[v[i][1]] \in Nat /\ v[i][2] \in 1..(Header + ls[v[i][1]])
  <2>1. v[i] \in Nat \X Nat
    BY DEF Word
  <2>2. v[i][1] \in 1..Len(ls) /\ v[i][2] \in 1..(Header + ls[v[i][1]])
    BY DEF Framed
  <2>. QED BY <2>1, <2>2
<1>3. \A i, j \in 1..Len(v) : i < j =>
           \/ v[i][1] < v[j][1]
           \/ v[i][1] = v[j][1] /\ v[j][2] - v[i][2] = j - i
  BY DEF Framed
<1>4. ASSUME NEW i \in 1..Len(v), NEW j \in 1..Len(v), v[i][1] = v[j][1]
      PROVE  v[j][2] - v[i][2] = j - i
  <2>1. PICK x \in Nat : v[i][1] = x /\ v[j][1] = x
    BY <1>2, <1>4
  <2>2. ~(v[i][1] < v[j][1]) /\ ~(v[j][1] < v[i][1])
    BY <2>1
  <2>3. CASE i < j
    BY <1>3, <2>2, <2>3
  <2>4. CASE j < i
    <3>1. v[i][2] - v[j][2] = i - j
      BY <1>3, <2>2, <2>4
    <3>2. PICK a \in Nat, b \in Nat : a = v[i][2] /\ b = v[j][2]
      BY <1>2
    <3>3. a - b = i - j
      BY <3>1, <3>2
    <3>4. b - a = j - i
      BY <3>3
    <3>. QED BY <3>2, <3>4
  <2>5. CASE i = j
    <3>1. PICK a \in Nat : a = v[i][2]
      BY <1>2
    <3>2. a - a = 0 /\ i - i = 0
      BY <3>1
    <3>. QED BY <2>5, <3>1, <3>2
  <2>. QED BY <2>3, <2>4, <2>5
<1>5. ASSUME NEW i \in 1..Len(v), NEW j \in 1..Len(v), i < j
      PROVE  v[i][1] <= v[j][1]
  <2>1. PICK a \in Nat, b \in Nat : a = v[i][1] /\ b = v[j][1]
    BY <1>2
  <2>2. a < b \/ a = b
    BY <1>3, <1>5, <2>1
  <2>3. a <= b
    BY <2>1, <2>2
  <2>. QED BY <2>1, <2>3
<1>. QED BY <1>1, <1>2, <1>4, <1>5 DEF Framed

(* Steps of arithmetic that the provers find only on their own.            *)
LEMMA FourMore ==
  ASSUME NEW t \in Nat, NEW n \in Nat, t - 4 = n
  PROVE  t = 4 + n
OBVIOUS

LEMMA Overlapping ==
  ASSUME NEW h \in Nat, NEW x \in Nat, NEW y \in Nat, x < 4 + y
  PROVE  h + 4 + y > h + x
OBVIOUS

LEMMA PastEnd ==
  ASSUME NEW h \in Nat, NEW n \in Nat, NEW x \in Nat, NEW e \in Nat,
         h + 4 + x > e, n = 4 + x
  PROVE  h + n > e
OBVIOUS

LEMMA ShortOf ==
  ASSUME NEW h \in Nat, NEW n \in Nat, NEW t \in Nat, NEW e \in Nat,
         h + n > e, t <= e - h
  PROVE  t < n
OBVIOUS

LEMMA Ahead ==
  ASSUME NEW t \in Nat, NEW n \in Nat, NEW j \in Nat, NEW e \in Nat,
         t >= 1, t < n, n - t = j - e
  PROVE  t + 1 \in 1..n /\ j - n + (t + 1) = e + 1 /\ e < j
OBVIOUS

(* The last word a part announces is there: it is a later record's.        *)
LEMMA TornFollowed ==
  ASSUME NEW v \in Seq(Word), NEW ls \in Seq(Nat), Framed(v, ls),
         NEW r \in Nat, NEW h \in 1..Len(v), v[h] = <<r, Header>>,
         NEW e \in 1..Len(v), e = h + ls[r], <<r, Header + ls[r]>> \notin RangeOf(v)
  PROVE  r < v[e][1]
<1>1. v[h][1] = r /\ v[h][2] = Header
  OBVIOUS
<1>2. Header = 4 /\ ls[r] \in Nat
  BY <1>1, FramedWords DEF Header
<1>3. v[e][1] # r
  <2>1. SUFFICES ASSUME v[e][1] = r PROVE FALSE
    OBVIOUS
  <2>2. v[e][2] - v[h][2] = e - h
    BY <1>1, <2>1, FramedWords
  <2>3. PICK t \in Nat : t = v[e][2]
    BY FramedWords
  <2>6. PICK n \in Nat : n = ls[r]
    BY <1>2
  <2>7. t - 4 = n
    BY <1>1, <1>2, <2>2, <2>3, <2>6
  <2>8. t = 4 + n
    BY <2>3, <2>6, <2>7, FourMore, Zenon
  <2>4. t = Header + ls[r]
    BY <1>2, <2>6, <2>8
  <2>5. v[e] = <<r, t>>
    <3>1. v[e] \in Nat \X Nat
      BY FramedWords
    <3>. QED BY <2>1, <2>3, <3>1, SMTT(20)
  <2>. QED BY <2>4, <2>5 DEF RangeOf
<1>4. r <= v[e][1] /\ v[e][1] \in Nat
  <2>1. h = e \/ h < e
    BY <1>2
  <2>2. v[h][1] <= v[e][1]
    <3>1. CASE h < e
      BY <3>1, FramedWords
    <3>2. CASE h = e
      BY <1>1, <3>2, SMTT(20)
    <3>. QED BY <2>1, <3>1, <3>2
  <2>. QED BY <1>1, <2>2, FramedWords
<1>. QED BY <1>3, <1>4, SMTT(20)

(* A word of a whole record less than its length behind an earlier record: *)
(* the record goes on behind it.                                           *)
LEMMA InsideWhole ==
  ASSUME NEW v \in Seq(Word), NEW ls \in Seq(Nat), Framed(v, ls),
         NEW h \in 1..Len(v), NEW e \in 1..Len(v), v[h][1] < v[e][1],
         v[e][1] \in WholeIn(v, ls), h + Header + ls[v[e][1]] > e
  PROVE  e < Len(v) /\ v[e + 1][2] # 1
<1>1. PICK q \in Nat : q = v[e][1]
  BY FramedWords
<1>2. PICK n \in Nat : n = Header + ls[q]
  <2>1. PICK x \in Nat : x = ls[q]
    BY <1>1, FramedWords
  <2>2. Header + x \in Nat
    BY WithHeader, Zenon
  <2>. QED BY <2>1, <2>2, Zenon
<1>3. PICK j \in 1..Len(v) : v[j] = <<q, n>>
  BY <1>1, <1>2 DEF WholeIn, RangeOf
<1>4. PICK t \in Nat : t = v[e][2] /\ t >= 1
  <2>1. v[e][2] \in 1..n
    BY <1>1, <1>2, FramedWords
  <2>. QED BY <2>1
<1>5. \A k \in 1..t : v[e - t + k] = <<q, k>>
  BY <1>1, <1>4, FramedWords
<1>6. t <= e - h
  <2>1. SUFFICES ASSUME t > e - h PROVE FALSE
    BY <1>4
  <2>2. h < e
    <3>1. h <= e
      <4>1. SUFFICES ASSUME e < h PROVE FALSE
        OBVIOUS
      <4>2. v[e][1] <= v[h][1] /\ v[e][1] \in Nat /\ v[h][1] \in Nat
        BY <4>1, FramedWords
      <4>. QED BY <4>2
    <3>2. h # e
      BY <1>1
    <3>. QED BY <3>1, <3>2
  <2>3. PICK k \in 1..t : k = h - (e - t)
    BY <1>4, <2>1, <2>2
  <2>4. e - t + k = h
    BY <1>4, <2>3, SMTT(20)
  <2>5. v[h] = <<q, k>>
    BY <1>5, <2>4
  <2>. QED BY <1>1, <2>5
<1>7. t < n
  <2>1. h + n > e
    <3>1. PICK x \in Nat : x = ls[q]
      BY <1>1, FramedWords
    <3>2. h + 4 + x > e
      BY <1>1, <3>1 DEF Header
    <3>3. n = 4 + x
      BY <1>2, <3>1 DEF Header
    <3>4. h \in Nat /\ e \in Nat
      OBVIOUS
    <3>. QED BY <1>2, <3>1, <3>2, <3>3, <3>4, PastEnd, Zenon
  <2>2. h \in Nat /\ e \in Nat /\ n \in Nat /\ t \in Nat
    BY <1>2, <1>4
  <2>. QED BY <1>6, <2>1, <2>2, ShortOf, Zenon
<1>8. n - t = j - e
  <2>1. v[j][1] = q /\ v[j][2] = n
    BY <1>3
  <2>2. v[j][2] - v[e][2] = j - e
    BY <1>1, <2>1, FramedWords, SMTT(20)
  <2>. QED BY <1>4, <2>1, <2>2
<1>9. \A k \in 1..n : v[j - n + k] = <<q, k>>
  <2>1. v[j][1] = q /\ v[j][2] = n
    BY <1>3
  <2>2. \A k \in 1..v[j][2] : v[j - v[j][2] + k] = <<v[j][1], k>>
    BY FramedWords
  <2>. QED BY <2>1, <2>2
<1>10. t + 1 \in 1..n /\ j - n + (t + 1) = e + 1 /\ e < j
  <2>1. t \in Nat /\ t >= 1 /\ n \in Nat /\ j \in Nat /\ e \in Nat
    BY <1>2, <1>4, SMTT(20)
  <2>. QED BY <2>1, <1>7, <1>8, Ahead
<1>11. v[e + 1] = <<q, t + 1>>
  BY <1>9, <1>10
<1>12. v[e + 1][2] = t + 1 /\ e < Len(v)
  BY <1>10, <1>11
<1>. QED BY <1>4, <1>12

(* A part of a record with a whole header, and what it announces is there: *)
(* it is words of a later record, and from_disk comes out inside that.     *)
LEMMA TornRecord ==
  ASSUME NEW v \in Seq(Word), NEW ls \in Seq(Nat), NEW w, SnapshotOf(v, ls, w), Known(w, ls),
         NEW h \in 1..Len(v), NEW r \in Nat, v[h] = <<r, Header>>, r \notin w.records,
         NEW e \in 1..Len(v), e = h + ls[r]
  PROVE  Astray(v, e, w)
<1>1. /\ Framed(v, ls) /\ w.records = WholeIn(v, ls)
      /\ w.parts = BegunIn(v) \ WholeIn(v, ls)
  BY DEF SnapshotOf
<1>2. v[h][1] = r /\ r \in 1..Len(ls)
  <2>1. v[h][1] = r
    OBVIOUS
  <2>. QED BY <1>1, <2>1, FramedWords
<1>3. r \in w.parts
  BY <1>1, <1>2 DEF BegunIn
<1>4. r < v[e][1]
  <2>1. <<r, Header + ls[r]>> \notin RangeOf(v)
    BY <1>1, <1>2 DEF WholeIn
  <2>. QED BY <1>1, <2>1, TornFollowed
<1>5. v[e][1] \in Nat /\ v[e][1] \in WholeIn(v, ls)
  <2>1. v[e][1] \in BegunIn(v) /\ v[e][1] \in Nat
    BY <1>1, FramedWords DEF BegunIn
  <2>2. v[e][1] # r
    BY <1>4, <2>1
  <2>. QED BY <1>1, <1>3, <2>1, <2>2 DEF Known
<1>6. ls[r] < Header + ls[v[e][1]]
  BY <1>1, <1>3, <1>4, <1>5 DEF Known
<1>7. h + Header + ls[v[e][1]] > e
  <2>1. PICK x \in Nat, y \in Nat : x = ls[r] /\ y = ls[v[e][1]]
    BY <1>1, <1>2, FramedWords
  <2>2. x < 4 + y
    BY <1>6, <2>1 DEF Header
  <2>3. h + 4 + y > h + x
    <3>1. h \in Nat
      OBVIOUS
    <3>. QED BY <2>1, <2>2, <3>1, Overlapping, Zenon
  <2>. QED BY <2>1, <2>3 DEF Header
<1>8. e < Len(v) /\ v[e + 1][2] # 1
  BY <1>1, <1>2, <1>4, <1>5, <1>7, InsideWhole
<1>. QED BY <1>3, <1>8 DEF Astray

LEMMA DataAt ==
  ASSUME NEW v \in Seq(Word), NEW n \in Nat, NEW r, NEW o \in Nat,
         o + Header + n <= Len(v), \A k \in 1..(Header + n) : v[o + k] = <<r, k>>
  PROVE  SubSeq(v, o + Header + 1, o + Header + n) = Data(r, n)
<1> DEFINE a == o + Header + 1
           b == o + Header + n
<1>1. a \in Nat /\ a >= 1 /\ b \in Nat /\ b <= Len(v) /\ b - a + 1 = n
  BY DEF Header
<1>2. \A i \in 1..n : i + a - 1 = o + (Header + i) /\ Header + i \in 1..(Header + n)
  BY DEF Header
<1> HIDE DEF a, b
<1>3. SubSeq(v, a, b) = [i \in 1..(b - a + 1) |-> v[i + a - 1]]
  BY <1>1
<1>4. SubSeq(v, a, b) = [i \in 1..n |-> v[i + a - 1]]
  BY <1>1, <1>3
<1>5. \A i \in 1..n : v[i + a - 1] = <<r, Header + i>>
  BY <1>2
<1>6. SubSeq(v, a, b) = [i \in 1..n |-> <<r, Header + i>>]
  BY <1>4, <1>5
<1>. QED BY <1>6 DEF a, b, Data

(* A whole record joins the list, and its data is what was written.        *)
LEMMA NextWhole ==
  ASSUME NEW v \in Seq(Word), NEW ls \in Seq(Nat), NEW w, SnapshotOf(v, ls, w),
         NEW o \in Nat, NEW l \in Seq(RecordType), AtRecord(v, o, l, ls, w),
         o < Len(v), NEW r \in w.records, v[o + 1] = <<r, 1>>
  PROVE  LET e == o + Header + ls[r]
         IN  /\ e <= Len(v) /\ e \in Nat /\ \A k \in 1..4 : v[o + k] = <<r, k>>
             /\ AtRecord(v, e, Append(l, FileRecord(<<r, 2>>, SubSeq(v, o + Header + 1, e))), ls, w)
<1> DEFINE n == ls[r]
           e == o + Header + ls[r]
           x == FileRecord(<<r, 2>>, SubSeq(v, o + Header + 1, e))
           m == Append(l, x)
<1>1. Framed(v, ls) /\ w.records = WholeIn(v, ls)
  BY DEF SnapshotOf
<1>2. v[o + 1][1] = r /\ v[o + 1][2] = 1
  OBVIOUS
<1>3. /\ e <= Len(v)
      /\ \A k \in 1..(Header + n) : v[o + k] = <<r, k>>
      /\ \A j \in (e + 1)..Len(v) : r < v[j][1]
      /\ e < Len(v) => v[e + 1][2] = 1
  <2>1. r \in WholeIn(v, ls) /\ Framed(v, ls) /\ o < Len(v) /\ o \in Nat
    BY <1>1
  <2>. QED BY <1>2, <2>1, WholeRecord, Zenon
<1>4. n \in Nat /\ r \in Nat /\ Len(v) \in Nat
  <2>1. o + 1 \in 1..Len(v)
    OBVIOUS
  <2>. QED BY <1>1, <1>2, <2>1, FramedWords
<1>5. e \in Nat /\ e = o + (4 + n) /\ Header + n = 4 + n
  BY <1>4, SMTT(20) DEF Header
<1>6. x = FileRecord(<<r, 2>>, Data(r, ls[r])) /\ x.id[1] = r
  <2>1. SubSeq(v, o + Header + 1, o + Header + ls[r]) = Data(r, ls[r])
    <3>1. o + Header + n <= Len(v)
      BY <1>3
    <3>. HIDE DEF n, e
    <3>2. SubSeq(v, o + Header + 1, o + Header + n) = Data(r, n)
      BY <1>3, <1>4, <3>1, DataAt, Zenon
    <3>. QED BY <3>2 DEF n
  <2>2. x = FileRecord(<<r, 2>>, Data(r, ls[r]))
    BY <2>1
  <2>. QED BY <2>2 DEF FileRecord
<1>7. Len(l) \in Nat /\ Len(m) = Len(l) + 1 /\ (\A i \in 1..Len(l) : m[i] = l[i]) /\ m[Len(l) + 1] = x
  OBVIOUS
<1> HIDE DEF e, x, m, n
<1>8. \A i \in 1..Len(m) : i \in 1..Len(l) \/ i = Len(l) + 1
  BY <1>7
<1>9. \A i \in 1..Len(m) : \E q \in w.records : m[i] = FileRecord(<<q, 2>>, Data(q, ls[q]))
  BY <1>6, <1>7, <1>8 DEF AtRecord
<1>10. \A i \in 1..Len(l) : l[i].id[1] < r
  <2>1. o + 1 \in (o + 1)..Len(v)
    BY <1>4
  <2>. QED BY <1>2, <2>1 DEF AtRecord
<1>11. \A i, j \in 1..Len(m) : i < j => m[i].id[1] < m[j].id[1]
  <2>1. SUFFICES ASSUME NEW i \in 1..Len(m), NEW j \in 1..Len(m), i < j
                 PROVE  m[i].id[1] < m[j].id[1]
    OBVIOUS
  <2>2. i \in 1..Len(l)
    BY <1>7, <2>1
  <2>3. CASE j \in 1..Len(l)
    BY <1>7, <2>1, <2>2, <2>3 DEF AtRecord
  <2>4. CASE j = Len(l) + 1
    BY <1>6, <1>7, <1>10, <2>2, <2>4
  <2>. QED BY <1>8, <2>3, <2>4
<1>12. ASSUME NEW j \in 1..e
       PROVE  v[j][1] \in w.records /\ \E i \in 1..Len(m) : m[i].id[1] = v[j][1]
  <2>1. CASE j <= o
    <3>1. j \in 1..o
      BY <1>5, <2>1
    <3>2. PICK i \in 1..Len(l) : l[i].id[1] = v[j][1]
      BY <3>1 DEF AtRecord
    <3>3. v[j][1] \in w.records
      BY <3>1 DEF AtRecord
    <3>. QED BY <1>7, <3>2, <3>3
  <2>2. CASE j > o
    <3>1. j - o \in 1..(Header + n) /\ o + (j - o) = j
      BY <1>4, <1>5, <2>2
    <3>2. v[j] = <<r, j - o>>
      BY <1>3, <3>1
    <3>3. v[j][1] = r /\ Len(l) + 1 \in 1..Len(m)
      BY <1>7, <3>2
    <3>. QED BY <1>6, <1>7, <3>3
  <2>. QED BY <1>5, <2>1, <2>2
<1>13. ASSUME NEW i \in 1..Len(m), NEW j \in (e + 1)..Len(v)
       PROVE  m[i].id[1] < v[j][1]
  <2>1. CASE i \in 1..Len(l)
    <3>1. j \in (o + 1)..Len(v)
      BY <1>4, <1>5
    <3>. QED BY <1>7, <2>1, <3>1 DEF AtRecord
  <2>2. CASE i = Len(l) + 1
    BY <1>3, <1>6, <1>7, <2>2
  <2>. QED BY <1>8, <2>1, <2>2
<1>14. AtRecord(v, e, m, ls, w)
  BY <1>3, <1>9, <1>11, <1>12, <1>13 DEF AtRecord
<1>15. \A k \in 1..4 : v[o + k] = <<r, k>>
  <2>1. \A k \in 1..4 : k \in 1..(Header + n)
    BY <1>4, <1>5
  <2>. QED BY <1>3, <2>1
<1>16. e <= Len(v) /\ e \in Nat /\ (\A k \in 1..4 : v[o + k] = <<r, k>>) /\ AtRecord(v, e, m, ls, w)
  BY <1>3, <1>5, <1>14, <1>15
<1>. QED BY <1>16 DEF e, m, x

(* A prefix of a file is as framed as the file.                            *)
LEMMA PrefixFramed ==
  ASSUME NEW d \in Seq(Word), NEW ls, Framed(d, ls), NEW z \in Nat, z <= Len(d)
  PROVE  SubSeq(d, 1, z) \in Seq(Word) /\ Framed(SubSeq(d, 1, z), ls)
<1> DEFINE v == SubSeq(d, 1, z)
<1>1. v \in Seq(Word) /\ Len(v) = z /\ (\A i \in 1..z : v[i] = d[i]) /\ Len(d) \in Nat
  OBVIOUS
<1> HIDE DEF v
<1>2. \A i \in 1..z : i \in 1..Len(d)
  BY <1>1
<1>3. ASSUME NEW i \in 1..Len(v)
      PROVE  /\ v[i][1] \in 1..Len(ls) /\ v[i][2] \in 1..(Header + ls[v[i][1]]) /\ v[i][2] <= i
             /\ \A k \in 1..v[i][2] : v[i - v[i][2] + k] = <<v[i][1], k>>
  <2>1. i \in 1..Len(d) /\ v[i] = d[i] /\ i <= z
    BY <1>1, <1>2
  <2>2. PICK t \in Nat : t = d[i][2]
    BY <2>1 DEF Word
  <2>3. t <= i /\ \A k \in 1..t : d[i - t + k] = <<d[i][1], k>>
    BY <2>1, <2>2 DEF Framed
  <2>4. ASSUME NEW k \in 1..t PROVE v[i - t + k] = <<d[i][1], k>>
    <3>1. i - t + k \in 1..z
      BY <2>1, <2>2, <2>3, SMTT(20)
    <3>. QED BY <1>1, <2>3, <3>1
  <2>. QED BY <2>1, <2>2, <2>4 DEF Framed
<1>4. \A i, j \in 1..Len(v) : i < j =>
       \/ v[i][1] < v[j][1]
       \/ v[i][1] = v[j][1] /\ v[j][2] - v[i][2] = j - i
  BY <1>1, <1>2, SMTT(20) DEF Framed
<1>. QED BY <1>1, <1>3, <1>4 DEF Framed, v

(* What is known of a read does not change when records are made.          *)
ListsOf(l, R, ls) ==
  /\ \A i \in 1..Len(l) : \E r \in R : l[i] = FileRecord(<<r, 2>>, Data(r, ls[r]))
  /\ \A i, j \in 1..Len(l) : i < j => l[i].id[1] < l[j].id[1]
  /\ \A r \in R : \E i \in 1..Len(l) : l[i].id[1] = r
OutcomeOf(t, w, ls) ==
  t.kind # "nothing" /\ Known(w, ls) =>
    IF w.parts = {} THEN t.kind = "listed" /\ ListsOf(t.list, w.records, ls) ELSE t = Thrown
ParseOf(v, o, l, ls, w) ==
  Known(w, ls) => AtRecord(v, o, l, ls, w) \/ Astray(v, o, w)

LEMMA SnapshotStays ==
  ASSUME NEW v, NEW ls \in Seq(Nat), NEW lt \in Seq(Nat), Longer(ls, lt), NEW w,
         SnapshotOf(v, ls, w)
  PROVE  SnapshotOf(v, lt, w)
<1>1. v \in Seq(Word) /\ Framed(v, ls) /\ Framed(v, lt)
  BY FramedLonger DEF SnapshotOf
<1>2. Len(ls) \in Nat /\ Len(lt) \in Nat /\ Len(ls) <= Len(lt)
  BY DEF Longer
<1>3. WholeIn(v, lt) = WholeIn(v, ls)
  <2>1. ASSUME NEW r \in 1..Len(lt), <<r, Header + lt[r]>> \in RangeOf(v)
        PROVE  r \in 1..Len(ls)
    <3>1. PICK i \in 1..Len(v) : v[i] = <<r, Header + lt[r]>>
      BY <2>1 DEF RangeOf
    <3>2. v[i][1] = r
      BY <3>1
    <3>. QED BY <1>1, <3>2 DEF Framed
  <2>2. \A r \in 1..Len(ls) : r \in 1..Len(lt) /\ lt[r] = ls[r]
    BY <1>2 DEF Longer
  <2>. QED BY <2>1, <2>2 DEF WholeIn
<1>. QED BY <1>1, <1>3 DEF SnapshotOf

LEMMA OutcomeStays ==
  ASSUME NEW ls \in Seq(Nat), NEW lt \in Seq(Nat), Longer(ls, lt), NEW w,
         w.records \subseteq 1..Len(ls), w.parts \subseteq 1..Len(ls)
  PROVE  /\ \A t : OutcomeOf(t, w, ls) => OutcomeOf(t, w, lt)
         /\ \A v, o, l : ParseOf(v, o, l, ls, w) => ParseOf(v, o, l, lt, w)
<1>1. \A r \in 1..Len(ls) : lt[r] = ls[r]
  BY DEF Longer
<1>2. Known(w, lt) <=> Known(w, ls)
  BY <1>1 DEF Known
<1>3. \A l : ListsOf(l, w.records, ls) => ListsOf(l, w.records, lt)
  BY <1>1, ZenonT(60) DEF ListsOf
<1>4. \A v, o, l : AtRecord(v, o, l, ls, w) => AtRecord(v, o, l, lt, w)
  <2>. SUFFICES ASSUME NEW v, NEW o, NEW l, AtRecord(v, o, l, ls, w)
                PROVE  AtRecord(v, o, l, lt, w)
    OBVIOUS
  <2>1. \A r \in w.records : Data(r, lt[r]) = Data(r, ls[r])
    BY <1>1
  <2>2. \A i \in 1..Len(l) : \E r \in w.records : l[i] = FileRecord(<<r, 2>>, Data(r, lt[r]))
    BY <2>1, Zenon DEF AtRecord
  <2>. QED BY <2>2, Zenon DEF AtRecord
<1>. QED BY <1>2, <1>3, <1>4 DEF OutcomeOf, ParseOf

(* The reader: between size() and the end of from_disk it holds, or will   *)
(* hold, a prefix of the file, whole remembers what that consists of, and  *)
(* nothing has been told; what was told last is right.                     *)
ReaderInv ==
  /\ whole.records \subseteq 1..Current /\ whole.parts \subseteq 1..Current
  /\ rpc \in {"opened", "sized", "parsing"} => told = Nothing
  /\ rpc = "sized" => SnapshotOf(SubSeq(disk, 1, size), lens, whole)
  /\ rpc = "parsing" => SnapshotOf(vec, lens, whole) /\ ParseOf(vec, off, list, lens, whole)
  /\ OutcomeOf(told, whole, lens)

LEMMA ReaderStart == FileInit => ReaderInv
  BY DEF FileInit, ReaderInv, OutcomeOf, Nothing

LEMMA ReaderKept ==
  ASSUME FileTypes, ReaderInv, Grown, lens' \in Seq(Nat), UNCHANGED reader
  PROVE  ReaderInv'
<1>1. lens \in Seq(Nat) /\ Longer(lens, lens') /\ Current \in Nat
  BY LensNat DEF Grown, Longer, Current
<1>2. UNCHANGED <<rpc, size, vec, off, list, told, whole>>
  BY DEF reader
<1>3. whole.records \subseteq 1..Len(lens) /\ whole.parts \subseteq 1..Len(lens)
  BY DEF ReaderInv, Current
<1>4. whole.records \subseteq 1..Current' /\ whole.parts \subseteq 1..Current'
  BY <1>1 DEF ReaderInv, Grown
<1>5. SubSeq(disk', 1, size) = SubSeq(disk, 1, size)
  <2>1. /\ disk \in Seq(Word) /\ disk' \in Seq(Word) /\ size \in Nat /\ size <= Len(disk)
        /\ Len(disk) <= Len(disk') /\ \A i \in 1..Len(disk) : disk'[i] = disk[i]
    BY DEF FileTypes, Grown
  <2>2. \A i \in 1..size : i \in 1..Len(disk)
    BY <2>1
  <2>. QED BY <2>1, <2>2
<1>6. \A v : SnapshotOf(v, lens, whole) => SnapshotOf(v, lens', whole)
  BY <1>1, SnapshotStays
<1>7. /\ OutcomeOf(told, whole, lens) => OutcomeOf(told, whole, lens')
      /\ ParseOf(vec, off, list, lens, whole) => ParseOf(vec, off, list, lens', whole)
  BY <1>1, <1>3, OutcomeStays
<1>. QED BY <1>2, <1>4, <1>5, <1>6, <1>7 DEF ReaderInv

(* Size takes stock of the file as it is.                                  *)
LEMMA SizeKeeps ==
  ASSUME FileIInv, ReaderInv, Size
  PROVE  ReaderInv'
<1>1. /\ rpc = "opened" /\ rpc' = "sized" /\ size' = Len(disk)
      /\ whole' = [records |-> Complete, parts |-> Begun \ Complete]
      /\ UNCHANGED <<disk, lens, told>>
  BY DEF Size, writer
<1>2. disk \in Seq(Word) /\ Framed(disk, lens) /\ Current' = Current
  BY <1>1 DEF FileIInv, FileTypes, DiskInv, InDiskOrder, Current
<1>3. Complete = WholeIn(disk, lens) /\ Begun = BegunIn(disk)
  BY DEF Complete, Begun, WholeIn, BegunIn, Current
<1>4. SubSeq(disk, 1, Len(disk)) = disk
  BY <1>2
<1>5. SnapshotOf(disk, lens, whole')
  BY <1>1, <1>2, <1>3 DEF SnapshotOf
<1>6. whole'.records \subseteq 1..Current /\ whole'.parts \subseteq 1..Current
  BY <1>1, <1>2 DEF Complete, Begun, Framed, Current
<1>7. told' = Nothing
  BY <1>1 DEF ReaderInv
<1>8. SubSeq(disk', 1, size') = disk /\ lens' = lens /\ rpc' = "sized"
  BY <1>1, <1>4
<1>9. OutcomeOf(told', whole', lens')
  BY <1>7 DEF OutcomeOf, Nothing
<1>10. whole'.records \subseteq 1..Current' /\ whole'.parts \subseteq 1..Current'
  BY <1>2, <1>6
<1>. QED BY <1>5, <1>7, <1>8, <1>9, <1>10 DEF ReaderInv

LEMMA ReadAllKeeps ==
  ASSUME FileIInv, ReaderInv, ReadAll
  PROVE  ReaderInv'
<1>1. /\ rpc = "sized" /\ rpc' = "parsing" /\ vec' = SubSeq(disk, 1, size)
      /\ off' = 0 /\ list' = <<>> /\ UNCHANGED <<disk, lens, size, told, whole>>
      /\ Current' = Current
  BY DEF ReadAll, writer, Current
<1>2. SnapshotOf(vec', lens, whole) /\ told = Nothing
  BY <1>1 DEF ReaderInv
<1>3. AtRecord(vec', 0, <<>>, lens, whole)
  <2>1. ASSUME 0 < Len(vec') PROVE vec'[0 + 1][2] = 1
    <3>1. PICK x \in 1..Len(vec') : x = 1
      BY <1>2, <2>1 DEF SnapshotOf
    <3>2. vec'[x][2] \in Nat /\ vec'[x][2] <= x /\ vec'[x][2] \in 1..(Header + lens[vec'[x][1]])
      BY <1>2 DEF SnapshotOf, Framed, Word
    <3>3. PICK t \in Nat : t = vec'[x][2]
      BY <3>2
    <3>4. t <= 1 /\ 1 <= t
      BY <3>1, <3>2, <3>3
    <3>. QED BY <3>1, <3>3, <3>4
  <2>2. Len(<<>>) = 0 /\ 1..0 = {}
    OBVIOUS
  <2>. QED BY <2>1, <2>2 DEF AtRecord
<1>. QED BY <1>1, <1>2, <1>3 DEF ReaderInv, ParseOf

(* An iteration of from_disk.                                              *)
LEMMA NextRecordKeeps ==
  ASSUME FileIInv, ReaderInv, NextRecord
  PROVE  ReaderInv'
<1>1. /\ rpc = "parsing" /\ Rest > 0 /\ Wellformed /\ off' = off + Header + Announced
      /\ list' = Append(list, FileRecord(vec[off + 2], SubSeq(vec, off + Header + 1, off')))
      /\ UNCHANGED <<disk, lens, rpc, size, vec, told, whole>> /\ Current' = Current
  BY DEF NextRecord, writer, Current
<1>2. /\ vec \in Seq(Word) /\ lens \in Seq(Nat) /\ off \in Nat /\ off <= Len(vec)
      /\ list \in Seq(RecordType) /\ Len(vec) \in Nat
      /\ \A i \in 1..Len(vec) : vec[i][1] \in 1..Current /\ lens[vec[i][1]] \in Nat
  BY LensNat, SMTT(20) DEF FileIInv, FileTypes
<1>3. /\ SnapshotOf(vec, lens, whole) /\ Framed(vec, lens)
      /\ ParseOf(vec, off, list, lens, whole)
  BY <1>1 DEF ReaderInv, SnapshotOf
<1>4. /\ off + 4 \in 1..Len(vec) /\ off < Len(vec) /\ off + Header <= Len(vec)
      /\ vec[off + 1][2] = 1 /\ vec[off + Header][2] = 4 /\ vec[off + 4][2] = 4
      /\ Announced <= Len(vec) - off - 4
  BY <1>1, <1>2 DEF Wellformed, Rest, Has, Header
<1>5. PICK r \in Nat : r = vec[off + 4][1] /\ lens[r] = Announced /\ lens[r] \in Nat
  <2>1. vec[off + 4][1] \in 1..Current /\ lens[vec[off + 4][1]] \in Nat /\ Current \in Nat
    BY <1>2, <1>4, LensNat DEF FileIInv
  <2>. QED BY <2>1 DEF Announced
<1>6. \A k \in 1..4 : vec[off + k] = <<r, k>>
  BY <1>2, <1>3, <1>4, <1>5, HeaderAt
<1>7. ASSUME Known(whole, lens)
      PROVE  AtRecord(vec, off', list', lens, whole) \/ Astray(vec, off', whole)
  <2>1. ~Astray(vec, off, whole)
    BY <1>4 DEF Astray
  <2>2. AtRecord(vec, off, list, lens, whole)
    BY <1>3, <1>7, <2>1 DEF ParseOf
  <2>3. CASE r \in whole.records
    <3>1. vec[off + 1] = <<r, 1>> /\ vec[off + 2] = <<r, 2>>
      BY <1>6
    <3>2. AtRecord(vec, off + Header + lens[r],
                   Append(list, FileRecord(<<r, 2>>, SubSeq(vec, off + Header + 1, off + Header + lens[r]))),
                   lens, whole)
      BY <1>2, <1>3, <1>4, <2>2, <2>3, <3>1, NextWhole
    <3>. QED BY <1>1, <1>5, <3>1, <3>2
  <2>4. CASE r \notin whole.records
    <3>1. PICK h \in 1..Len(vec) : h = off + 4
      BY <1>4
    <3>2. PICK e \in 1..Len(vec) : e = h + lens[r]
      <4>1. lens[r] <= Len(vec) - off - 4
        BY <1>4, <1>5
      <4>2. h + lens[r] \in 1..Len(vec)
        BY <1>2, <1>5, <3>1, <4>1
      <4>. QED BY <4>2
    <3>3. vec[h] = <<r, Header>>
      BY <1>6, <3>1 DEF Header
    <3>4. Astray(vec, e, whole)
      BY <1>2, <1>3, <1>7, <2>4, <3>2, <3>3, TornRecord
    <3>5. off' = e
      BY <1>1, <1>2, <1>5, <3>1, <3>2 DEF Header
    <3>. QED BY <3>4, <3>5
  <2>. QED BY <2>3, <2>4
<1>. QED BY <1>1, <1>3, <1>7 DEF ReaderInv, ParseOf

(* The end of from_disk with the list.                                     *)
LEMMA ReturnedKeeps ==
  ASSUME FileIInv, ReaderInv, Returned
  PROVE  ReaderInv'
<1>1. /\ rpc = "parsing" /\ Rest = 0 /\ rpc' = "idle" /\ told' = Listed(list)
      /\ UNCHANGED <<lens, whole>> /\ Current' = Current
  BY DEF Returned, ReadEnds, writer, Current
<1>2. /\ vec \in Seq(Word) /\ off \in Nat /\ off = Len(vec)
  BY <1>1 DEF FileIInv, FileTypes, Rest
<1>3. SnapshotOf(vec, lens, whole) /\ ParseOf(vec, off, list, lens, whole)
  BY <1>1 DEF ReaderInv
<1>4. /\ told'.kind = "listed" /\ told'.list = list
  BY <1>1 DEF Listed
<1>5. ASSUME Known(whole, lens)
      PROVE  whole.parts = {} /\ ListsOf(list, whole.records, lens)
  <2>1. AtRecord(vec, off, list, lens, whole)
    BY <1>2, <1>3, <1>5 DEF ParseOf, Astray
  <2>2. \A j \in 1..Len(vec) : vec[j][1] \in whole.records
                               /\ \E i \in 1..Len(list) : list[i].id[1] = vec[j][1]
    BY <1>2, <2>1 DEF AtRecord
  <2>3. whole.records = WholeIn(vec, lens) /\ whole.parts = BegunIn(vec) \ WholeIn(vec, lens)
    BY <1>3 DEF SnapshotOf
  <2>4. whole.parts = {}
    BY <2>2, <2>3 DEF BegunIn
  <2>5. ASSUME NEW r \in whole.records
        PROVE  \E i \in 1..Len(list) : list[i].id[1] = r
    <3>1. PICK j \in 1..Len(vec) : vec[j] = <<r, Header + lens[r]>>
      BY <2>3, <2>5 DEF WholeIn, RangeOf
    <3>2. vec[j][1] = r
      BY <3>1
    <3>. QED BY <2>2, <3>2
  <2>. QED BY <2>1, <2>4, <2>5 DEF AtRecord, ListsOf
<1>6. OutcomeOf(told', whole, lens)
  BY <1>4, <1>5 DEF OutcomeOf
<1>. QED BY <1>1, <1>6 DEF ReaderInv

(* An exception: only a part of a record is not well formed.               *)
LEMMA MalformedKeeps ==
  ASSUME FileIInv, ReaderInv, Malformed
  PROVE  ReaderInv'
<1>1. /\ rpc = "parsing" /\ Rest > 0 /\ ~Wellformed /\ rpc' = "idle" /\ told' = Thrown
      /\ UNCHANGED <<lens, whole>> /\ Current' = Current
  BY DEF Malformed, ReadEnds, writer, Current
<1>2. /\ vec \in Seq(Word) /\ lens \in Seq(Nat) /\ off \in Nat /\ off < Len(vec)
      /\ list \in Seq(RecordType) /\ Len(vec) \in Nat
  BY <1>1, LensNat DEF FileIInv, FileTypes, Rest
<1>3. SnapshotOf(vec, lens, whole) /\ ParseOf(vec, off, list, lens, whole)
  BY <1>1 DEF ReaderInv
<1>4. ASSUME Known(whole, lens), whole.parts = {}
      PROVE  FALSE
  <2>1. AtRecord(vec, off, list, lens, whole)
    BY <1>3, <1>4 DEF ParseOf, Astray
  <2>2. PICK x \in 1..Len(vec) : x = off + 1
    BY <1>2
  <2>3. PICK r \in Nat : r = vec[x][1]
    BY <1>2, <1>3, FramedWords DEF SnapshotOf
  <2>4. vec[off + 1] = <<r, 1>>
    <3>1. vec[x][2] = 1
      BY <1>2, <2>1, <2>2 DEF AtRecord
    <3>2. vec[x] \in Nat \X Nat
      BY <1>2 DEF Word
    <3>. QED BY <2>2, <2>3, <3>1, <3>2
  <2>5. r \in whole.records
    <3>1. whole.records = WholeIn(vec, lens) /\ whole.parts = BegunIn(vec) \ WholeIn(vec, lens)
      BY <1>3 DEF SnapshotOf
    <3>2. r \in BegunIn(vec)
      BY <2>3 DEF BegunIn
    <3>. QED BY <1>4, <3>1, <3>2
  <2>7. lens[r] \in Nat
    <3>1. r \in 1..Len(lens)
      BY <1>3, <2>5 DEF SnapshotOf, WholeIn
    <3>. QED BY <1>2, <3>1
  <2>6. /\ off + Header + lens[r] <= Len(vec)
        /\ \A k \in 1..4 : vec[off + k] = <<r, k>>
    <3>1. r \in WholeIn(vec, lens) /\ vec[off + 1][1] = r /\ vec[off + 1][2] = 1
      BY <1>3, <2>4, <2>5 DEF SnapshotOf
    <3>2. /\ off + Header + lens[r] <= Len(vec)
          /\ \A k \in 1..(Header + lens[r]) : vec[off + k] = <<r, k>>
      BY <1>2, <1>3, <3>1, WholeRecord DEF SnapshotOf
    <3>3. \A k \in 1..4 : k \in 1..(Header + lens[r])
      BY <2>7 DEF Header
    <3>. QED BY <3>2, <3>3
  <2>8. /\ vec[off + 1][2] = 1 /\ vec[off + 3][2] = 3 /\ vec[off + 4][2] = 4
        /\ vec[off + 4][1] = r
    BY <2>6
  <2>9. Wellformed
    <3>1. Announced = lens[r]
      BY <2>8 DEF Announced
    <3>2. Rest >= Header /\ Announced <= Rest - Header
      <4>1. PICK n \in Nat : n = lens[r]
        BY <2>7
      <4>2. off + 4 + n <= Len(vec)
        BY <2>6, <4>1 DEF Header
      <4>. QED BY <1>2, <3>1, <4>1, <4>2, SMTT(20) DEF Rest, Header
    <3>. QED BY <2>8, <3>2 DEF Wellformed, Has
  <2>. QED BY <1>1, <2>9
<1>5. OutcomeOf(told', whole, lens)
  BY <1>1, <1>4 DEF OutcomeOf
<1>. QED BY <1>1, <1>5 DEF ReaderInv

LEMMA ReaderKeeps == FileIInv /\ ReaderInv /\ [FileNext]_fileVars => ReaderInv'
<1>. SUFFICES ASSUME FileIInv, ReaderInv, [FileNext]_fileVars PROVE ReaderInv'
  OBVIOUS
<1>1. CASE Writer
  <2>1. FileIInv' /\ Grown
    BY <1>1, WriterKeeps
  <2>2. UNCHANGED reader
    BY <1>1 DEF Writer, Start, Open, Reopen, Write, SyncPart, Sync, Flush, Close, Full, Unwind,
                WriterKilled
  <2>3. lens' \in Seq(Nat)
    BY <2>1, SeqOfNat DEF FileIInv, FileTypes
  <2>. QED BY <2>1, <2>2, <2>3, ReaderKept DEF FileIInv
<1>2. CASE ReadOpen
  <2>1. /\ rpc' = "opened" /\ told' = Nothing /\ UNCHANGED whole /\ Current' = Current
    BY <1>2 DEF ReadOpen, writer, Current
  <2>. QED BY <2>1 DEF ReaderInv, OutcomeOf, Nothing
<1>3. CASE Size
  BY <1>3, SizeKeeps
<1>4. CASE ReadAll
  BY <1>4, ReadAllKeeps
<1>5. CASE NextRecord
  BY <1>5, NextRecordKeeps
<1>6. CASE Returned
  BY <1>6, ReturnedKeeps
<1>7. CASE Malformed
  BY <1>7, MalformedKeeps
<1>8. CASE UNCHANGED fileVars
  <2>1. FileTypes /\ Grown /\ lens' \in Seq(Nat) /\ UNCHANGED reader
    BY <1>8, FileKept, LensNat DEF fileVars, writer, FileIInv
  <2>. QED BY <2>1, ReaderKept
<1>. QED BY <1>1, <1>2, <1>3, <1>4, <1>5, <1>6, <1>7, <1>8 DEF FileNext, Reader

(* The invariant the others follow from, for every set of record lengths   *)
(* and any number of records and reads.                                    *)
THEOREM FileInvariance == FileSpec => []FileIInv
<1>1. FileIInv /\ [FileNext]_fileVars => FileIInv'
  BY WriterKeeps, ReaderTypes DEF FileNext
<1>. QED BY <1>1, FileStart, PTL DEF FileSpec

(* The file only grows, so that size() never promises the reader too much; *)
(* only records made are on disk, and none that was torn was ever done.    *)
THEOREM FileTypeCorrect == FileSpec => []FileTypeOK
<1>1. FileIInv => FileTypeOK
  <2>. SUFFICES ASSUME FileIInv PROVE FileTypeOK
    OBVIOUS
  <2>. USE DEF FileIInv
  <2>1. Begun \subseteq 1..Current
    BY Sorted DEF Begun, DiskInv
  <2>2. RangeOf(buffer) \subseteq {Current} \X Nat
    <3>1. CASE buffer = <<>>
      BY <3>1 DEF RangeOf
    <3>2. CASE buffer # <<>>
      <4>1. PICK k \in 0..Len(disk) : CutAt(k)
        BY <3>2 DEF HandingInv, Handing
      <4>2. \A i \in 1..Len(buffer) : k + i \in Nat /\ buffer[i] = <<Current, k + i>>
        <5>1. \A i \in 1..Len(buffer) : k + i \in Nat
          OBVIOUS
        <5>. QED BY <4>1, <5>1 DEF CutAt
      <4>3. \A i \in Nat : <<Current, i>> \in {Current} \X Nat
        OBVIOUS
      <4>4. \A i \in 1..Len(buffer) : buffer[i] \in {Current} \X Nat
        BY <4>2, <4>3
      <4>. QED BY <4>4 DEF RangeOf
    <3>. QED BY <3>1, <3>2
  <2>3. torn \cap RangeOf(done) = {}
    BY DEF DoneInv
  <2>. QED BY <2>1, <2>2, <2>3 DEF FileTypes, FileTypeOK, InAppend
<1>. QED BY <1>1, FileInvariance, PTL

(* What append has returned for is in the file, word for word and in the   *)
(* order of the appends, wherever the stream cut its writes, the device    *)
(* was full or the process was killed.                                     *)
THEOREM DoneStored == FileSpec => []DoneIsStored
<1>1. FileIInv => DoneIsStored
  <2>. SUFFICES ASSUME FileIInv, NEW k \in 1..Len(done)
                PROVE  \E at \in Offsets(done[k]) :
                         \A j \in 1..(k - 1) : \A o \in Offsets(done[j]) : o < at
    BY DEF DoneIsStored
  <2>. USE DEF FileIInv
  <2>1. PICK at : at \in Offsets(done[k])
    BY DEF DoneInv, DoneOnDisk
  <2>2. ASSUME NEW j \in 1..(k - 1), NEW o \in Offsets(done[j])
        PROVE  o < at
    <3>1. j \in 1..Len(done) /\ j < k
      BY DEF FileTypes
    <3>2. done[j] \in 1..Current /\ done[k] \in 1..Current /\ done[j] < done[k]
      BY <3>1 DEF DoneInv, DoneOnDisk
    <3>3. Stands(disk, lens[done[j]], done[j], o) /\ Stands(disk, lens[done[k]], done[k], at)
      BY <2>1, <2>2, <3>2, OffsetOf
    <3>4. /\ lens[done[j]] \in Nat /\ lens[done[k]] \in Nat /\ Len(disk) \in Nat
          /\ Current \in Nat
      <4>1. Current \in Nat /\ \A r \in 1..Current : lens[r] \in Nat
        BY LensNat
      <4>2. Len(disk) \in Nat
        BY DEF FileTypes
      <4>. QED BY <3>2, <4>1, <4>2
    <3>5. /\ o \in Nat /\ o + 1 \in 1..Len(disk) /\ disk[o + 1] = <<done[j], 1>>
          /\ at \in Nat /\ at + 1 \in 1..Len(disk) /\ disk[at + 1] = <<done[k], 1>>
      <4>1. 1 \in 1..(Header + lens[done[j]]) /\ 1 \in 1..(Header + lens[done[k]])
        BY <3>4 DEF Header
      <4>2. disk[o + 1] = <<done[j], 1>> /\ disk[at + 1] = <<done[k], 1>>
        BY <3>3, <4>1 DEF Stands
      <4>3. /\ o \in Nat /\ o + Header + lens[done[j]] <= Len(disk)
            /\ at \in Nat /\ at + Header + lens[done[k]] <= Len(disk)
        BY <3>3 DEF Stands
      <4>4. \A a, l \in Nat : a + Header + l <= Len(disk) => a + 1 \in 1..Len(disk)
        <5>1. Len(disk) \in Nat
          BY <3>4
        <5>. QED BY <5>1 DEF Header
      <4>. QED BY <3>4, <4>2, <4>3, <4>4, Zenon
    <3>6. disk[o + 1][1] = done[j] /\ disk[at + 1][1] = done[k]
      BY <3>5
    <3>7. ~(at + 1 <= o + 1)
      BY <3>2, <3>4, <3>5, <3>6, Sorted DEF DiskInv
    <3>. QED BY <3>5, <3>7
  <2>. QED BY <2>1, <2>2
<1>. QED BY <1>1, FileInvariance, PTL

(* A read gives exactly the records that were whole when it took the size, *)
(* with their ids and data and in their order, or throws when the file     *)
(* held a part of one, whatever the writer does meanwhile, for any number  *)
(* of records, when the part is Recognisable.                              *)
THEOREM ReadOutcomeHolds == FileSpec => []ReadOutcome
<1>1. ReaderInv => ReadOutcome
  BY DEF ReaderInv, ReadOutcome, OutcomeOf, Known, Recognisable, ListsOf, Lists
<1>. QED BY <1>1, ReaderStart, ReaderKeeps, FileInvariance, PTL DEF FileSpec
=============================================================================
