------------------------------ MODULE RawSniff ------------------------------
(***************************************************************************)
(* The raw capture: raw_otfta in the Proxmark firmware, pm3_t::otfta_raw   *)
(* and ncap_t::append on the host, and the capture file.                   *)
(*                                                                         *)
(* raw_otfta collects the activity of completed DMA buffers in dmatwo and  *)
(* writes a full dmatwo to the host, one UsbCommand frame per block of     *)
(* USB_CMD_DATA_SIZE bytes; otfta_raw groups the frames into ncap records. *)
(* Samples are abstracted to counts of blocks, a frame to the index of the *)
(* block it carries, a record to the indices of its frames.  The processes *)
(* of successive runs of nfcdump write to one file; a process may be       *)
(* killed at any point and the device unplugged and plugged in again.      *)
(***************************************************************************)
EXTENDS Integers, Sequences

CONSTANTS
  NB,        \* blocks in dmatwo: 24576 / USB_CMD_DATA_SIZE
  Activity,  \* blocks of card traffic a DMA buffer may hold
  MaxRuns    \* how often nfcdump -s is started

ASSUME SniffConstantsOK ==
  /\ NB \in Nat /\ NB >= 2
  /\ Activity \subseteq Nat
  /\ MaxRuns \in Nat

VARIABLES
  fw,      \* where the firmware is: AppMain's loop or raw_otfta
  idx,     \* dma_idx, in blocks
  held,    \* does dmatwo hold anything but filler?
  blk,     \* the block copy_dma is at
  in,      \* the frame in usb_write: <<its block>>, or << >>
  pc,      \* where the host process is
  link,    \* does its USB handle refer to the plugged-in device?
  run,     \* which run of nfcdump it is
  id,      \* otfta_raw's i, the next record's id
  rec,     \* the frames in otfta_raw's vec
  len,     \* vec.size()
  max,     \* the size at which the record is complete
  file     \* the records of the capture file

fwVars   == <<fw, idx, held, blk>>
hostVars == <<pc, link, run, id, rec, len, max, file>>
vars     == <<fwVars, in, hostVars>>

USB_CMD_DSIZE == 512
-----------------------------------------------------------------------------
(* The firmware.                                                           *)

(* AppMain reads CMD_OTFTA_RAW_SNIFF and enters raw_otfta, for good.       *)
FwEnter ==
  /\ fw = "poll" /\ pc = "xmit" /\ link
  /\ fw' = "scan" /\ idx' = 0 /\ held' = FALSE
  /\ pc' = "outer"
  /\ UNCHANGED <<blk, in, link, run, id, rec, len, max, file>>

(* A DMA buffer with n blocks of traffic has completed.  While dmatwo has  *)
(* room, otfta_get_bytes appends what fits; the buffer is then cleared.    *)
CollectedUnclamped(n) == n                                       \* mutant
Collected(n) == IF n <= NB - idx THEN n ELSE NB - idx

FwCollect(n) ==
  /\ fw = "scan" /\ idx # NB
  /\ idx' = idx + Collected(n)
  /\ held' = (held \/ Collected(n) > 0)
  /\ UNCHANGED <<fw, blk, in, hostVars>>

(* Once dma_idx has reached the end, the buffer is cleared unread.  dmatwo *)
(* is dumped when it holds anything; dma_idx stays where it is.            *)
FwFull ==
  /\ fw = "scan" /\ idx = NB
  /\ fw' = IF held THEN "dump" ELSE "scan"
  /\ blk' = 0
  /\ UNCHANGED <<idx, held, in, hostVars>>

(* copy_dma: "idx < len - USB_CMD_DATA_SIZE" ends before the last block.   *)
FwSend ==
  /\ fw = "dump" /\ blk < NB - 1
  /\ in' = <<blk>> /\ fw' = "dumping"
  /\ UNCHANGED <<idx, held, blk, hostVars>>

FwSent ==
  /\ fw = "dumping" /\ in = << >>
  /\ blk' = blk + 1 /\ fw' = "dump"
  /\ UNCHANGED <<idx, held, in, hostVars>>

FwDumped ==
  /\ fw = "dump" /\ blk >= NB - 1
  /\ fw' = "scan" /\ held' = FALSE
  /\ UNCHANGED <<idx, blk, in, hostVars>>

FwCopy   == FwSend \/ FwSent \/ FwDumped
FwTurn   == FwFull \/ \E n \in Activity : FwCollect(n)
Firmware == FwEnter \/ FwTurn \/ FwCopy
-----------------------------------------------------------------------------
(* The host process.                                                       *)

HostStart ==
  /\ pc = "off" /\ run < MaxRuns
  /\ pc' = "open" /\ link' = TRUE /\ run' = run + 1
  /\ id' = 0 /\ rec' = << >> /\ len' = 0 /\ max' = 0
  /\ UNCHANGED <<fwVars, in, file>>

(* pm3_t's constructor sets the configuration, a control transfer that the *)
(* firmware serves in AppMain's loop and while usb_write waits; raw_otfta  *)
(* collecting samples leaves it to time out, an exception.                 *)
HostConfigured ==
  /\ pc = "open" /\ link /\ fw # "scan"
  /\ pc' = "xmit"
  /\ UNCHANGED <<fwVars, in, link, run, id, rec, len, max, file>>

HostRefused ==
  /\ pc = "open" /\ link /\ fw = "scan"
  /\ pc' = "off"
  /\ UNCHANGED <<fwVars, in, link, run, id, rec, len, max, file>>

(* The outer receive: a frame opens a record.  Its arg[0], the byte offset *)
(* of its block, becomes the size the record must reach.                   *)
FirstBytesWhole == USB_CMD_DSIZE                                 \* mutant
FirstBytes == USB_CMD_DSIZE - 1 - 4

HostFirstStale ==                                                \* mutant
  /\ pc = "outer" /\ link /\ in # << >>
  /\ rec' = rec \o in /\ in' = << >>
  /\ len' = FirstBytes /\ max' = USB_CMD_DSIZE * in[1]
  /\ pc' = "inner"
  /\ UNCHANGED <<fwVars, link, run, id, file>>
HostFirstWhile ==                                                \* mutant
  /\ pc = "outer" /\ link /\ in # << >>
  /\ rec' = in /\ in' = << >>
  /\ len' = FirstBytes /\ max' = USB_CMD_DSIZE * in[1]
  /\ pc' = IF len' < max' THEN "inner" ELSE "append"
  /\ UNCHANGED <<fwVars, link, run, id, file>>
HostFirst ==
  /\ pc = "outer" /\ link /\ in # << >>
  /\ rec' = in /\ in' = << >>
  /\ len' = FirstBytes /\ max' = USB_CMD_DSIZE * in[1]
  /\ pc' = "inner"
  /\ UNCHANGED <<fwVars, link, run, id, file>>

(* The do-while loop takes one more frame at least.                        *)
HostNext ==
  /\ pc = "inner" /\ link /\ in # << >>
  /\ rec' = rec \o in /\ in' = << >>
  /\ len' = len + USB_CMD_DSIZE
  /\ pc' = IF len' < max THEN "inner" ELSE "append"
  /\ UNCHANGED <<fwVars, link, run, id, max, file>>

(* ncap_t::append: the record is a torn tail of the file until all of it   *)
(* is written.                                                             *)
Record(whole) == [id |-> id, run |-> run, frames |-> rec, whole |-> whole]

HostAppend ==
  /\ pc = "append"
  /\ file' = Append(file, Record(FALSE))
  /\ pc' = "writing"
  /\ UNCHANGED <<fwVars, in, link, run, id, rec, len, max>>

HostAppended ==
  /\ pc = "writing"
  /\ file' = [file EXCEPT ![Len(file)] = Record(TRUE)]
  /\ id' = id + 1 /\ pc' = "outer"
  /\ UNCHANGED <<fwVars, in, link, run, rec, len, max>>

(* libusb fails on a handle whose device is gone: the exception ends main, *)
(* and the frames of an unfinished record with it.                         *)
HostLost ==
  /\ pc \in {"open", "xmit", "outer", "inner"} /\ ~link
  /\ pc' = "off"
  /\ UNCHANGED <<fwVars, in, link, run, id, rec, len, max, file>>

HostRuns ==
  \/ HostConfigured \/ HostRefused
  \/ HostFirst \/ HostNext \/ HostAppend \/ HostAppended
  \/ HostLost
-----------------------------------------------------------------------------
(* The environment: nothing handles a signal, nothing survives an unplug.  *)
Kill ==
  /\ pc # "off" /\ pc' = "off"
  /\ UNCHANGED <<fwVars, in, link, run, id, rec, len, max, file>>

Replug ==
  /\ fw' = "poll" /\ idx' = 0 /\ held' = FALSE /\ blk' = 0 /\ in' = << >>
  /\ link' = FALSE
  /\ UNCHANGED <<pc, run, id, rec, len, max, file>>

Init ==
  /\ fw = "poll" /\ idx = 0 /\ held = FALSE /\ blk = 0
  /\ in = << >>
  /\ pc = "off" /\ link = FALSE /\ run = 0
  /\ id = 0 /\ rec = << >> /\ len = 0 /\ max = 0 /\ file = << >>

Next == Firmware \/ HostStart \/ HostRuns \/ Kill \/ Replug

(* The SSC clock never stops, so DMA buffers keep completing; usb_write    *)
(* and the host's blocking calls go on when the other side is there.       *)
Fairness == WF_vars(FwEnter) /\ WF_vars(FwTurn) /\ WF_vars(FwCopy) /\ WF_vars(HostRuns)

Spec == Init /\ [][Next]_vars /\ Fairness
-----------------------------------------------------------------------------
Blocks == 0..NB-1

(* Types of every variable.                                                *)
TypeOK ==
  /\ fw \in {"poll", "scan", "dump", "dumping"}
  /\ idx \in 0..NB /\ held \in BOOLEAN /\ blk \in Blocks
  /\ in \in {<< >>} \cup {<<b>> : b \in Blocks}
  /\ pc \in {"off", "open", "xmit", "outer", "inner", "append", "writing"}
  /\ link \in BOOLEAN /\ run \in 0..MaxRuns /\ id \in Nat
  /\ rec \in Seq(Blocks) /\ len \in Nat /\ max \in Nat
  /\ file \in Seq([id : Nat, run : 1..MaxRuns, frames : Seq(Blocks), whole : BOOLEAN])

(* The file holds each run's frames in the order they were sent: numbered  *)
(* records, none missing, no frame twice, lost or out of place between two *)
(* records.                                                                *)
Follows(prev, next, frame) ==
  IF prev.run = next.run
  THEN next.id = prev.id + 1 /\ frame = prev.frames[Len(prev.frames)] + 1
  ELSE next.id = 0 /\ frame = 0
FileInOrder ==
  \A k \in DOMAIN file :
    LET f == file[k].frames
        prev == IF k = 1 THEN [id |-> 0, run |-> 0, frames |-> << >>] ELSE file[k-1]
    IN  /\ Follows(prev, file[k], f[1])
        /\ \A j \in 1..Len(f)-1 : f[j+1] = f[j] + 1

(* A dump ends on a record boundary: when copy_dma has sent its last       *)
(* block, otfta_raw is not left in its inner loop waiting for more.        *)
DumpOver == fw = "scan" /\ idx = NB /\ ~held
DumpEndsRecord == DumpOver => pc # "inner"

(* A dump that a process listens to is in the file in the end, unless the  *)
(* process dies.                                                           *)
Stored == file # << >> /\ file[Len(file)].whole
          /\ file[Len(file)].run = run
          /\ file[Len(file)].frames[Len(file[Len(file)].frames)] = NB - 2
DumpStored == (fw = "dump" /\ pc \in {"outer", "inner"}) ~> (Stored \/ pc = "off")

(* What was completely written stays, whatever is appended, killed or      *)
(* unplugged later.                                                        *)
Kept ==
  \A k \in DOMAIN file :
    file[k].whole => k \in DOMAIN file' /\ file'[k] = file[k]
WrittenStays == [][Kept]_vars
=============================================================================
