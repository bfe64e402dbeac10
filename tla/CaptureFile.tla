----------------------------- MODULE CaptureFile -----------------------------
(***************************************************************************)
(* The capture file: ncap_t::append over output_file_t on the side of      *)
(* otfta_raw, ncap_t::read over file_t and from_disk on the side of        *)
(* decoder_t, two processes on one file.  Between any two calls of the     *)
(* writer the C++ stream may hand part of its buffer to the system, the    *)
(* device may be full, the process may be killed; the reader may come at   *)
(* any time.                                                               *)
(*                                                                         *)
(* A file is a sequence of words <<r, i>>, the i-th 8 byte word of the     *)
(* r-th record: words 1 to 4 are magic, id, type and length, the others    *)
(* the data.  The sample data is taken never to look like a header.        *)
(***************************************************************************)
EXTENDS Naturals, Sequences

CONSTANTS
  Lengths,    \* lengths of the records' data, in words
  MaxRecords, \* bound: how many records are made
  MaxReads    \* bound: how many reads are begun

ASSUME FileConstants ==
  Lengths \subseteq Nat /\ MaxRecords \in Nat /\ MaxReads \in Nat

VARIABLES
  disk,    \* what the system has of the file
  lens,    \* the data lengths of the records made so far
  wpc,     \* the writer: where it is in append, or "off"
  buffer,  \* what its stream has not handed to the system
  done,    \* the records whose append has returned, in that order
  torn,    \* records of which only a part will ever be on disk
  rpc,     \* the reader: where it is in ncap_t::read
  size,    \* file_base_t::size()
  vec,     \* what it has read
  off,     \* from_disk: where it is in that
  list,    \* and the records it has found
  told,    \* what the last read gave: Nothing, Thrown or Listed(..)
  whole,   \* what the file consisted of when its size was taken
  reads

writer == <<disk, lens, wpc, buffer, done, torn>>
reader == <<rpc, size, vec, off, list, told, whole, reads>>
fileVars == <<writer, reader>>

Header == 4
Words(r, n)  == [i \in 1..n |-> <<r, i>>]
Data(r, len) == [i \in 1..len |-> <<r, Header + i>>]
RangeOf(s)   == { s[i] : i \in 1..Len(s) }
Nothing == [kind |-> "nothing", list |-> <<>>]
Thrown  == [kind |-> "thrown", list |-> <<>>]
Listed(l) == [kind |-> "listed", list |-> l]
FileRecord(id, data) == [id |-> id, data |-> data]
-----------------------------------------------------------------------------
(* to_disk.                                                                *)
ToDisk(r, len) == Words(r, Header + len)
-----------------------------------------------------------------------------
(* The writer.                                                             *)
Current == Len(lens)

(* The stream hands any part of its buffer to the system, in order.  write *)
(* and flush do it when they have to, the system may also take less.       *)
Handed(k) ==
  /\ disk' = disk \o SubSeq(buffer, 1, k)
  /\ buffer' = SubSeq(buffer, k + 1, Len(buffer))

Start ==
  /\ wpc = "off" /\ wpc' = "capturing"
  /\ UNCHANGED <<disk, lens, buffer, done, torn, reader>>

(* output_file_t f(n, m): opened for appending.                            *)
Open ==
  /\ wpc = "capturing" /\ Current < MaxRecords
  /\ \E n \in Lengths : lens' = Append(lens, n)
  /\ wpc' = "opened"
  /\ UNCHANGED <<disk, buffer, done, torn, reader>>

(* f.open(n, m): int_open flushes and closes the open file and opens it    *)
(* again.                                                                  *)
ReopenTruncating ==                                              \* mutant
  /\ wpc = "opened" /\ wpc' = "reopened"
  /\ disk' = <<>>
  /\ UNCHANGED <<lens, buffer, done, torn, reader>>
Reopen ==
  /\ wpc = "opened" /\ wpc' = "reopened"
  /\ UNCHANGED <<disk, lens, buffer, done, torn, reader>>

(* f.write(v): what does not fit in the buffer goes to the system.         *)
Write ==
  /\ wpc = "reopened" /\ wpc' = "written"
  /\ LET v == ToDisk(Current, lens[Current])
     IN  \E k \in 0..Len(v) :
           /\ disk' = disk \o SubSeq(v, 1, k)
           /\ buffer' = SubSeq(v, k + 1, Len(v))
  /\ UNCHANGED <<lens, done, torn, reader>>

(* f.sync() and f.flush() hand over the rest, in one or more calls of the  *)
(* system, before they return true.                                        *)
SyncPart ==
  /\ wpc = "written" /\ buffer # <<>>
  /\ \E k \in 1..(Len(buffer) - 1) : Handed(k)
  /\ UNCHANGED <<lens, wpc, done, torn, reader>>
SyncLater ==                                                     \* mutant
  /\ wpc = "written"
  /\ wpc' = "synced"
  /\ UNCHANGED <<disk, buffer, lens, done, torn, reader>>
Sync ==
  /\ wpc = "written"
  /\ Handed(Len(buffer)) /\ wpc' = "synced"
  /\ UNCHANGED <<lens, done, torn, reader>>
Flush ==
  /\ wpc = "synced" /\ wpc' = "flushed"
  /\ UNCHANGED <<disk, lens, buffer, done, torn, reader>>
Close ==
  /\ wpc = "flushed" /\ wpc' = "capturing"
  /\ done' = Append(done, Current)
  /\ UNCHANGED <<disk, lens, buffer, torn, reader>>

(* The record being written when the writer goes away: what is not yet     *)
(* with the system is lost.                                                *)
Cut ==
  LET some == \E i \in 1..Len(disk) : disk[i][1] = Current
      all  == \E i \in 1..Len(disk) : disk[i] = <<Current, Header + lens[Current]>>
  IN  IF Current > 0 /\ some /\ ~all THEN {Current} ELSE {}

(* The device is full: write or sync fails, append throws, the destructor  *)
(* of the file hands over what it still can and the capture ends.          *)
Full ==
  /\ wpc = "written" /\ buffer # <<>>
  /\ wpc' = "failed"
  /\ UNCHANGED <<disk, lens, buffer, done, torn, reader>>
Unwind ==
  /\ wpc = "failed" /\ wpc' = "off"
  /\ \E k \in 0..Len(buffer) : disk' = disk \o SubSeq(buffer, 1, k)
  /\ buffer' = <<>>
  /\ UNCHANGED <<lens, done, reader>>
  /\ torn' = torn \cup Cut'

(* The process is killed.                                                  *)
WriterKilled ==
  /\ wpc # "off" /\ wpc' = "off"
  /\ buffer' = <<>>
  /\ torn' = torn \cup Cut
  /\ UNCHANGED <<disk, lens, done, reader>>

Writer ==
  \/ Start \/ Open \/ Reopen \/ Write \/ SyncPart \/ Sync \/ Flush \/ Close
  \/ Full \/ Unwind \/ WriterKilled
-----------------------------------------------------------------------------
(* The reader.                                                             *)
ReadOpen ==
  /\ rpc = "idle" /\ reads < MaxReads
  /\ rpc' = "opened" /\ reads' = reads + 1 /\ told' = Nothing
  /\ UNCHANGED <<writer, size, vec, off, list, whole>>

(* m_file.size(): seeks to the end and back.  `whole' remembers which      *)
(* records were all there and of which there was only a part.              *)
Complete == { r \in 1..Current : <<r, Header + lens[r]>> \in RangeOf(disk) }
Begun  == { disk[i][1] : i \in 1..Len(disk) }
Size ==
  /\ rpc = "opened" /\ rpc' = "sized"
  /\ size' = Len(disk)
  /\ whole' = [records |-> Complete, parts |-> Begun \ Complete]
  /\ UNCHANGED <<writer, vec, off, list, told, reads>>

(* m_file.read of that many bytes.                                         *)
ReadAll ==
  /\ rpc = "sized" /\ rpc' = "parsing"
  /\ vec' = SubSeq(disk, 1, size) /\ off' = 0 /\ list' = <<>>
  /\ UNCHANGED <<writer, size, told, whole, reads>>

(* An iteration of from_disk takes a header and the data it announces.  A  *)
(* word that is no length field stands for a length that is too large.     *)
Rest       == Len(vec) - off
Has(n, i)  == vec[off + n][2] = i
Announced  == lens[vec[off + 4][1]]

Wellformed ==
  /\ Rest >= Header                                          \* "(Min)"
  /\ Has(1, 1)                                               \* "(Magic)"
  /\ Has(3, 3)                                               \* "(Type)"
  /\ Has(4, 4) /\ Announced <= Rest - Header                 \* "(Length)"

NextRecord ==
  /\ rpc = "parsing" /\ Rest > 0 /\ Wellformed
  /\ off' = off + Header + Announced
  /\ list' = Append(list, FileRecord(vec[off + 2], SubSeq(vec, off + Header + 1, off')))
  /\ UNCHANGED <<writer, rpc, size, vec, told, whole, reads>>

(* read returns what from_disk returns, or throws what it throws.          *)
ReadEnds(outcome) ==
  /\ rpc' = "idle" /\ told' = outcome
  /\ vec' = <<>> /\ off' = 0 /\ list' = <<>>
  /\ UNCHANGED <<writer, size, whole, reads>>
Returned == rpc = "parsing" /\ Rest = 0 /\ ReadEnds(Listed(list))
MalformedSkipped ==                                              \* mutant
  /\ rpc = "parsing" /\ Rest > 0 /\ ~Wellformed
  /\ ReadEnds(Listed(list))
Malformed ==
  /\ rpc = "parsing" /\ Rest > 0 /\ ~Wellformed
  /\ ReadEnds(Thrown)

Reader == ReadOpen \/ Size \/ ReadAll \/ NextRecord \/ Returned \/ Malformed
-----------------------------------------------------------------------------
FileInit ==
  /\ disk = <<>> /\ lens = <<>> /\ wpc = "off" /\ buffer = <<>>
  /\ done = <<>> /\ torn = {}
  /\ rpc = "idle" /\ size = 0 /\ vec = <<>> /\ off = 0 /\ list = <<>>
  /\ told = Nothing /\ reads = 0
  /\ whole = [records |-> {}, parts |-> {}]

FileNext == Writer \/ Reader

FileSpec == FileInit /\ [][FileNext]_fileVars
-----------------------------------------------------------------------------
(* Types: the file only grows, so what size() said is there to be read,    *)
(* and a record is torn only when its append never returned.               *)
FileTypeOK ==
  /\ lens \in Seq(Lengths) /\ Current <= MaxRecords
  /\ Begun \subseteq 1..Current /\ RangeOf(buffer) \subseteq {Current} \X Nat
  /\ wpc \in {"off", "capturing", "opened", "reopened", "written", "synced",
              "flushed", "failed"}
  /\ rpc \in {"idle", "opened", "sized", "parsing"}
  /\ off <= Len(vec) /\ Len(vec) <= size /\ size <= Len(disk) /\ reads <= MaxReads
  /\ torn \cap RangeOf(done) = {}

(* What ncap_t::append returned for is in the file, word for word and in   *)
(* the order of the appends, whatever happens afterwards: the process      *)
(* killed between any two calls, the device full, a capture begun again    *)
(* behind a record torn by either.                                         *)
At(r, o)   == SubSeq(disk, o + 1, o + Header + lens[r]) = ToDisk(r, lens[r])
Offsets(r) == { o \in 0..(Len(disk) - Header - lens[r]) : At(r, o) }
DoneIsStored ==
  \A k \in 1..Len(done) :
    \E o \in Offsets(done[k]) :
      \A j \in 1..(k - 1) : \A p \in Offsets(done[j]) : p < o

(* A read that comes while the file is being written, or after a record of *)
(* it was torn, gives exactly the records that were whole when size() was  *)
(* taken, in their order and with their data, or throws when there was a   *)
(* part of one anywhere: from_disk never takes the part for a record, nor  *)
(* one record for another.  It holds for one part, of a record that is not *)
(* longer by a header than one behind it: from_disk knows a record by its  *)
(* length only, and what follows two parts, or a part of a longer record,  *)
(* can fit.                                                                *)
Recognisable ==
  /\ \A p, q \in whole.parts : p = q
  /\ \A p \in whole.parts, r \in whole.records : p < r => lens[p] < Header + lens[r]
Lists(l, R) ==
  /\ \A i \in 1..Len(l) : \E r \in R : l[i] = FileRecord(<<r, 2>>, Data(r, lens[r]))
  /\ \A i, j \in 1..Len(l) : i < j => l[i].id[1] < l[j].id[1]
  /\ \A r \in R : \E i \in 1..Len(l) : l[i].id[1] = r
ReadOutcome ==
  told.kind # "nothing" /\ Recognisable =>
    IF whole.parts = {}
    THEN told.kind = "listed" /\ Lists(told.list, whole.records)
    ELSE told = Thrown
=============================================================================
