# nfcdump: TLA+ models, model checking and proofs

nfcdump drives a Proxmark III over USB. This directory models the program and
the parts of the Proxmark firmware it relies on. Paths below are relative to
`src/`, the root of the repository.

## 1. The system

| part | code | state | operations |
|---|---|---|---|
| reader session | `src/pm3.cpp` `pm3_t::read14a`, `select_major`, `select_minor` | `fsm`, `m_uid`, `m_col` | one step per frame received |
| commands and frames | `inc/cmd.hpp` `cmd_*_t`, `src/otfta.cpp` `otfta_t` | the frame, NVB, partial UID | constructors, `set_uid` |
| firmware reader | `fw-mods/iso1443a.c` `ReaderIso14443aReader` | field, command | dump the command, transmit, receive, dump the answer |
| firmware raw capture | `fw-mods/iso1443a.c` `raw_otfta`, `copy_dma` | `dmaone`, `dmatwo`, `dma_idx` | collect, dump |
| host raw capture | `src/pm3.cpp` `pm3_t::otfta_raw` | the record being filled, its id | one step per frame |
| capture file | `src/ncap.cpp`, `src/file.cpp` | the file, the stream's buffer | append, sync, read back |
| host USB transport | `src/async.cpp` `async_usb_t` | handle, context, endpoints, mutex | open, claim, transmit, receive, with and without timeout |
| firmware USB driver | `fw-mods/usb_cdc.c`, `fw-mods/cmd.c` | banks, configuration | poll, read, write, enumerate |
| USB object | `src/usb.cpp` `usb_t` | handle, descriptors, mutex | open, claim, configure, transfer, close |
| capture decoder | `src/decoder.cpp`, `src/miller.cpp`, `src/manchester.cpp` | demodulator state per sample | parse |
| frame display | `src/parse.cpp`, `src/decoder.cpp` `to_string`; `src/sest.cpp`, `src/card.cpp`, `inc/apdu.hpp` | the state guessed from earlier frames | name a frame |
| other host modes | `src/pm3.cpp` version, tune, msniff; `src/main.cpp` | none | request and answers |
| stock firmware modes | `fw-mods/iso1443a.c`, `fw-mods/appmain.c` | trace, demodulators; UID, block number; emulated card | sniff, select a card, simulate one, emulate MIFARE 1K, LF |

How they interact. `main` runs one mode in one process. The host sends a
544-byte command with `async_usb_t::transmit`; `AppMain` polls, reads and
executes it to the end, and the functions it calls write 544-byte frames
(`cmd_send`, `usb_write`) which the host reads with `async_usb_t::receive`. All
four calls block and neither side has a queue: while the firmware writes it does
not read, and while the host sends it does not receive.

What is hard: the two programs advance in lock step, and everything that breaks
the step (an answer lost on the air, a command without an answer, a frame too
many) stops one of them for ever; the anticollision carries state (`m_col`,
`m_uid`) over answers and cascade levels; the raw capture turns a stream of
anonymous frames into records by counting bytes; processes are killed and devices
unplugged at any point and nothing handles either; a USB object may be closed by one
thread while another is inside libusb; the emulated card and its reader each keep a key
stream, a register and a memory the other has to agree with, over a lossy air; and what a
sniffed frame is shown as is guessed from frames that may be missing. `PROJECT.json`
lists these hazards at their lines.

What makes each part correct: the session advances with the card, sends each
command in the order ISO 14443-3/-4 requires, ends, and leaves the field off; the
capture keeps order, loses nothing it wrote, and neither program blocks the other; a
handle outlives every call that uses it and the mutex is always given back; one card is
selected, its whole UID reported and its block number kept; the emulated card answers as
the protocol says and its memory is what the reader was told; and a frame is shown as
what it is or as unknown.

## 2. Modules

| module | models | composed of |
|---|---|---|
| `PcdSession` | abstract: the order of commands in one activation | |
| `Read14a` | host session, firmware reader, cards | instantiates `PcdSession` |
| `RawSniff` | firmware capture, host capture, order of the capture file, crashes | |
| `CaptureFile` | the file word by word: append, sync, a full device, a kill, a concurrent read | |
| `FrameLink` | abstract: what the USB transport promises | |
| `UsbTransport` | packets, banks, `SET_CONFIGURATION`, killed processes | instantiates `FrameLink` |
| `UsbObject` | `usb_t` and `async_usb_t` shared by threads: mutex, handle, life cycle | |
| `Coding` | how a frame becomes sequences and modulation | |
| `Air` | reader and card in the sniffed field, sampled | extends `Coding` |
| `Demod` | the four demodulators, as functions | |
| `Decoder` | host: `decoder_t::parse` | extends `Air`, `Demod` |
| `FrameDisplay` | host: `decoder_t::to_string` and `otfta_parse_t` | |
| `Snoop` | firmware: `SnoopIso14443a`, `LogTrace` | extends `Air`, `Demod` |
| `SelectCard` | firmware as reader: `ReaderIso14443a`, `iso14443a_select_card`, `iso14_apdu`, against cards and `SimulateIso14443aTag` | |
| `Mifare1ksim` | firmware as MIFARE 1K card, against a reader | |
| `MCRead14a`, `MCRawSniff`, `MCCaptureFile`, `MCUsbTransport`, `MCUsbObject`, `MCDecoder`, `MCFrameDisplay`, `MCSnoop`, `MCSelectCard`, `MCMifare1ksim`, `Signals` | constants for TLC | extend the module they are named after (`Signals`: `Air`) |
| `Read14a_proofs`, `UsbTransport_proofs`, `UsbObject_proofs`, `Demod_proofs`, `Decoder_proofs`, `Mifare1ksim_proofs` | invariants, proved | extend the module they are named after |
| `Capture_proofs` | the same of the capture | extends `RawSniff`, `CaptureFile` |
| `Iso1443a_proofs` | the same of the reader and the sniffer in `fw-mods/iso1443a.c` | extends `Snoop`, `SelectCard` |

### Read14a

*Host.* `host` is where the process is: in `transmit`, in `receive`, returned,
or out of `read14a` with an exception. `fsm`, `mUid` (the length of `m_uid`) and
`mCol` are the code's variables. There is one action per case of the `switch`
on `fsm` for card frames and one for the echo of a command (`HostReaderDump`).
`SelectMajor` and `SelectMinor` are the two functions the cases share.
`HostDisconnect` covers both ways out of `STATE_DISCONNECT`. `STATE_XMIT_PPS` is
never assigned and is left out. `Skipped` says that the host has gone on without an
answer it ought to have waited for: `STATE_SELC_TWO` takes a SELECT that a collision cut short
for the whole one (`STATE_SELC_ONE` looks at `arg[2]` first), and `STATE_SELC_THREE` sends
RATS without having read the SAK. What is said of the order of a session ends there.

*Firmware.* `FwFetch` is `AppMain` reading a command (this is also the moment
the host's `transmit` returns); `FwDumpReader`, `FwTransmit`, `FwAnswer`,
`FwTimeout` and `FwAnswered` are the stages of `ReaderIso14443aReader` between
the points where it can block.

*Cards.* External: one card ends up selected, `rivals` others collide with it. UIDs that
agree at one level may differ at a later one (`Deeper`), so that the cards may also answer
without a collision, or with several in a row. A card answers a command only in the state
ISO 14443-3 allows, so a session that falls out of step is left without an answer.

*Abstraction.* A UID is its length, an answer its kind, length, collision
position and the SAK class of its first byte (`"any"` when the byte is not a
SAK: the host may then read any class). `SetUid` follows the arithmetic of
`seluida_t::set_uid` on lengths and on NVB; the bits of the UID are not tracked,
so a partial SELECT whose buffer is longer than the bits it announces may or may
not be answered. Debug strings and ACK frames change no state.

### RawSniff

`FwCollect`, `FwFull`, `FwSend`, `FwSent` and `FwDumped` are `raw_otfta`'s loop
and `copy_dma`. `HostFirst`, `HostNext`, `HostAppend` and `HostAppended` are
`otfta_raw`'s loops and `ncap_t::append`; between the last two the record is a
torn tail of the file. `Kill` ends the process anywhere, `Replug` resets the
device and invalidates the handle (`HostLost` is libusb's error on it), and
`HostStart` is the next `nfcdump -s` with the same file name; `pm3_t`'s
constructor sets the configuration, which the firmware serves in `AppMain` and in
`usb_write` (`HostConfigured`) but not while it collects (`HostRefused`). Samples are counted
in blocks of 512 bytes, `held` says whether `dmatwo` has anything but filler. The
sizes 507, 512 and the offset in `arg[0]`, which decide where a record ends, are
exact. What is inside a block (the four bytes that `&d.bytes[4]` skips included)
is not modelled.

### CaptureFile

The file below the order of its records: a sequence of words, each a word of a record's
header or data. The writer's steps are the calls of `ncap_t::write` (`Write`, `SyncPart`
and `Sync`, `Flush`, `Close`), between any two of which the C++ stream may hand a part of
its buffer to the system (`Handed`). `Full` is a device without room: the exception leaves
`append`, and the stream's destructor (`Unwind`) tries once more. `WriterKilled` loses the
buffer. `Start` is the next capture on the same name, behind whatever was torn; `Open` and
`Reopen` are the two times `append` opens the file, both for appending. The reader is
`ncap_t::read`: it opens the file, takes its size (`Size`), later reads that much (`ReadAll`)
and parses it, one iteration of `from_disk` per step (`NextRecord`), until nothing is left
(`Returned`) or a header does not fit (`Malformed`, the four exceptions), while the writer
goes on. `sync` is not `fsync`: a power failure is not modelled. The samples are taken never
to look like a header.

### UsbObject

`Begin` is a thread calling a member; `at` says where in it the thread is. `Enter` takes
the mutex, if the call does, and passes the handle to libusb (`hnd`); the steps out of
`"libusb"` are libusb's return with success or failure, and end in `Unlock`. `open` is
split where the code lets go of the mutex: close, list, find, `libusb_open`, reset,
descriptors, endpoints, and its `catch`. `claim_all` and `release_all` are loops of calls
that lock for themselves (`ClaimNext`, `ReleaseNext`); `transmit` and `bulk_send` send in
parts under one lock (`SendRest`), whose packets arrive in `wire`. libusb is external: it keeps the
set of open handles (`open`), fails anywhere and always returns. Both classes share the
actions, and `class` says which calls there are.

### UsbTransport and FrameLink

`HostSendPacket` and `HostReceivePacket` are one `libusb_bulk_transfer` of
`transmit` and `receive`; `FwReadPacket` and `FwTimeout` are `usb_read`'s loop,
`FwWriteFirst` and `FwWriteNext` `usb_write`'s, `FwPoll` and `FwRun` `AppMain`'s.
`banks` holds what the host has had accepted and `usb_read` has not read; the two
banks alternate on both sides, so a queue of length two stands for them and for
`btReceiveBank`. `FwConfigure` is `usb_check` serving the `SET_CONFIGURATION` that
opens every process; it drops the flags of both endpoints. The clients are those of
this repository: they send a command, receive its answers and only then send the
next, and a command without an answer (disconnect) is the last. Two assumptions
about time are guards: a process takes longer to start than `usb_read` to time
out, and, unless `Stalls`, `transmit` is faster than that time-out.

`FrameLink` is the rendezvous of whole frames that `Read14a` and `RawSniff` are
built on: a command is read by the firmware when it is complete, a frame is taken
as a whole, a dying process leaves at most the beginning of a command, and a new
process that finds a frame being written finds the link jammed. That a jam, and
not a stale answer, is the outcome depends on a command being longer than the two
banks: a new process cannot finish `transmit` before the firmware reads.

Left out: the control requests besides `SET_CONFIGURATION`, bus reset, and the window
between reading and writing `UDP_CSR`.

### Coding, Air and Demod

What the sniffer sees is *generated*: `Coding` translates the firmware's own
transmit side (`CodeIso14443aBitsAsReaderPar`, `CodeIso14443aAsTagPar`,
`Code4bitAnswerAsTag`, parity, `LastProxToAirDuration`), and `Air` puts a scenario of
frames on the air, at chosen ticks, and samples it (the FPGA, external): a pause is 0
for two or three ticks, a card's modulation 1 for three or four. `ReaderByte` and
`CardByte` are the bytes both programs assemble from two sampled bytes.

`Demod` has the demodulators as functions of their state and eight samples.
`m_two_bits` is the last 16 samples; the shift register with its counter is the
sequence of bits in it, so `Padded` is the shift that aligns it. The lower-case
operators are the host's (`miller_decode_bits`, `manchester_decode_bits`), the
others the firmware's; where the two agree they share an operator, and they differ in
the offsets they look for (`miller_offsets`, `MillerOffsets`), in what they do with
leftover bits (`miller_rest`, `MillerRest`) and in the reset value of the card's samples.
Parity bits, collision position and times are written and never read by the code
modelled here.

### Decoder

One action per way through each half of an iteration of `parse`: a half is
skipped because the other side is in a frame, samples are taken, or a frame ends.
`modulated` is the number of bytes `m_input` has collected. A capture may stop at any
pair, so every state is the end of some capture. `decode`, `decode_all`, `is_sof` and
the rest of the two classes have no caller.

`Findable` says what parse needs to find every frame: a frame of the reader must not
begin with a byte of the capture, must come 84 ticks or more after an answer (from 77 to
83 it depends on the offset, below that it is always lost), and its leftover bits must not
all be zero. The scenarios hold frames on both sides of each condition.

### Snoop

The same field through `SnoopIso14443a`. `LogFrame` is the two calls of `LogTrace` of
a frame, with the `break` after each; after a break the demodulators are not reset. `Cancel` is
the button or the check that the loop is not too far behind the DMA. The `tracing` flag is not
read by this mode and left out. A byte split after whole ones is dropped by
`MillerDecoding`; no request of the standard ends so, and no scenario here.

### FrameDisplay

`Show` is one record through `to_string`: `Cmd` is what `otfta_parse_t` makes of it, with
one operator per `parse_` function, and `After` what `to_string` keeps in main's `fsm` for
the next. A record is named; of the text behind the name the model keeps the cascade
level, the bits of the NVB and the remarks made (malformed, invalid, spurious, any of them
together; not those on the fields of an ATS). Names and remarks rest on bytes, so frames here are bytes, with the check byte computed. On the air (external) is a
session: request, anticollision with and without a collision, up to three levels, then
RATS and blocks or the authentication of a MIFARE Classic card, begun again at any frame.
Each frame is `Decoded`, `Cut` to its first bytes, or `Missed`.

### SelectCard

The firmware as a reader. A frame it sends and what it hears are one step, because it
blocks: `Exchange` lets every card miss the frame and every answer be lost, and superposes
the answers that remain. A part of a UID is the set of positions of its 1 bits, so that
`Colliding` and `Complete` copy bits where the code does. `Wupa`, `SelectAll`,
`SelectPartial`, `SelectUid` and `Rats` are `iso14443a_select_card`; `Apdu` and `Raw` are
the rest of a request; `Request` and `Disconnect` its beginning and end. A card is
an ISO 14443-3 card (`IsoCard`, external), the firmware's own emulation of one
(`SimTag`) or the selection part of its MIFARE emulation (`Mf1k`). `SelectConstants` says what
may be in the field: UIDs are unique, have one to three parts and begin every part but the last,
and no other, with the cascade tag; an emulation, which answers to any UID, is alone.

### Mifare1ksim

One action per case of the `switch` on `cardSTATE`, split where the code branches on the
command. The cipher is its place: `skew` is how far the emulator's key stream is ahead
of the reader's, and a frame can be read (`Legible`) when they are at the same place. Each
frame the emulator hears or answers advances it as the code does, so a reader that missed
an answer finds a card it can no longer talk to until it starts over. A block is plain
data or a value modulo `Wrap`. The reader is external and keeps to the protocol; it
sends any command the protocol allows at that point, refused ones included, and after a
selection also block commands without authentication, in plain. `Open` is the sector the
card then works on: the reader's, or without authentication the one of the last key
(`authSc`), which the code keeps over WUPA. What follows a SAK counts too: the answer to
SELECT1 is one byte too long (`Overlong`), and the reader takes it by its first byte, as
`iso14443a_select_card` does, or rejects it (`HearSpoilt`).

## 3. Runs

| run | checks | shows |
|---|---|---|
| `read14a_clean` | `SelectIsWhole`, `SessionReturns` | with single and double size ISO 14443-4 cards, no loss and one collision at level 1 in the bytes where NVB is right, every session ends normally |
| `read14a_any` | `TypeOK`, `NoMutualBlock`, `HaltEchoEndsSession`, `AnswerInStep`, `FieldOffAfterReturn`, `SessionOrder` | the link never jams and a session that returns leaves the field off for good, triple size UIDs and collisions at all levels included; until the host itself skips an answer the fsm is in step with the card and the commands refine `PcdSession` |
| `raw_sniff` | `TypeOK`, `FileInOrder`, `DumpEndsRecord`, `DumpStored` | whatever is killed or unplugged, the records are ordered, and a dump someone listens to reaches the file |
| `capture_file` | `FileTypeOK`, `DoneIsStored`, `ReadOutcome` | what `append` returned for stays, word for word; a read while writing, or of a file torn once, gives the whole records or throws |
| `usb_transport` | `TypeOK`, `FramesOwn`, `CommandsUnmixed`, `LinkSpec`, `Answered` | with processes killed anywhere nothing is mixed up, the packets implement `FrameLink`, and a process that finds the firmware waiting is answered |
| `usb_object` | `TypeOK`, `HandleHeld`, `Unmixed`, `Returns` | no call uses a handle another thread has closed (but the two that do not look), messages of two threads do not mix, and no call waits for the mutex for ever |
| `decoder` | `TypeOK`, `InOrder`, `AllDecoded` | findable frames are decoded, in order and unchanged, wherever the capture is cut |
| `decoder_on_beat` | `FoundOnBeat` violated | a frame that begins with a byte of the capture is not found (`src/miller.cpp:78`) |
| `frame_display` | `Faithful`, `Complete` | with frames missing or torn, none is shown as another; with none missing, each is shown under its name and without a remark (but SAK 08) |
| `snoop` | `TypeOK`, `InOrder`, `AllLogged`, `TraceFits` | the firmware finds frames at every offset and at the shortest delay, the trace is what was sent from the trigger on, and nothing is written past it |
| `select_card` | `SelectTypeOK`, `OneSelected`, `Resolves`, `NumberInStep` | whatever collides and is lost, the UID reported is that of the one card selected; a collision the loop can resolve is resolved; the block number agrees with the card's |
| `mifare_sim` | `TypeOK`, `Served`, `MemoryAsTold` | after any broken-off session a new one is answered as the protocol says, except for block commands in the sector of the last key, which need no authentication; the memory holds what was acknowledged |

Bounds. The reader session has at most three cascade levels by standard; two
rivals give a second collision after the first and a third card that drops out.
`Edges` has a position in the first byte, the last bit of a byte, byte
boundaries and the BCC. The capture runs with the code's own 48 blocks, buffers
without traffic, with some, and full ones, and two processes, so that a record of
a second process follows a torn or whole one of the first.

The transport runs with the code's packet counts (9 and 9), three processes (the
third meets a link jammed by the second), two commands each, and commands with no,
one and two answers.

The decoders see every 7-bit request, bytes of both sides built from all nibbles,
split bytes and four-bit acknowledgements, each at all eight offsets (the phase) with the
short and the long pulse, and two exchanges (REQA, ATQA, SELECT, UID) with the card's
delays of 73 to 78 ticks and, for parse, the reader's of 74 to 91: from the shortest allowed
to past the point where parse sees again, over all offsets. Longer frames repeat the
step of a byte. The trace of 79 bytes is filled exactly by such a session; one byte more and
it is full at the second entry of the last frame, with longer answers at its first.

A capture file has three records of two lengths, over two or three captures; two reads
come at any of their steps. The USB object has an owner with three calls (so
it opens, closes and opens again) and a user with two, two interfaces, devices and packets:
enough for close to come between any two steps of the user, and for two messages to meet.
The display sees four-byte parts of two UIDs (one whose first byte is zero, so that
the rest of it has the check byte of a whole one), two ATQAs, a CRC that makes an answer xor to
zero, and collisions after 1, 3 and 4 bytes. `select_card` has pairs of cards that differ
first at the first, an inner and the last bit of bytes, triples, cascaded UIDs of two and
three parts and each emulation; its requests follow one another without bound.
`mifare_sim` has a block in each of two sectors, one outside the card, values modulo 3
and one operand; sessions follow one another without bound.

Deadlock is checked where the system never stops: `select_card`, `mifare_sim`. It is not
elsewhere: a session that has returned, thrown or lost an answer stops, and so does a
capture after its last process, threads after their last call, main after an exception, and
a signal after its last sample.

Fairness. `Read14a` has weak fairness of the host and of the firmware: each
blocks only in a USB call or until its answer timeout, and proceeds as soon as
the other side is there. The cards need none: their reaction is part of
`FwTransmit`. Loss is not fair, so nothing says that an answer does arrive.
`RawSniff` has weak fairness of the firmware's three loops (the SSC clock never
stops, so buffers complete) and of the host process; none of starting a process,
killing it or replugging the device. `UsbTransport` has weak fairness of the
process and of the firmware, which wait only for one another. `UsbObject` has weak
fairness of each thread: threads are scheduled and libusb's calls return, failing if not
succeeding. The mutex needs no more than that, because calls are finite. The other modules
have no liveness property and no fairness.

## 4. Proofs

`Read14a_proofs`, from `ConstantsOK` alone, hence for every population of cards,
every collision pattern and with or without loss:

- `Invariance`: `IInv` is inductive. `TypeOK` and `NoMutualBlock` are not:
  `IInv` adds that a command in transmission finds an idle firmware
  (`TransmitMeetsIdle`), that a session that is over is quiet (`OverIsQuiet`),
  that a card frame comes only from a command with an answer (`FrameOrigin`), and that
  in `STATE_DISCONNECT` HLTA or its echo is still under way (`HaltPending`).
- `TypeCorrect`, `LockStep` (`NoMutualBlock`), `HaltEcho` (`HaltEchoEndsSession`).
- `StepInvariance`: `StepInv` says what being in step means. Each state of the host has one
  command that was sent on the way into it, transmitted or executed (`SentInStep`), and that
  command is one that may follow the last (`SentInOrder`); the answer on the air or offered
  to the host is one to that command (`AnswerFits`); the card is at a level its UID has
  (`LevelExists`), only HLTA goes without an answer (`OnlyHltaIsUnanswered`); and a host that
  has skipped an answer stays where no UID can come any more (`SkippedForGood`), without which
  `Skipped` could become false again.
- `InStep` (`AnswerInStep`) follows from it, and so does `Refinement` (`SessionOrder`):
  `FwFetch` is the step of `PcdSession` that `SentInOrder` names, every other step leaves
  its phase and level alone, also the one that makes `Skipped` true (`SkipsAtUid`).
- `WholeSelects` (`SelectIsWhole`), for `MaxRivals <= 1`: `WholeInv` relates the collision
  `read14a` remembers to the bytes stored, the bits announced in NVB and the bytes the card
  has still to send (`Resolving`, `UidFits`). With three cards it is not true: after a second
  collision at a level `set_uid` puts the parts together with the wrong length. It needs no
  bound on where collisions are, because where NVB is wrong the card does not answer.
- `FieldStaysOff` (`FieldOffAfterReturn`): `Disconnect` is the last command executed when
  `read14a` returns (`ReturnedOff`), and nothing leaves that state. The property is a leads-to, but
  what it leads to holds at once and stays, so that it needs no fairness.

`Capture_proofs`, the order of records, from `SniffConstantsOK`, hence for every size of the buffer:

- `Invariance`: `DeviceInv` relates the firmware's position to the frame in
  `usb_write`, `RecordInv` says that the record being filled continues the file and
  ends right before the next frame, `FileInv` that the file is ordered and only
  its last record may be torn.
- `TypeCorrect`, `FileOrder` (`FileInOrder`), `WrittenRecordsStay`
  (`WrittenStays`, an action property that no run needs besides).
- `DumpEndsOnBoundary` (`DumpEndsRecord`) needs the size: it is proved for
  `NB = 48`, with the list of positions at which records start as the
  strengthening (`Boundaries`).

`Capture_proofs`, the file word by word, from `FileConstants`, hence for every set of record
lengths and every number of records and reads:

- `FileInvariance`: the words on disk are in the order of the records, those of one record
  are neighbours and begin with its first (`InDiskOrder`, stated as `Framed` so that it can be
  said of any prefix too); the record being written is the end of the file and the buffer behind
  it, cut anywhere (`CutAt`); what is done is on disk, was done in the order it was made, and is
  never torn (`DoneInv`). One lemma per action of the writer.
- `FileTypeCorrect` (`FileTypeOK`), `DoneStored` (`DoneIsStored`).
- `ReadOutcomeHolds` (`ReadOutcome`): what the reader has is a `Framed` prefix of the disk, and
  `whole` says what it consists of (`SnapshotOf`), whatever the writer has added since.
  `from_disk` is then at the first word of a record and has found exactly the whole ones before
  it (`AtRecord`), or is inside one and bound to throw (`Astray`): the step from one to the other is a
  torn record whose announced length runs past its part. `Recognisable` is what makes it
  end inside a record there and not at the first word of another.

`UsbTransport_proofs`, from `TransportConstantsOK` and `~Stalls`, hence for every
length of commands (longer than the banks) and frames and every number of processes:

- `Invariance`: `QueueInv` says that `rx` and the banks hold one command's packets
  in order, `SendInv` and `ReceiveInv` tie the host's progress to the firmware's
  (packets accepted, frames and packets still to come), `WireInv` the flags to
  `usb_write`.
- `OwnFrames`, `UnmixedCommands`, `TypeCorrect`.
- `ImplementsFrameLink`: `Spec => LinkSpec`, one lemma per action of the packet
  level, each an action of `FrameLink` or a stutter.

`UsbObject_proofs`, from `UsbConstants`, hence for every number of threads, interfaces,
devices, packets and calls:

- `Invariance`: `Locking` ties the mutex to the one thread in libusb, `Placed` says what the
  owner's handle is at each place of `open` (none before `libusb_open`, one after it), `Passed`
  that a thread in libusb has the object's handle, `OneOpen` that it is the only one open,
  `Counted` how far loops have come. One lemma per action.
- `TypeCorrect`, `HandleStaysOpen` (`HandleHeld`).
- `MessagesWhole` (`Unmixed`): on top of it `WireInv`, that the calls on the wire have been begun
  (`Past`) and that the one thread in the middle of a message sent the last part (`Newest`). A step
  either leaves the wire alone (`Silently`) or appends the next parts of that thread's message.

`Demod_proofs`: every demodulator maps its states to its states (`MillerType`,
`ManchesterType`), whatever the samples.

`Decoder_proofs`, for every signal whatever (nothing is assumed of `Scenarios`):

- `Invariance`: the types, that `readerActive` and `tagActive` say which demodulator is in a
  frame (also when it was not fed in this iteration), and never both.
- `TypeCorrect`, `OneSide` (`OneAtATime`, which no run needs besides). Nothing is proved of what
  `to_string` makes of the records: it throws on one of them (section 5).

`Iso1443a_proofs`, the sniffer, from `SnoopAssumption`: `Invariance`, `TypeCorrect`, and
`TraceBounded` (`TraceFits`): the test of `LogTrace`, which leaves the length byte out
but is strict, bounds what is written for every size of the trace.

`Iso1443a_proofs`, the reader, from `SelectConstants`, hence for every population it allows, all
requests, with or without loss:

- `SelectInvariance`: none of the properties but `NumberInStep` says anything before a selection
  ends. `SelectIInv` adds that no card is at a level its UID does not have and `uid` has a part per
  level passed (`SelectTypes`), that without a field no card remembers anything (`Rested`), that
  in a selection from a fresh field a card left behind is where its own UID leads, so that it
  cannot answer to another's (`Selecting`), and that RATS goes to the one card selected
  (`Activating`). That the card selected is the *only* one rests on the uniqueness of UIDs: another
  one that took the same SELECTs has the same parts (`SamePath`), and dropping the cascade tag
  forgets nothing that would tell them apart (`DropInjective`).
- `Resolving` is for `Resolves`. With nothing lost and collisions that can be resolved, the
  cards that take part agree on all earlier parts and are at the reader's level; the bits known
  are a prefix of the part of one that is there; and after a second collision, in the first byte, one
  part is left. `FirstCollision` says where the demodulator sees it, `NextKnown` what
  `iso14443a_select_card` copies, `Collided` and `Completed` what becomes of the cards.
- `SelectTypeCorrect` (`SelectTypeOK`) includes that `uid_resp` is never written more than eight bits
  past its first four bytes (`CollisionBound`), for any number of cards.
- `SelectedOne` (`OneSelected`), `CardFound` (`Resolves`), `NumberKeptInStep` (`NumberInStep`).

`Mifare1ksim_proofs`, from `SimConstants`, hence for every set of blocks, data, value range,
operands, UID size and limit of reads, with frames lost, fields switched and the button
pressed anywhere:

- `Invariance`: none of the properties is inductive. What they rest on is that the place of the
  reader in the protocol (`at`) and `cardSTATE` determine each other, except after a start, a
  restart and a lost operand (`Waiting`, `Home`), and that the two key streams are then
  apart by exactly what is on the air, or both unused (`Together`, `OnAir`). While an answer is on the air, `Heard` says
  where it leaves the emulator; `Promised` says that what a write or transfer is about to store is
  in `book` already; `ProperOrLost` is `Served` without the button. One lemma per action.
- `TypeCorrect`, `SessionsServed` (`Served`), `MemoryTold` (`MemoryAsTold`).
- `SectorWrites` (`WritesInSector`, an action property that no run needs besides): the memory
  changes only in the block the reader's command named, in the sector of the last key, and a
  reader that has authenticated has done so for that sector. That every write is authenticated does
  not hold. For the data of a WRITE the code does not look again, so this too rests on the place of
  the reader.

TLC checked every part of the inductive invariants before the proofs.

Only model-checked: the liveness properties (`SessionReturns`, `DumpStored`, `Answered`, `Returns`),
because liveness under fairness is outside the prover's reach; `InOrder`, `AllDecoded` and `AllLogged`,
which relate a frame to its samples bit by bit, an induction over data; and the properties of
`FrameDisplay` (bitwise operators, which the prover does not have).

## 5. Limits of the code and of the models

What the code does not do, found with these models and not kept as runs. The properties say
what holds besides.

*Reader session and capture.*

- A triple size UID hangs the session: after the SELECT of level 3 the host neither
  reads the SAK nor sends RATS (`src/pm3.cpp:480`; `Parts = {3}`, `SessionReturns`).
- `STATE_SELC_TWO` goes on to read a SAK whatever the collision position of the UID it was handed
  (`src/pm3.cpp:436`): cards that differ at level 2 leave it waiting for the SAK of a SELECT that was
  cut short, and a UID is read as one. `AnswerInStep` and `SessionOrder` say nothing from there on.
- An invalid SAK is answered with HLTA, which has no answer; the `throw` after that `return` is
  never reached and the session hangs (`src/pm3.cpp:237`).
- With three cards a second collision at a level is merged with the wrong length, and the SELECT after it
  is not whole (`src/otfta.cpp:551`; `MaxRivals = 2`, `SelectIsWhole`).
- NVB is put together with OR into 0x20 and then gets 0x21: it is wrong for a collision in the first
  byte (`src/otfta.cpp:684`).
- The last block of a dump is never sent (`fw-mods/iso1443a.c:606`), and after one dump the capture
  never collects again: `dma_idx` stays at the size of `dmatwo` (`fw-mods/iso1443a.c:672`).
- `from_disk` throws for a whole file with one torn record. With two torn parts, or a torn record that
  is longer by a header or more than one behind it, what follows a part may be taken for its rest
  (`src/ncap.cpp:92`); `ReadOutcome` says nothing of these (`Recognisable`).

*USB.*

- With `Stalls`, a process slower than `usb_read`'s time-out has a part of its command
  executed (`fw-mods/appmain.c:1036`).
- `~usb_t` with an open handle and `enumerate_devices` with a device lock the mutex they hold
  (`src/usb.cpp:567`, `src/usb.cpp:871`), as does `open` when the constructor of `usb_info_t`
  throws (`src/usb.cpp:805`). `async_usb_t::open` on an object that is open leaves it without
  the first handle (`src/async.cpp:216`). The owner modelled here closes first.
- `bulk_recv` does not look whether there is a handle (`src/usb.cpp:968`) and `transmit_interrupt`
  takes no mutex (`src/async.cpp:599`): `HandleHeld` exempts these two. `claim_all` is not
  atomic against close and open.
- `receive_timeout` and `transmit_timeout` return false on success (`src/async.cpp:576`).

*Decoder and display.*

- `parse` resets the Miller demodulator after every answer and is blind for eight pairs of
  bytes, longer than the 1172 carrier cycles a reader has to wait (`src/decoder.cpp:145`);
  `SnoopIso14443a`, which does not, loses nothing.
- `parse` drops leftover bits that are all zero (`src/miller.cpp:219`).
- The parser knows commands by their first bytes, whoever sent them: an answer that begins like a
  command is shown as one. `DisplayConstants` leaves these out.
- `to_string` makes a parser per record, so that `m_hcol`, set by a partial SELECT, is lost
  (`src/decoder.cpp:165`): what remains of a UID after a collision in its first bytes is shown as something else.
- RATS sets the state back, so that an ATS is never shown as one, and the UID of level 3 is
  unknown (`src/decoder.cpp:176`). A RATS that was missed leaves blocks shown as UIDs.
- A RATS record of two bytes makes `parse_rats` throw, and main shows nothing after it
  (`src/parse.cpp:327`); one of three is read one byte too far.
- The last SAK of a card without ISO/IEC 14443-4, 08 of a MIFARE Classic, is shown as invalid
  (`src/parse.cpp:383`): `SAK_IS_VALID` knows two bits. So is a RATS whose frame size is 16 bytes, since
  `RATSA_FSDI_IS_VALID` asks for a bit the standard's valid sizes need not have (`inc/otfta.hpp:99`).

*Stock firmware modes.*

- `SnoopIso14443a` logs a card's answers before the trigger (`fw-mods/iso1443a.c:976`).
- `iso14443a_select_card` takes a collision in the first bit of a part for none, and with three or more
  cards whose first collision is in the last bit of a byte or later copies bits to the wrong index
  (`fw-mods/iso1443a.c:2105`). `Resolves` leaves these out, and says nothing of four or more cards. Connecting again with the field on to a card that is selected finds
  none; a card that was left in the middle of a selection may join in a later one, so `OneSelected`
  speaks of fields that were off.
- `Mifare1ksim` serves block commands without authentication in the sector of the last key, sector 0
  at first: WUPA clears `cardAUTHKEY` and not `cardAUTHSC` (`fw-mods/iso1443a.c:2843`), and the block
  commands compare only the latter (`fw-mods/iso1443a.c:3034`). With `Open` defined as the reader's
  `sector` `Served` is violated.
- Its answer to SELECT1 has `sizeof(_7BUID?rSAK1:rSAK)` bytes, the size of a pointer: four for three
  (`fw-mods/iso1443a.c:2871`). A reader that checks the CRC of a SAK never gets past it.
- `SimulateIso14443aTag` answers a SELECT without comparing the UID. Its limits of 1000 commands and a
  full trace are left out.

Not modelled: `PROJECT.json` gives the reason per component. The formatting of identifiers and
descriptors (hexdump, sest, card, apdu, `usb_info_t`'s texts) carries no state; version, tune
and msniff are one request and its answers; the LF modes, `SniffMifare` and `ReaderMifare` mostly call code that
is not in this repository.

## 6. Plan

1. `SelUid`: `seluida_t::set_uid` bit by bit, against the UID of the card.
2. EP0: `AT91F_CDC_Enumerate` with its other requests and the bus reset, under `UsbTransport`.
3. The host modes version, tune and msniff as clients of `FrameLink`.
4. Proofs: `InOrder` of `Decoder` and `Snoop`, from lemmas about one frame of a fixed length.
