---------------------------- MODULE UsbTransport ----------------------------
(***************************************************************************)
(* The USB transport packet by packet: async_usb_t::set_config, transmit   *)
(* and receive on the host, usb_read, usb_write and the enumeration of     *)
(* usb_cdc.c under AppMain's loop on the Proxmark.                         *)
(*                                                                         *)
(* A packet is the command or frame it belongs to and its place in it.     *)
(* Clients send a command, receive its answers and only then send the      *)
(* next; a command without an answer is the last of its process.  A        *)
(* process may be killed at any point.                                     *)
(***************************************************************************)
EXTENDS Integers, Sequences

CONSTANTS
  OutPackets,   \* packets of a command, 544 bytes by 64
  InPackets,    \* packets of a frame, 544 bytes by 63
  Answers,      \* how many frames a command may be answered with
  MaxRuns,      \* processes
  MaxCommands,  \* commands of one process
  Kills,        \* may a process be killed?
  Stalls        \* may transmit be slower than usb_read's time_out?

ASSUME TransportConstantsOK ==
  /\ OutPackets \in Nat /\ OutPackets > 2   \* a command does not fit the banks
  /\ InPackets \in Nat \ {0}
  /\ Answers \subseteq Nat /\ Answers # {}
  /\ MaxRuns \in Nat /\ MaxCommands \in Nat
  /\ Kills \in BOOLEAN /\ Stalls \in BOOLEAN

VARIABLES
  pc,      \* where the host process is
  run,     \* which process it is
  no,      \* its current command
  due,     \* frames it still expects
  out,     \* packets of the command the device has accepted
  buf,     \* packets of the frame being received
  banks,   \* packets in the OUT endpoint's two banks, oldest first
  fw,      \* where the firmware is
  rx,      \* packets in AppMain's rx
  left,    \* frames the running command still has to write
  part,    \* packets of the frame given to the IN endpoint, 0 between frames
  ready,   \* TXPKTRDY
  comp     \* TXCOMP

hostVars == <<pc, run, no, due, out, buf>>
txVars   == <<left, part, ready, comp>>
vars     == <<hostVars, banks, fw, rx, txVars>>

Banks == 2

Init ==
  /\ pc = "off" /\ run = 0 /\ no = 0 /\ due = 0 /\ out = 0 /\ buf = << >>
  /\ banks = << >> /\ fw = "poll" /\ rx = << >>
  /\ left = 0 /\ part = 0 /\ ready = FALSE /\ comp = FALSE
-----------------------------------------------------------------------------
(* The host process.                                                       *)

HostStart ==
  /\ pc = "off" /\ run < MaxRuns
  /\ pc' = "open" /\ run' = run + 1 /\ no' = 0 /\ due' = 0 /\ out' = 0 /\ buf' = << >>
  /\ UNCHANGED <<banks, fw, rx, txVars>>

(* set_config times out on a firmware that does not look at endpoint 0.    *)
HostRefused ==
  /\ pc = "open" /\ fw = "run"
  /\ pc' = "off"
  /\ UNCHANGED <<run, no, due, out, buf, banks, fw, rx, txVars>>

HostCommand ==
  /\ pc = "idle" /\ no < MaxCommands
  /\ pc' = "send" /\ no' = no + 1 /\ out' = 0
  /\ \E a \in Answers : due' = a
  /\ UNCHANGED <<run, buf, banks, fw, rx, txVars>>

(* transmit: one bulk transfer of 64 bytes, complete when a bank has it.   *)
HostSendPacketUnchecked ==                                       \* mutant
  /\ pc = "send"
  /\ banks' = Append(banks, [run |-> run, no |-> no, part |-> out + 1])
  /\ out' = out + 1
  /\ pc' = IF out' < OutPackets THEN "send" ELSE IF due = 0 THEN "off" ELSE "receive"
  /\ UNCHANGED <<run, no, due, buf, fw, rx, txVars>>
HostSendPacket ==
  /\ pc = "send" /\ Len(banks) < Banks
  /\ banks' = Append(banks, [run |-> run, no |-> no, part |-> out + 1])
  /\ out' = out + 1
  /\ pc' = IF out' < OutPackets THEN "send" ELSE IF due = 0 THEN "off" ELSE "receive"
  /\ UNCHANGED <<run, no, due, buf, fw, rx, txVars>>

(* receive: a packet of 63 bytes is short and ends the bulk transfer; the  *)
(* loop asks for the rest.                                                 *)
InPacket == [run |-> rx[1].run, no |-> rx[1].no, part |-> part]

HostReceivePacket ==
  /\ pc = "receive" /\ ready
  /\ ready' = FALSE /\ comp' = TRUE
  /\ LET got == Append(buf, InPacket)
     IN  IF Len(got) < InPackets
         THEN buf' = got /\ UNCHANGED <<pc, due>>
         ELSE /\ buf' = << >> /\ due' = due - 1
              /\ pc' = IF due' = 0 THEN "idle" ELSE "receive"
  /\ UNCHANGED <<run, no, out, banks, fw, rx, left, part>>

HostExit ==
  /\ pc = "idle" /\ pc' = "off"
  /\ UNCHANGED <<run, no, due, out, buf, banks, fw, rx, txVars>>

Kill ==
  /\ Kills /\ pc # "off" /\ pc' = "off"
  /\ UNCHANGED <<run, no, due, out, buf, banks, fw, rx, txVars>>

Host ==
  \/ HostRefused \/ HostCommand \/ HostSendPacket \/ HostReceivePacket \/ HostExit
-----------------------------------------------------------------------------
(* The firmware.                                                           *)

(* usb_check, called by usb_poll, where usb_write begins and while it      *)
(* waits, serves SET_CONFIGURATION: the endpoints' registers are rewritten *)
(* and with them every bank flag, TXPKTRDY and TXCOMP.  A process takes    *)
(* longer to start than usb_read to time out.                              *)
FwConfigureKeep ==                                               \* mutant
  /\ pc = "open" /\ fw \in {"poll", "write"}
  /\ fw = "poll" => banks = << >>
  /\ fw = "write" => IF part = 0 THEN left > 0 ELSE ~comp
  /\ pc' = "idle" /\ banks' = << >> /\ UNCHANGED <<ready, comp>>
  /\ UNCHANGED <<run, no, due, out, buf, fw, rx, left, part>>
FwConfigure ==
  /\ pc = "open" /\ fw \in {"poll", "write"}
  /\ fw = "poll" => banks = << >>
  /\ fw = "write" => IF part = 0 THEN left > 0 ELSE ~comp
  /\ pc' = "idle" /\ banks' = << >> /\ ready' = FALSE /\ comp' = FALSE
  /\ UNCHANGED <<run, no, due, out, buf, fw, rx, left, part>>

(* usb_poll sees the bank that usb_read left off at.                       *)
FwPoll ==
  /\ fw = "poll" /\ banks # << >>
  /\ fw' = "read" /\ rx' = << >>
  /\ UNCHANGED <<hostVars, banks, txVars>>

FwReadPacket ==
  /\ fw = "read" /\ banks # << >>
  /\ rx' = Append(rx, Head(banks)) /\ banks' = Tail(banks)
  /\ fw' = IF Len(rx') < OutPackets THEN "read" ELSE "run"
  /\ UNCHANGED <<hostVars, txVars>>

(* time_out: AppMain executes what has arrived.                            *)
FwTimeoutEarly ==                                                \* mutant
  /\ fw = "read" /\ rx # << >> /\ banks = << >>
  /\ fw' = "run"
  /\ UNCHANGED <<hostVars, banks, rx, txVars>>
FwTimeout ==
  /\ fw = "read" /\ rx # << >>
  /\ Stalls \/ (pc # "send" /\ banks = << >>)
  /\ fw' = "run"
  /\ UNCHANGED <<hostVars, banks, rx, txVars>>

(* UsbPacketReceived.  The command code is in the first packet.            *)
FwRun ==
  /\ fw = "run" /\ fw' = "write"
  /\ \/ pc = "receive" /\ rx[1] = [run |-> run, no |-> no, part |-> 1] /\ left' = due
     \/ ~(pc = "receive" /\ rx[1] = [run |-> run, no |-> no, part |-> 1])
        /\ left' \in Answers
  /\ UNCHANGED <<hostVars, banks, rx, part, ready, comp>>

(* usb_write.                                                              *)
FwWriteFirst ==
  /\ fw = "write" /\ part = 0 /\ left > 0
  /\ part' = 1 /\ ready' = TRUE /\ left' = left - 1
  /\ UNCHANGED <<hostVars, banks, fw, rx, comp>>

FwWriteNextKeep ==                                               \* mutant
  /\ fw = "write" /\ part > 0 /\ comp
  /\ IF part < InPackets
     THEN part' = part + 1 /\ ready' = TRUE
     ELSE part' = 0 /\ UNCHANGED ready
  /\ UNCHANGED <<hostVars, banks, fw, rx, left, comp>>
FwWriteNextLast ==                                               \* mutant
  /\ fw = "write" /\ part > 0 /\ comp
  /\ IF part < InPackets
     THEN part' = part + 1 /\ ready' = TRUE /\ comp' = FALSE
     ELSE part' = 0 /\ UNCHANGED <<ready, comp>>
  /\ UNCHANGED <<hostVars, banks, fw, rx, left>>
FwWriteNext ==
  /\ fw = "write" /\ part > 0 /\ comp
  /\ comp' = FALSE
  /\ IF part < InPackets
     THEN part' = part + 1 /\ ready' = TRUE
     ELSE part' = 0 /\ UNCHANGED ready
  /\ UNCHANGED <<hostVars, banks, fw, rx, left>>

FwReturn ==
  /\ fw = "write" /\ part = 0 /\ left = 0
  /\ fw' = "poll"
  /\ UNCHANGED <<hostVars, banks, rx, txVars>>

Firmware ==
  \/ FwConfigure \/ FwPoll \/ FwReadPacket \/ FwTimeout \/ FwRun
  \/ FwWriteFirst \/ FwWriteNext \/ FwReturn

Next == HostStart \/ Host \/ Kill \/ Firmware

(* Neither side waits for anything but the other.                          *)
Fairness == WF_vars(Host) /\ WF_vars(Firmware)

Spec == Init /\ [][Next]_vars /\ Fairness
-----------------------------------------------------------------------------
Packets(n) == [run : 1..MaxRuns, no : 1..MaxCommands, part : 1..n]

(* Types of every variable.                                                *)
TypeOK ==
  /\ pc \in {"off", "open", "idle", "send", "receive"}
  /\ run \in 0..MaxRuns /\ no \in 0..MaxCommands /\ due \in Nat
  /\ out \in 0..OutPackets /\ buf \in Seq(Packets(InPackets)) /\ Len(buf) < InPackets
  /\ banks \in Seq(Packets(OutPackets)) /\ Len(banks) <= Banks
  /\ fw \in {"poll", "read", "run", "write"}
  /\ rx \in Seq(Packets(OutPackets)) /\ Len(rx) <= OutPackets
  /\ left \in Nat /\ part \in 0..InPackets /\ ready \in BOOLEAN /\ comp \in BOOLEAN

(* What receive has collected is the beginning of one frame, and the frame *)
(* answers the command this process has sent, whatever was killed before.  *)
FramesOwn ==
  \A j \in DOMAIN buf : buf[j] = [run |-> run, no |-> no, part |-> j]

(* What AppMain executes is the beginning of one command.                  *)
Beginning(ps) == \A j \in DOMAIN ps : ps[j] = [ps[1] EXCEPT !.part = j]
CommandsUnmixed == fw # "poll" => Beginning(rx)

(* The firmware waits for a TXCOMP that cannot come.                       *)
Jammed == fw = "write" /\ part > 0 /\ ~ready /\ ~comp

(* A process that finds the firmware waiting gets all its answers and      *)
(* ends.                                                                   *)
Answered == (pc = "open" /\ fw = "poll" /\ banks = << >>) ~> pc = "off"

(* The packets implement the rendezvous of whole frames.                   *)
Own(p) == [run |-> p.run, no |-> p.no]
Nothing == [run |-> 0, no |-> 0]
Pending ==
  IF fw = "read" /\ rx # << >> THEN Own(rx[1])
  ELSE IF banks # << >> THEN Own(banks[1])
  ELSE IF pc = "send" THEN [run |-> run, no |-> no] ELSE Nothing
Server  == IF Jammed THEN "jammed" ELSE IF fw = "read" THEN "poll" ELSE fw
Serving == IF fw \in {"run", "write"} THEN Own(rx[1]) ELSE Nothing
Written == IF fw = "write" /\ part > 0 /\ (ready \/ (comp /\ part < InPackets))
           THEN Own(rx[1]) ELSE Nothing
Link == INSTANCE FrameLink WITH
  client <- pc, request <- Pending, server <- Server, serving <- Serving, frame <- Written
LinkSpec == Link!Spec
=============================================================================
