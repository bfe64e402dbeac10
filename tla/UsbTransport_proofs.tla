------------------------ MODULE UsbTransport_proofs -------------------------
(***************************************************************************)
(* Proofs about UsbTransport: when transmit keeps up with usb_read, what   *)
(* the firmware executes and what the host receives is never mixed, and    *)
(* the packets implement the rendezvous of whole frames of FrameLink, for  *)
(* commands longer than the two banks, frames of any length, and processes *)
(* killed anywhere.                                                        *)
(***************************************************************************)
EXTENDS UsbTransport, TLAPS

Current == [run |-> run, no |-> no]
Packet(c, j) == [run |-> c.run, no |-> c.no, part |-> j]

(* What the firmware has read of the command whose packets are in the      *)
(* banks.                                                                  *)
Base == IF fw = "read" THEN Len(rx) ELSE 0

(* The packets in rx and in the banks are those of one command, in order.  *)
QueueInv ==
  /\ \A j \in DOMAIN rx : rx[j] = Packet(rx[1], j)
  /\ \A j \in DOMAIN banks : banks[j] = Packet(banks[1], Base + j)
  /\ fw = "read" /\ rx # << >> /\ banks # << >> => Own(banks[1]) = Own(rx[1])
  /\ fw = "read" => Len(rx) < OutPackets /\ (rx # << >> \/ banks # << >>)
  /\ fw \in {"run", "write"} => rx # << >>

(* The IN endpoint is busy only inside usb_write.                          *)
WireInv ==
  /\ ready => fw = "write" /\ part > 0 /\ ~comp
  /\ comp => fw = "write" /\ part > 0
  /\ part > 0 => fw = "write"

(* A process in transmit: the device has what it has sent.                 *)
SendInv ==
  pc = "send" => no > 0 /\ out < OutPackets /\ out = Base + Len(banks) /\ Pending = Current

(* A process in receive: the firmware reads, executes or answers its       *)
(* command, and the frames and packets still to come match.                *)
AnswerInv ==
  /\ part = 0 => buf = << >> /\ due = left
  /\ part > 0 => ready \/ comp
  /\ ready => Len(buf) = part - 1 /\ due = left + 1
  /\ comp => IF part < InPackets THEN Len(buf) = part /\ due = left + 1
             ELSE buf = << >> /\ due = left
ReceiveInv ==
  pc = "receive" =>
    /\ due > 0 /\ no > 0 /\ fw # "poll"
    /\ fw = "read" => Base + Len(banks) = OutPackets /\ Pending = Current
    /\ fw \in {"read", "run"} => buf = << >>
    /\ fw \in {"run", "write"} => Own(rx[1]) = Current /\ banks = << >>
    /\ fw = "write" => AnswerInv

ClientInv ==
  /\ pc # "off" => run > 0
  /\ pc \in {"open", "idle", "send"} => buf = << >>
  /\ pc = "idle" => fw \in {"poll", "write"} /\ banks = << >>
  /\ SendInv /\ ReceiveInv

IInv == TypeOK /\ QueueInv /\ WireInv /\ ClientInv /\ FramesOwn
-----------------------------------------------------------------------------
LEMMA InitIInv == Init => IInv
<1>. SUFFICES ASSUME Init PROVE IInv
  OBVIOUS
<1>1. OutPackets \in Nat /\ OutPackets > 2 /\ InPackets \in Nat /\ InPackets > 0
  BY TransportConstantsOK
<1>2. TypeOK
  <2>1. << >> \in Seq(Packets(InPackets)) /\ << >> \in Seq(Packets(OutPackets))
    OBVIOUS
  <2>2. Len(<< >>) = 0 /\ 0 \in 0..MaxRuns /\ 0 \in 0..MaxCommands
        /\ 0 \in 0..OutPackets /\ 0 \in 0..InPackets
    BY <1>1, TransportConstantsOK
  <2>3. Len(banks) <= Banks /\ Len(rx) <= OutPackets /\ Len(buf) < InPackets
    BY <1>1, <2>2 DEF Init, Banks
  <2>4. ready \in BOOLEAN /\ comp \in BOOLEAN
    BY DEF Init
  <2>. QED BY <1>1, <2>1, <2>2, <2>3, <2>4 DEF Init, TypeOK
<1>3. QueueInv /\ WireInv /\ FramesOwn
  BY DEF Init, QueueInv, WireInv, FramesOwn
<1>4. ClientInv
  BY DEF Init, ClientInv, SendInv, ReceiveInv
<1>. QED BY <1>2, <1>3, <1>4 DEF IInv

(* Starting, being refused, leaving and being killed change neither the    *)
(* device nor what it has.                                                 *)
LEMMA ProcessPreserves ==
  ASSUME IInv, HostStart \/ HostRefused \/ HostExit \/ Kill
  PROVE  IInv'
<1>1. /\ pc' \in {"off", "open"}
      /\ UNCHANGED <<banks, fw, rx, left, part, ready, comp>>
      /\ pc' = "off" => UNCHANGED <<run, no, due, out, buf>>
      /\ pc' = "open" => /\ pc = "off" /\ run < MaxRuns /\ run' = run + 1
                        /\ no' = 0 /\ due' = 0 /\ out' = 0 /\ buf' = << >>
  BY DEF HostStart, HostRefused, HostExit, Kill, txVars
<1>2. TypeOK'
  <2>1. CASE pc' = "off"
    BY <1>1, <2>1 DEF IInv, TypeOK
  <2>2. CASE pc' = "open"
    <3>1. run' \in 0..MaxRuns /\ no' \in 0..MaxCommands /\ out' \in 0..OutPackets
          /\ buf' \in Seq(Packets(InPackets)) /\ Len(buf') < InPackets /\ due' \in Nat
      BY <1>1, <2>2, TransportConstantsOK DEF IInv, TypeOK
    <3>. QED BY <1>1, <2>2, <3>1 DEF IInv, TypeOK, Packets
  <2>. QED BY <1>1, <2>1, <2>2
<1>3. QueueInv' /\ WireInv'
  BY <1>1 DEF IInv, QueueInv, WireInv, Base, Packet, Own
<1>4. FramesOwn'
  BY <1>1 DEF IInv, FramesOwn
<1>5. ClientInv'
  <2>1. pc' # "off" => run' > 0
    BY <1>1 DEF IInv, TypeOK
  <2>. QED BY <1>1, <2>1 DEF ClientInv, SendInv, ReceiveInv
<1>. QED BY <1>2, <1>3, <1>4, <1>5 DEF IInv

LEMMA CommandPreserves == ASSUME IInv, HostCommand PROVE IInv'
<1>1. /\ pc = "idle" /\ pc' = "send" /\ no < MaxCommands /\ no' = no + 1 /\ out' = 0
      /\ due' \in Answers /\ UNCHANGED <<run, buf, banks, fw, rx, left, part, ready, comp>>
  BY DEF HostCommand, txVars
<1>2. /\ fw \in {"poll", "write"} /\ banks = << >> /\ buf = << >> /\ run > 0
  BY <1>1 DEF IInv, ClientInv
<1>3. TypeOK'
  BY <1>1, TransportConstantsOK DEF IInv, TypeOK
<1>4. QueueInv' /\ WireInv'
  BY <1>1 DEF IInv, QueueInv, WireInv, Base, Packet, Own
<1>5. FramesOwn'
  BY <1>1, <1>2 DEF FramesOwn
<1>6. ClientInv'
  BY <1>1, <1>2, TransportConstantsOK
  DEF IInv, TypeOK, ClientInv, SendInv, ReceiveInv, Base, Pending, Current
<1>. QED BY <1>3, <1>4, <1>5, <1>6 DEF IInv

LEMMA ConfigurePreserves == ASSUME IInv, FwConfigure PROVE IInv'
<1>1. /\ pc = "open" /\ fw \in {"poll", "write"}
      /\ pc' = "idle" /\ banks' = << >> /\ ready' = FALSE /\ comp' = FALSE
      /\ UNCHANGED <<run, no, due, out, buf, fw, rx, left, part>>
  BY DEF FwConfigure
<1>2. TypeOK'
  <2>1. banks' \in Seq(Packets(OutPackets)) /\ Len(banks') <= Banks
    BY <1>1 DEF Banks
  <2>2. ready' \in BOOLEAN /\ comp' \in BOOLEAN
    BY <1>1
  <2>. QED BY <1>1, <2>1, <2>2 DEF IInv, TypeOK
<1>3. QueueInv' /\ WireInv' /\ FramesOwn'
  BY <1>1 DEF IInv, QueueInv, WireInv, FramesOwn, Base, Packet, Own
<1>4. ClientInv'
  BY <1>1 DEF IInv, ClientInv, SendInv, ReceiveInv
<1>. QED BY <1>2, <1>3, <1>4 DEF IInv

LEMMA PollPreserves == ASSUME IInv, FwPoll PROVE IInv'
<1>1. /\ fw = "poll" /\ banks # << >> /\ fw' = "read" /\ rx' = << >>
      /\ UNCHANGED <<pc, run, no, due, out, buf, banks, left, part, ready, comp>>
  BY DEF FwPoll, hostVars, txVars
<1>2. TypeOK'
  BY <1>1, TransportConstantsOK DEF IInv, TypeOK
<1>3. Base = 0 /\ Base' = 0
  BY <1>1 DEF Base
<1>4. QueueInv'
  BY <1>1, <1>3, TransportConstantsOK DEF IInv, QueueInv, Packet, Own
<1>5. WireInv' /\ FramesOwn'
  BY <1>1 DEF IInv, WireInv, FramesOwn
<1>6. Pending' = Pending
  BY <1>1 DEF Pending, Own
<1>7. ClientInv'
  BY <1>1, <1>3, <1>6 DEF IInv, ClientInv, SendInv, ReceiveInv, Current
<1>. QED BY <1>2, <1>4, <1>5, <1>7 DEF IInv

LEMMA TimeoutPreserves == ASSUME IInv, FwTimeout, ~Stalls PROVE IInv'
<1>1. /\ fw = "read" /\ rx # << >> /\ pc # "send" /\ banks = << >> /\ fw' = "run"
      /\ UNCHANGED <<pc, run, no, due, out, buf, banks, rx, left, part, ready, comp>>
  BY DEF FwTimeout, hostVars, txVars
<1>2. TypeOK'
  BY <1>1 DEF IInv, TypeOK
<1>3. QueueInv' /\ WireInv' /\ FramesOwn'
  BY <1>1 DEF IInv, QueueInv, WireInv, FramesOwn, Base, Packet, Own
<1>4. pc # "idle" /\ pc # "receive"
  <2>1. Base + Len(banks) < OutPackets
    BY <1>1, TransportConstantsOK DEF IInv, TypeOK, QueueInv, Base
  <2>. QED BY <1>1, <2>1, TransportConstantsOK DEF IInv, TypeOK, ClientInv, ReceiveInv, Base
<1>5. ClientInv'
  BY <1>1, <1>4 DEF IInv, ClientInv, SendInv, ReceiveInv
<1>. QED BY <1>2, <1>3, <1>5 DEF IInv

LEMMA RunPreserves == ASSUME IInv, FwRun PROVE IInv'
<1>1. /\ fw = "run" /\ fw' = "write" /\ left' \in Nat
      /\ UNCHANGED <<pc, run, no, due, out, buf, banks, rx, part, ready, comp>>
      /\ pc = "receive" /\ rx[1] = [run |-> run, no |-> no, part |-> 1] => left' = due
  BY TransportConstantsOK DEF FwRun, hostVars, IInv, TypeOK
<1>2. TypeOK'
  BY <1>1 DEF IInv, TypeOK
<1>3. QueueInv' /\ WireInv' /\ FramesOwn'
  BY <1>1 DEF IInv, QueueInv, WireInv, FramesOwn, Base, Packet, Own
<1>4. pc = "receive" => rx[1] = [run |-> run, no |-> no, part |-> 1]
  <2>1. 1 \in DOMAIN rx
    BY <1>1 DEF IInv, TypeOK, QueueInv
  <2>2. rx[1] = [run |-> rx[1].run, no |-> rx[1].no, part |-> 1]
    BY <2>1 DEF IInv, QueueInv, Packet
  <2>3. pc = "receive" => rx[1].run = run /\ rx[1].no = no
    BY <1>1 DEF IInv, ClientInv, ReceiveInv, Own, Current
  <2>. QED BY <2>2, <2>3
<1>5. ClientInv'
  <2>1. Base = 0 /\ Base' = 0 /\ Pending' = Pending
    BY <1>1 DEF Base, Pending, Own
  <2>2. ~ready /\ ~comp
    BY <1>1 DEF IInv, WireInv
  <2>3. SendInv'
    BY <1>1, <2>1 DEF IInv, ClientInv, SendInv, Current
  <2>4. ReceiveInv'
    <3>1. CASE pc = "receive"
      <4>1. /\ due > 0 /\ no > 0 /\ Own(rx[1]) = Current /\ banks = << >> /\ buf = << >>
        BY <1>1, <3>1 DEF IInv, ClientInv, ReceiveInv
      <4>2. Own(rx[1])' = Current' /\ left' = due
        BY <1>1, <1>4, <3>1, <4>1 DEF Own, Current
      <4>3. part = 0
        BY <1>1 DEF IInv, TypeOK, WireInv
      <4>. QED BY <1>1, <2>2, <4>1, <4>2, <4>3 DEF ReceiveInv, AnswerInv
    <3>. QED BY <1>1, <3>1 DEF ReceiveInv
  <2>. QED BY <1>1, <2>3, <2>4 DEF IInv, ClientInv
<1>. QED BY <1>2, <1>3, <1>5 DEF IInv

LEMMA WritePreserves == ASSUME IInv, FwWriteFirst \/ FwWriteNext \/ FwReturn PROVE IInv'
<1>0. InPackets \in Nat /\ InPackets > 0
  BY TransportConstantsOK
<1>1. /\ fw = "write" /\ fw' \in {"write", "poll"}
      /\ UNCHANGED <<pc, run, no, due, out, buf, banks, rx>>
      /\ left' \in Nat /\ part' \in 0..InPackets /\ ready' \in BOOLEAN /\ comp' \in BOOLEAN
  <2>1. left \in Nat /\ part \in 0..InPackets /\ ready \in BOOLEAN /\ comp \in BOOLEAN
    BY DEF IInv, TypeOK
  <2>2. CASE FwWriteFirst
    BY <1>0, <2>1, <2>2 DEF FwWriteFirst, hostVars
  <2>3. CASE FwWriteNext
    <3>1. /\ comp' = FALSE /\ left' = left
          /\ part' = IF part < InPackets THEN part + 1 ELSE 0
          /\ ready' = TRUE \/ ready' = ready
      BY <2>3 DEF FwWriteNext
    <3>2. comp' \in BOOLEAN /\ ready' \in BOOLEAN
      BY <2>1, <3>1
    <3>3. left' \in Nat /\ part' \in 0..InPackets
      BY <1>0, <2>1, <3>1
    <3>4. fw = "write" /\ fw' = fw /\ UNCHANGED <<pc, run, no, due, out, buf, banks, rx>>
      BY <2>3 DEF FwWriteNext, hostVars
    <3>. QED BY <3>2, <3>3, <3>4
  <2>4. CASE FwReturn
    BY <1>0, <2>1, <2>4 DEF FwReturn, hostVars, txVars
  <2>. QED BY <2>2, <2>3, <2>4
<1>2. TypeOK'
  BY <1>1 DEF IInv, TypeOK
<1>3. QueueInv' /\ FramesOwn'
  BY <1>1 DEF IInv, QueueInv, FramesOwn, Base, Packet, Own
<1>4. WireInv'
  BY <1>0, <1>1 DEF IInv, TypeOK, WireInv, FwWriteFirst, FwWriteNext, FwReturn, txVars
<1>5. Base = 0 /\ Base' = 0 /\ Pending' = Pending
  BY <1>1 DEF Base, Pending, Own
<1>6. SendInv'
  BY <1>1, <1>5 DEF IInv, ClientInv, SendInv, Current
<1>7. ReceiveInv'
  <2>1. CASE pc = "receive"
    <3>1. /\ due > 0 /\ no > 0 /\ Own(rx[1]) = Current /\ banks = << >> /\ AnswerInv
      BY <1>1, <2>1 DEF IInv, ClientInv, ReceiveInv
    <3>2. fw' = "write"
      BY <3>1, <1>1, <2>1 DEF AnswerInv, FwWriteFirst, FwWriteNext, FwReturn
    <3>3. AnswerInv'
      <4>1. /\ left \in Nat /\ part \in 0..InPackets /\ due \in Nat
            /\ ready => part > 0 /\ ~comp
        BY DEF IInv, TypeOK, WireInv
      <4>2. CASE FwWriteFirst
        BY <1>0, <1>1, <1>4, <3>1, <4>1, <4>2 DEF AnswerInv, WireInv, FwWriteFirst
      <4>3. CASE FwWriteNext
        <5>1. CASE part < InPackets
          <6>1. /\ part' = part + 1 /\ ready' = TRUE /\ comp' = FALSE /\ left' = left
                /\ part > 0 /\ Len(buf) = part /\ due = left + 1
            BY <3>1, <4>3, <5>1 DEF AnswerInv, FwWriteNext
          <6>. QED BY <1>1, <4>1, <6>1 DEF AnswerInv
        <5>2. CASE ~(part < InPackets)
          <6>1. /\ part' = 0 /\ ready' = ready /\ comp' = FALSE /\ left' = left
                /\ comp /\ buf = << >> /\ due = left
            BY <3>1, <4>3, <5>2 DEF AnswerInv, FwWriteNext
          <6>2. ~ready
            BY <4>1, <6>1
          <6>. QED BY <1>1, <6>1, <6>2 DEF AnswerInv
        <5>. QED BY <5>1, <5>2
      <4>. QED BY <1>1, <3>2, <4>2, <4>3 DEF FwReturn
    <3>4. Own(rx[1])' = Current'
      BY <1>1, <3>1 DEF Own, Current
    <3>. QED BY <1>1, <3>1, <3>2, <3>3, <3>4 DEF ReceiveInv
  <2>. QED BY <1>1, <2>1 DEF ReceiveInv
<1>. QED BY <1>1, <1>2, <1>3, <1>4, <1>6, <1>7 DEF IInv, ClientInv

LEMMA SendPacketPreserves == ASSUME IInv, HostSendPacket PROVE IInv'
<1>. DEFINE p == [run |-> run, no |-> no, part |-> out + 1]
            n == Len(banks)
<1>0. OutPackets \in Nat /\ OutPackets > 2 /\ Banks = 2
  BY TransportConstantsOK DEF Banks
<1>1. /\ pc = "send" /\ n < Banks /\ banks' = Append(banks, p) /\ out' = out + 1
      /\ pc' = IF out' < OutPackets THEN "send" ELSE IF due = 0 THEN "off" ELSE "receive"
      /\ UNCHANGED <<run, no, due, buf, fw, rx, left, part, ready, comp>>
  BY DEF HostSendPacket, txVars
<1>2. /\ no > 0 /\ run > 0 /\ out < OutPackets /\ out = Base + n /\ Pending = Current
      /\ buf = << >>
  BY <1>1 DEF IInv, ClientInv, SendInv
<1>3. /\ out \in Nat /\ n \in Nat /\ Base \in Nat /\ banks \in Seq(Packets(OutPackets))
      /\ p \in Packets(OutPackets)
  <2>1. /\ out \in Nat /\ n \in Nat /\ banks \in Seq(Packets(OutPackets)) /\ Len(rx) \in Nat
        /\ run \in 0..MaxRuns /\ no \in 0..MaxCommands
    BY <1>0 DEF IInv, TypeOK
  <2>2. Base \in Nat
    BY <2>1 DEF Base
  <2>3. out + 1 \in 1..OutPackets /\ run \in 1..MaxRuns /\ no \in 1..MaxCommands
    BY <1>0, <1>2, <2>1, TransportConstantsOK
  <2>. QED BY <2>1, <2>2, <2>3 DEF Packets
<1>. HIDE DEF p, n
<1>4. /\ banks' \in Seq(Packets(OutPackets)) /\ Len(banks') = n + 1 /\ banks' # << >>
      /\ DOMAIN banks = 1..n /\ DOMAIN banks' = 1..n+1 /\ banks'[n+1] = p
      /\ \A j \in 1..n : banks'[j] = banks[j]
  BY <1>1, <1>3 DEF n
<1>5. TypeOK'
  <2>1. out' \in 0..OutPackets /\ Len(banks') <= Banks
    BY <1>0, <1>1, <1>2, <1>3, <1>4
  <2>. QED BY <1>1, <1>4, <2>1 DEF IInv, TypeOK
<1>6. p = Packet(Current, Base + n + 1)
  BY <1>2, <1>3 DEF p, Packet, Current
<1>7. banks # << >> => Own(banks[1]) = Current
  BY <1>2 DEF IInv, QueueInv, Pending
<1>8. Own(banks'[1]) = Current
  <2>1. CASE n = 0
    BY <1>4, <1>6, <2>1 DEF Own, Packet, Current
  <2>2. CASE n # 0
    <3>1. banks # << >> /\ banks'[1] = banks[1]
      BY <1>3, <1>4, <2>2 DEF n
    <3>. QED BY <1>7, <3>1
  <2>. QED BY <2>1, <2>2
<1>9. Base' = Base /\ Pending' = Current
  <2>1. Base' = Base
    BY <1>1 DEF Base
  <2>2. fw = "read" /\ rx # << >> => Own(rx[1]) = Current
    BY <1>2 DEF Pending
  <2>3. fw' = fw /\ rx' = rx
    BY <1>1
  <2>. QED BY <1>4, <1>8, <2>1, <2>2, <2>3 DEF Pending, Own
<1>10. QueueInv'
  <2>1. ASSUME NEW j \in 1..n+1 PROVE banks'[j] = Packet(banks'[1], Base + j)
    <3>1. Packet(banks'[1], Base + j) = Packet(Current, Base + j)
      BY <1>8 DEF Packet, Own, Current
    <3>2. CASE j = n + 1
      <4>1. Base + n + 1 = Base + (n + 1)
        BY <1>3
      <4>. QED BY <1>4, <1>6, <3>1, <3>2, <4>1
    <3>3. CASE j # n + 1
      <4>1. j \in 1..n /\ banks # << >>
        BY <1>3, <3>3 DEF n
      <4>2. banks[j] = Packet(banks[1], Base + j)
        BY <1>4, <4>1 DEF IInv, QueueInv
      <4>3. Packet(banks[1], Base + j) = Packet(Current, Base + j)
        BY <1>7, <4>1 DEF Packet, Own, Current
      <4>. QED BY <1>4, <3>1, <4>1, <4>2, <4>3
    <3>. QED BY <3>2, <3>3
  <2>2. fw = "read" /\ rx # << >> => Own(rx[1]) = Current
    BY <1>2 DEF Pending
  <2>3. Own(rx[1])' = Own(rx[1]) /\ Own(banks[1])' = Own(banks'[1])
    BY <1>1 DEF Own
  <2>4. \A j \in DOMAIN rx : rx[j] = Packet(rx[1], j)
    BY DEF IInv, QueueInv
  <2>5. /\ fw = "read" => Len(rx) < OutPackets
        /\ fw \in {"run", "write"} => rx # << >>
    BY DEF IInv, QueueInv
  <2>6. \A j \in DOMAIN banks' : banks'[j] = Packet(banks'[1], Base' + j)
    BY <1>4, <1>9, <2>1
  <2>7. fw' = fw /\ rx' = rx
    BY <1>1
  <2>. QED BY <1>4, <1>8, <2>2, <2>3, <2>4, <2>5, <2>6, <2>7 DEF QueueInv, Packet
<1>11. WireInv' /\ FramesOwn'
  BY <1>1 DEF IInv, WireInv, FramesOwn
<1>12. SendInv' /\ ReceiveInv'
  <2>1. out' = Base' + Len(banks') /\ Current' = Current
    BY <1>1, <1>2, <1>3, <1>4, <1>9 DEF Current
  <2>2. SendInv'
    BY <1>1, <1>2, <1>9, <2>1 DEF SendInv
  <2>3. CASE pc' = "receive"
    <3>1. out' = OutPackets /\ due > 0
      BY <1>0, <1>1, <1>2, <1>3, <2>3 DEF IInv, TypeOK
    <3>2. fw = "read"
      <4>1. Base + n + 1 = OutPackets /\ n < 2
        BY <1>0, <1>1, <1>3, <1>4, <1>9, <2>1, <3>1
      <4>2. Base > 0
        BY <1>0, <1>3, <4>1
      <4>. QED BY <4>2 DEF Base
    <3>3. /\ fw' = "read" /\ due' > 0 /\ no' > 0 /\ buf' = << >>
          /\ Base' + Len(banks') = OutPackets /\ Pending' = Current'
      BY <1>1, <1>2, <1>9, <2>1, <3>1, <3>2
    <3>. QED BY <2>2, <3>3 DEF ReceiveInv
  <2>. QED BY <2>2, <2>3 DEF ReceiveInv
<1>. QED BY <1>1, <1>2, <1>5, <1>10, <1>11, <1>12 DEF IInv, ClientInv

LEMMA ReceivePacketPreserves == ASSUME IInv, HostReceivePacket PROVE IInv'
<1>. DEFINE p == [run |-> run, no |-> no, part |-> part]
            got == Append(buf, p)
<1>0. InPackets \in Nat /\ InPackets > 0
  BY TransportConstantsOK
<1>1. /\ pc = "receive" /\ ready /\ ready' = FALSE /\ comp' = TRUE
      /\ UNCHANGED <<run, no, out, banks, fw, rx, left, part>>
  BY DEF HostReceivePacket
<1>2. /\ fw = "write" /\ part > 0 /\ ~comp /\ Own(rx[1]) = Current /\ banks = << >>
      /\ due > 0 /\ no > 0 /\ run > 0 /\ Len(buf) = part - 1 /\ due = left + 1
  BY <1>1 DEF IInv, WireInv, ClientInv, ReceiveInv, AnswerInv
<1>3. /\ left \in Nat /\ due \in Nat /\ part \in 1..InPackets
      /\ run \in 1..MaxRuns /\ no \in 1..MaxCommands /\ buf \in Seq(Packets(InPackets))
  BY <1>0, <1>2, TransportConstantsOK DEF IInv, TypeOK
<1>4. InPacket = p
  BY <1>2 DEF InPacket, Own, Current
<1>5. IF Len(got) < InPackets
      THEN buf' = got /\ UNCHANGED <<pc, due>>
      ELSE buf' = << >> /\ due' = due - 1 /\ pc' = IF due' = 0 THEN "idle" ELSE "receive"
  BY <1>4 DEF HostReceivePacket
<1>6. p \in Packets(InPackets)
  BY <1>3 DEF Packets
<1>. HIDE DEF p
<1>7. /\ got \in Seq(Packets(InPackets)) /\ Len(got) = part /\ DOMAIN got = 1..part
      /\ got[part] = p /\ DOMAIN buf = 1..part-1 /\ \A j \in 1..part-1 : got[j] = buf[j]
  BY <1>2, <1>3, <1>6
<1>. HIDE DEF got
<1>8. TypeOK'
  <2>1. buf' \in Seq(Packets(InPackets)) /\ Len(buf') < InPackets
    <3>1. CASE Len(got) < InPackets
      BY <1>5, <1>7, <3>1
    <3>2. CASE ~(Len(got) < InPackets)
      BY <1>0, <1>5, <3>2
    <3>. QED BY <3>1, <3>2
  <2>2. due' \in Nat /\ pc' \in {"off", "open", "idle", "send", "receive"}
    BY <1>1, <1>2, <1>3, <1>5
  <2>3. ready' \in BOOLEAN /\ comp' \in BOOLEAN
    BY <1>1
  <2>. QED BY <1>1, <2>1, <2>2, <2>3 DEF IInv, TypeOK
<1>9. QueueInv' /\ WireInv'
  <2>1. QueueInv'
    BY <1>1 DEF IInv, QueueInv, Base, Packet, Own
  <2>. QED BY <1>1, <1>2, <2>1 DEF WireInv
<1>10. FramesOwn'
  <2>1. CASE buf' = got
    <3>1. \A j \in 1..part-1 : buf[j] = [run |-> run, no |-> no, part |-> j]
      BY <1>7 DEF IInv, FramesOwn
    <3>2. \A j \in 1..part : j \in 1..part-1 \/ j = part
      BY <1>3
    <3>. QED BY <1>1, <1>7, <2>1, <3>1, <3>2 DEF FramesOwn, p
  <2>2. CASE buf' = << >>
    BY <2>2 DEF FramesOwn
  <2>. QED BY <1>5, <2>1, <2>2
<1>11. ClientInv'
  <2>1. Own(rx[1])' = Current' /\ Current' = Current
    BY <1>1, <1>2 DEF Own, Current
  <2>2. CASE part < InPackets
    <3>1. pc' = "receive" /\ due' = due /\ Len(buf') = part
      BY <1>1, <1>5, <1>7, <2>2
    <3>2. AnswerInv'
      BY <1>1, <1>2, <1>3, <2>2, <3>1 DEF AnswerInv
    <3>. QED BY <1>1, <1>2, <2>1, <3>1, <3>2 DEF ClientInv, SendInv, ReceiveInv
  <2>3. CASE part = InPackets
    <3>1. buf' = << >> /\ due' = left /\ pc' = IF due' = 0 THEN "idle" ELSE "receive"
      BY <1>2, <1>3, <1>5, <1>7, <2>3
    <3>2. AnswerInv'
      BY <1>1, <1>2, <1>3, <2>3, <3>1 DEF AnswerInv
    <3>3. pc' = "receive" => due' > 0
      BY <1>3, <3>1
    <3>. QED BY <1>1, <1>2, <2>1, <3>1, <3>2, <3>3 DEF ClientInv, SendInv, ReceiveInv
  <2>. QED BY <1>0, <1>3, <2>2, <2>3
<1>. QED BY <1>8, <1>9, <1>10, <1>11 DEF IInv

LEMMA ReadPacketPreserves == ASSUME IInv, FwReadPacket PROVE IInv'
<1>. DEFINE n == Len(rx)
            m == Len(banks)
            c == banks[1]
<1>0. OutPackets \in Nat /\ OutPackets > 2
  BY TransportConstantsOK
<1>1. /\ fw = "read" /\ banks # << >> /\ rx' = Append(rx, c) /\ banks' = Tail(banks)
      /\ fw' = IF Len(rx') < OutPackets THEN "read" ELSE "run"
      /\ UNCHANGED <<pc, run, no, due, out, buf, left, part, ready, comp>>
  BY DEF FwReadPacket, hostVars, txVars
<1>2. /\ rx \in Seq(Packets(OutPackets)) /\ banks \in Seq(Packets(OutPackets))
      /\ n \in Nat /\ n < OutPackets /\ m \in 1..2 /\ DOMAIN rx = 1..n /\ DOMAIN banks = 1..m
  <2>1. /\ rx \in Seq(Packets(OutPackets)) /\ banks \in Seq(Packets(OutPackets))
        /\ n < OutPackets /\ m <= 2
    BY <1>1 DEF IInv, TypeOK, QueueInv, Banks
  <2>2. n \in Nat /\ DOMAIN rx = 1..n /\ m \in Nat /\ DOMAIN banks = 1..m /\ m # 0
    BY <1>1, <2>1
  <2>. QED BY <2>1, <2>2
<1>3. \A j \in 1..m : banks[j] = Packet(c, n + j) /\ banks[j] \in Packets(OutPackets)
  <2>1. ASSUME NEW j \in 1..m PROVE banks[j] \in Packets(OutPackets)
    BY <1>2
  <2>2. Base = n
    BY <1>1 DEF Base
  <2>3. \A j \in DOMAIN banks : banks[j] = Packet(banks[1], Base + j)
    BY DEF IInv, QueueInv
  <2>. QED BY <1>2, <2>1, <2>2, <2>3
<1>. HIDE DEF n, m, c
<1>4. c = Packet(c, n + 1) /\ c \in Packets(OutPackets)
  BY <1>2, <1>3 DEF c
<1>5. /\ rx' \in Seq(Packets(OutPackets)) /\ Len(rx') = n + 1 /\ DOMAIN rx' = 1..n+1
      /\ rx'[n+1] = c /\ rx' # << >> /\ \A j \in 1..n : rx'[j] = rx[j]
  BY <1>1, <1>2, <1>4 DEF n
<1>6. /\ banks' \in Seq(Packets(OutPackets)) /\ Len(banks') = m - 1
      /\ DOMAIN banks' = 1..m-1 /\ \A j \in 1..m-1 : banks'[j] = banks[j+1]
  BY <1>1, <1>2 DEF m
<1>7. Own(rx'[1]) = Own(c) /\ rx'[1] = Packet(c, 1)
  <2>1. CASE n = 0
    BY <1>4, <1>5, <2>1
  <2>2. CASE n # 0
    <3>1. rx # << >> /\ 1 \in 1..n /\ rx'[1] = rx[1]
      BY <1>2, <1>5, <2>2 DEF n
    <3>2. Own(rx[1]) = Own(c)
      BY <1>1, <3>1 DEF IInv, QueueInv, c
    <3>3. rx[1] = Packet(rx[1], 1)
      BY <1>2, <3>1 DEF IInv, QueueInv
    <3>4. rx[1] = Packet(c, 1)
      BY <3>2, <3>3 DEF Own, Packet
    <3>. QED BY <3>1, <3>2, <3>4
  <2>. QED BY <2>1, <2>2
<1>8. \A j \in 1..m : banks[j].part = n + j /\ n + j <= OutPackets /\ Own(banks[j]) = Own(c)
  <2>1. ASSUME NEW j \in 1..m
        PROVE  banks[j].part = n + j /\ n + j <= OutPackets /\ Own(banks[j]) = Own(c)
    <3>1. banks[j] = Packet(c, n + j) /\ banks[j] \in Packets(OutPackets)
      BY <1>3
    <3>2. banks[j].part = n + j /\ Own(banks[j]) = Own(c)
      BY <3>1 DEF Packet, Own
    <3>3. banks[j].part \in 1..OutPackets
      BY <3>1 DEF Packets
    <3>. QED BY <1>0, <3>2, <3>3
  <2>. QED BY <2>1
<1>9. fw' = "read" => n + 1 < OutPackets
  BY <1>1, <1>5
<1>10. fw' = "run" => n + 1 = OutPackets /\ m = 1 /\ banks' = << >>
  <2>1. fw' = "run" => n + 1 = OutPackets
    BY <1>0, <1>1, <1>2, <1>5
  <2>2. m = 2 => n + 2 <= OutPackets
    BY <1>8
  <2>3. m = 1 => banks' = << >>
    BY <1>6
  <2>. QED BY <1>0, <1>2, <2>1, <2>2, <2>3
<1>11. TypeOK'
  <2>1. Len(rx') <= OutPackets /\ Len(banks') <= Banks
    BY <1>0, <1>2, <1>5, <1>6 DEF Banks
  <2>2. fw' \in {"poll", "read", "run", "write"}
    BY <1>1
  <2>. QED BY <1>1, <1>5, <1>6, <2>1, <2>2 DEF IInv, TypeOK
<1>12. \A j \in DOMAIN rx' : rx'[j] = Packet(rx'[1], j)
  <2>1. SUFFICES ASSUME NEW j \in 1..n+1 PROVE rx'[j] = Packet(rx'[1], j)
    BY <1>5
  <2>2. Packet(rx'[1], j) = Packet(c, j)
    BY <1>7 DEF Own, Packet
  <2>3. CASE j = n + 1
    BY <1>4, <1>5, <2>2, <2>3
  <2>4. CASE j # n + 1
    <3>1. j \in 1..n /\ 1 \in 1..n
      BY <1>2, <2>4
    <3>2. rx[j] = Packet(rx[1], j)
      BY <1>2, <3>1 DEF IInv, QueueInv
    <3>. QED BY <1>5, <3>1, <3>2
  <2>. QED BY <2>3, <2>4
<1>13. QueueInv'
  <2>1. fw' = "read" =>
          /\ \A j \in DOMAIN banks' : banks'[j] = Packet(banks'[1], n + 1 + j)
          /\ banks' # << >> => Own(banks'[1]) = Own(rx'[1])
    <3>1. \A j \in 1..m-1 : j + 1 \in 1..m /\ 1 + 1 \in 1..m /\ 1 \in 1..m-1
      BY <1>2
    <3>2. \A j \in 1..m-1 : banks'[j] = Packet(c, n + (j + 1)) /\ Own(banks'[1]) = Own(c)
      BY <1>3, <1>6, <1>8, <3>1
    <3>3. \A j \in 1..m-1 : n + (j + 1) = n + 1 + j
      BY <1>2
    <3>4. \A j \in 1..m-1 : Packet(banks'[1], n + 1 + j) = Packet(c, n + 1 + j)
      BY <3>2 DEF Own, Packet
    <3>5. banks' # << >> => 1 \in 1..m-1
      BY <1>2, <1>6
    <3>. QED BY <1>6, <1>7, <3>2, <3>3, <3>4, <3>5
  <2>2. fw' = "read" => Base' = n + 1
    BY <1>5 DEF Base
  <2>3. Own(rx[1])' = Own(rx'[1]) /\ Own(banks[1])' = Own(banks'[1])
    BY DEF Own
  <2>. QED BY <1>1, <1>5, <1>9, <1>10, <1>12, <2>1, <2>2, <2>3 DEF QueueInv, Packet
<1>14. WireInv' /\ FramesOwn'
  BY <1>1 DEF IInv, WireInv, FramesOwn
<1>15. Pending = Own(c) /\ Own(rx[1])' = Own(c) /\ (fw' = "read" => Pending' = Own(c))
       /\ Current' = Current
  <2>1. rx # << >> => Own(rx[1]) = Own(c)
    BY <1>1 DEF IInv, QueueInv, c
  <2>2. Own(rx[1])' = Own(c)
    BY <1>7 DEF Own
  <2>. QED BY <1>1, <1>5, <2>1, <2>2 DEF Pending, c, Current
<1>16. SendInv'
  <2>1. CASE pc = "send"
    <3>1. no > 0 /\ out < OutPackets /\ out = n + m /\ Own(c) = Current
      BY <1>1, <1>15, <2>1 DEF IInv, ClientInv, SendInv, Base, n, m
    <3>2. fw' = "read"
      BY <1>0, <1>1, <1>2, <1>5, <3>1
    <3>3. out = Base' + Len(banks')
      BY <1>2, <1>5, <1>6, <3>1, <3>2 DEF Base
    <3>. QED BY <1>1, <1>15, <3>1, <3>2, <3>3 DEF SendInv
  <2>. QED BY <1>1, <2>1 DEF SendInv
<1>17. ReceiveInv'
  <2>1. CASE pc = "receive"
    <3>1. due > 0 /\ no > 0 /\ n + m = OutPackets /\ Own(c) = Current /\ buf = << >>
      BY <1>1, <1>15, <2>1 DEF IInv, ClientInv, ReceiveInv, Base, n, m
    <3>2. CASE fw' = "read"
      <4>1. Base' + Len(banks') = OutPackets
        BY <1>2, <1>5, <1>6, <3>1, <3>2 DEF Base
      <4>. QED BY <1>1, <1>15, <3>1, <3>2, <4>1 DEF ReceiveInv
    <3>3. CASE fw' = "run"
      BY <1>1, <1>10, <1>15, <3>1, <3>3 DEF ReceiveInv
    <3>. QED BY <1>1, <3>2, <3>3
  <2>. QED BY <1>1, <2>1 DEF ReceiveInv
<1>18. pc # "idle"
  BY <1>1 DEF IInv, ClientInv
<1>. QED BY <1>1, <1>11, <1>13, <1>14, <1>16, <1>17, <1>18 DEF IInv, ClientInv

LEMMA NextPreserves == ASSUME IInv, [Next]_vars, ~Stalls PROVE IInv'
<1>1. CASE UNCHANGED vars
  BY <1>1 DEF vars, hostVars, txVars, IInv, TypeOK, QueueInv, WireInv, ClientInv, FramesOwn,
              SendInv, ReceiveInv, AnswerInv, Base, Packet, Own, Pending, Current
<1>. QED BY <1>1, ProcessPreserves, CommandPreserves, ConfigurePreserves, PollPreserves,
            TimeoutPreserves, RunPreserves, WritePreserves, SendPacketPreserves,
            ReceivePacketPreserves, ReadPacketPreserves
         DEF Next, Host, Firmware

(* When transmit keeps up with usb_read's time_out, IInv holds.            *)
THEOREM Invariance == ASSUME ~Stalls PROVE Spec => []IInv
<1>1. IInv /\ [Next]_vars => IInv'
  BY NextPreserves
<1>. QED BY <1>1, InitIInv, PTL DEF Spec

(* Every variable keeps its type: a command never has more packets in the  *)
(* banks than there are banks, a frame is never longer than 544 bytes.     *)
THEOREM TypeCorrect == ASSUME ~Stalls PROVE Spec => []TypeOK
<1>1. IInv => TypeOK
  BY DEF IInv
<1>. QED BY <1>1, Invariance, PTL

(* Whatever was killed before, receive collects the packets of one frame   *)
(* in order, and the frame answers the command this process has sent.      *)
THEOREM OwnFrames == ASSUME ~Stalls PROVE Spec => []FramesOwn
<1>1. IInv => FramesOwn
  BY DEF IInv
<1>. QED BY <1>1, Invariance, PTL

(* AppMain executes the beginning of one command, never parts of two.      *)
THEOREM UnmixedCommands == ASSUME ~Stalls PROVE Spec => []CommandsUnmixed
<1>1. IInv => CommandsUnmixed
  <2>. SUFFICES ASSUME IInv, NEW j \in DOMAIN rx PROVE rx[j] = [rx[1] EXCEPT !.part = j]
    BY DEF CommandsUnmixed, Beginning
  <2>1. rx \in Seq(Packets(OutPackets)) /\ 1 \in DOMAIN rx
    BY DEF IInv, TypeOK
  <2>2. rx[1] \in Packets(OutPackets)
    BY <2>1
  <2>3. rx[j] = Packet(rx[1], j)
    BY DEF IInv, QueueInv
  <2>. QED BY <2>2, <2>3 DEF Packet, Packets
<1>. QED BY <1>1, Invariance, PTL
-----------------------------------------------------------------------------
(* Reading a packet leaves the command at the head of the stream the same. *)
LEMMA ReadPacketPending ==
  ASSUME IInv, FwReadPacket
  PROVE  /\ Pending = Own(rx'[1]) /\ rx' # << >> /\ Own(rx'[1]) # Link!None
         /\ fw' = "run" => banks' = << >> /\ pc # "send"
<1>1. IInv'
  BY ReadPacketPreserves
<1>2. /\ fw = "read" /\ banks # << >> /\ rx' = Append(rx, banks[1]) /\ pc' = pc
      /\ banks' = Tail(banks) /\ fw' = IF Len(rx') < OutPackets THEN "read" ELSE "run"
      /\ out' = out
  BY DEF FwReadPacket, hostVars
<1>3. /\ rx \in Seq(Packets(OutPackets)) /\ banks \in Seq(Packets(OutPackets))
      /\ Len(rx) \in Nat /\ Len(banks) \in 1..2 /\ Len(rx) < OutPackets
      /\ banks[1] \in Packets(OutPackets)
  <2>1. /\ rx \in Seq(Packets(OutPackets)) /\ banks \in Seq(Packets(OutPackets))
        /\ Len(banks) <= 2 /\ Len(rx) < OutPackets
    BY <1>2 DEF IInv, TypeOK, QueueInv, Banks
  <2>2. Len(rx) \in Nat /\ Len(banks) \in Nat /\ Len(banks) # 0
    BY <1>2, <2>1
  <2>3. Len(banks) \in 1..2
    <3>. DEFINE m == Len(banks)
    <3>1. m \in Nat /\ m # 0 /\ m <= 2
      BY <2>1, <2>2
    <3>. HIDE DEF m
    <3>2. m \in 1..2
      BY <3>1
    <3>. QED BY <3>2 DEF m
  <2>4. banks[1] \in Packets(OutPackets)
    BY <2>1, <2>3
  <2>. QED BY <2>1, <2>2, <2>3, <2>4
<1>4. rx' # << >> /\ Len(rx') = Len(rx) + 1 /\ rx'[1] = IF rx = << >> THEN banks[1] ELSE rx[1]
  BY <1>2, <1>3
<1>5. Pending = Own(rx'[1])
  BY <1>2, <1>4 DEF Pending
<1>6. rx'[1] \in Packets(OutPackets)
  BY <1>3, <1>4
<1>7. Own(rx'[1]) # Link!None
  BY <1>6, TransportConstantsOK DEF Own, Packets, Link!None
<1>8. ASSUME fw' = "run" PROVE banks' = << >> /\ pc # "send"
  <2>1. Len(rx) + 1 = OutPackets
    BY <1>2, <1>3, <1>4, <1>8, TransportConstantsOK
  <2>2. Len(banks) = 1
    <3>1. CASE Len(banks) = 2
      <4>1. banks[2] = Packet(banks[1], Len(rx) + 2) /\ banks[2] \in Packets(OutPackets)
        <5>1. 2 \in DOMAIN banks /\ Base = Len(rx)
          BY <1>2, <1>3, <3>1 DEF Base
        <5>2. banks[2] = Packet(banks[1], Base + 2)
          BY <5>1 DEF IInv, QueueInv
        <5>. QED BY <1>3, <5>1, <5>2
      <4>2. Len(rx) + 2 \in 1..OutPackets
        BY <4>1 DEF Packet, Packets
      <4>. QED BY <1>3, <2>1, <4>2, TransportConstantsOK
    <3>. QED BY <1>3, <3>1
  <2>3. banks' = << >>
    BY <1>2, <1>3, <2>2
  <2>4. pc # "send"
    BY <1>2, <1>3, <2>1, <2>2, TransportConstantsOK DEF IInv, ClientInv, SendInv, Base
  <2>. QED BY <2>3, <2>4
<1>. QED BY <1>4, <1>5, <1>7, <1>8

(* A packet accepted by a bank does not change what is being sent.         *)
LEMMA SendPacketPending == ASSUME IInv, HostSendPacket PROVE Pending' = Current
<1>. DEFINE p == [run |-> run, no |-> no, part |-> out + 1]
<1>1. /\ pc = "send" /\ banks' = Append(banks, p) /\ UNCHANGED <<fw, rx>>
  BY DEF HostSendPacket
<1>2. Pending = Current
  BY <1>1 DEF IInv, ClientInv, SendInv
<1>3. banks \in Seq(Packets(OutPackets))
  BY DEF IInv, TypeOK
<1>4. Own(p) = Current
  BY DEF Own, Current
<1>. HIDE DEF p
<1>5. banks' # << >> /\ banks'[1] = IF banks = << >> THEN p ELSE banks[1]
  BY <1>1, <1>3
<1>. QED BY <1>1, <1>2, <1>4, <1>5 DEF Pending, Own

(* The refinement, step by step.                                           *)
LEMMA LinkInit == Init => Link!Init
  BY DEF Init, Link!Init, Link!None, Pending, Server, Serving, Written, Jammed, Nothing

LEMMA LinkProcess ==
  ASSUME IInv, HostStart \/ HostRefused \/ HostExit \/ HostCommand
  PROVE  Link!Next
<1>1. UNCHANGED <<banks, fw, rx, left, part, ready, comp>>
  BY DEF HostStart, HostRefused, HostExit, HostCommand, txVars
<1>2. UNCHANGED <<Server, Serving, Written>>
  BY <1>1 DEF Server, Serving, Written, Jammed, Own, Nothing
<1>3. pc # "send" /\ pc' # "send" => Pending' = Pending
  BY <1>1 DEF Pending, Own, Nothing
<1>4. CASE HostStart
  BY <1>1, <1>2, <1>3, <1>4 DEF HostStart, Link!Next, Link!Start, Link!serverVars
<1>5. CASE HostRefused
  BY <1>1, <1>2, <1>3, <1>5 DEF HostRefused, Link!Next, Link!Die, Link!serverVars
<1>6. CASE HostExit
  BY <1>1, <1>2, <1>3, <1>6 DEF HostExit, Link!Next, Link!Leave, Link!serverVars
<1>7. CASE HostCommand
  <2>1. Pending' = [run |-> run, no |-> no + 1]
    <3>1. fw # "read" /\ banks = << >>
      BY <1>7 DEF IInv, ClientInv, HostCommand
    <3>. QED BY <1>1, <1>7, <3>1 DEF HostCommand, Pending
  <2>. QED BY <1>1, <1>2, <1>7, <2>1 DEF HostCommand, Link!Next, Link!Send, Link!serverVars
<1>. QED BY <1>4, <1>5, <1>6, <1>7

LEMMA LinkKill == ASSUME IInv, Kill PROVE Link!Next
<1>1. /\ pc # "off" /\ pc' = "off"
      /\ UNCHANGED <<run, no, due, banks, fw, rx, left, part, ready, comp>>
  BY DEF Kill, txVars
<1>2. UNCHANGED <<Server, Serving, Written>>
  BY <1>1 DEF Server, Serving, Written, Jammed, Own, Nothing
<1>3. Pending' = Pending \/ (pc = "send" /\ Pending' = Link!None)
  BY <1>1 DEF Pending, Own, Nothing, Link!None
<1>. QED BY <1>1, <1>2, <1>3 DEF Link!Next, Link!Die, Link!serverVars

LEMMA LinkConfigure == ASSUME IInv, FwConfigure PROVE Link!Next
<1>1. /\ pc = "open" /\ fw \in {"poll", "write"}
      /\ fw = "write" /\ part # 0 => ~comp
      /\ pc' = "idle" /\ banks' = << >> /\ ready' = FALSE /\ comp' = FALSE
      /\ UNCHANGED <<run, no, due, fw, rx, left, part>>
  BY DEF FwConfigure
<1>2. Pending' = Link!None /\ Written' = Link!None /\ Serving' = Serving
  <2>1. Pending' = Link!None
    BY <1>1 DEF Pending, Nothing, Link!None
  <2>2. Written' = Link!None
    BY <1>1 DEF Written, Nothing, Link!None
  <2>3. Serving' = Serving
    BY <1>1 DEF Serving, Own, Nothing
  <2>. QED BY <2>1, <2>2, <2>3
<1>3. fw = "write" => Own(rx[1]) # Link!None
  <2>1. fw = "write" => rx # << >> /\ rx \in Seq(Packets(OutPackets))
    BY DEF IInv, QueueInv, TypeOK
  <2>2. fw = "write" => rx[1] \in Packets(OutPackets)
    BY <2>1
  <2>. QED BY <2>2, TransportConstantsOK DEF Own, Packets, Link!None
<1>4. Server' = IF Written # Link!None THEN "jammed" ELSE Server
  <2>1. CASE fw = "poll"
    BY <1>1, <2>1 DEF Server, Written, Jammed, Nothing, Link!None
  <2>2. CASE fw = "write" /\ part > 0
    <3>1. Jammed' /\ Server' = "jammed"
      BY <1>1, <2>2 DEF Server, Jammed
    <3>2. CASE ready
      BY <1>3, <2>2, <3>1, <3>2 DEF Written
    <3>3. CASE ~ready
      BY <1>1, <2>2, <3>1, <3>3 DEF Server, Written, Jammed, Nothing, Link!None
    <3>. QED BY <3>2, <3>3
  <2>3. CASE fw = "write" /\ ~(part > 0)
    BY <1>1, <2>3 DEF Server, Written, Jammed, Nothing, Link!None
  <2>. QED BY <1>1, <2>1, <2>2, <2>3
<1>5. UNCHANGED <<run, no, due, Serving, left>>
  BY <1>1, <1>2
<1>6. Link!Reset
  BY <1>1, <1>2, <1>4, <1>5 DEF Link!Reset
<1>. QED BY <1>6 DEF Link!Next

LEMMA LinkPoll == ASSUME IInv, FwPoll PROVE UNCHANGED Link!vars
<1>1. /\ fw = "poll" /\ banks # << >> /\ fw' = "read" /\ rx' = << >>
      /\ UNCHANGED <<pc, run, no, due, banks, left, part, ready, comp>>
  BY DEF FwPoll, hostVars, txVars
<1>2. Pending' = Pending
  BY <1>1 DEF Pending, Own
<1>3. UNCHANGED <<Server, Serving, Written>>
  BY <1>1 DEF Server, Serving, Written, Jammed, Nothing
<1>. QED BY <1>1, <1>2, <1>3 DEF Link!vars, Link!clientVars, Link!serverVars

LEMMA LinkSendPacket == ASSUME IInv, HostSendPacket PROVE [Link!Next]_(Link!vars)
<1>1. /\ pc = "send" /\ UNCHANGED <<run, no, due, fw, rx, left, part, ready, comp>>
      /\ pc' = "send" \/ pc' = IF due = 0 THEN "off" ELSE "receive"
  BY DEF HostSendPacket, txVars
<1>2. UNCHANGED <<Server, Serving, Written>>
  BY <1>1 DEF Server, Serving, Written, Jammed, Own, Nothing
<1>3. Pending' = Pending
  <2>1. Pending = Current
    BY <1>1 DEF IInv, ClientInv, SendInv
  <2>2. Pending' = Current
    BY SendPacketPending
  <2>. QED BY <2>1, <2>2
<1>4. CASE pc' = "send"
  BY <1>1, <1>2, <1>3, <1>4 DEF Link!vars, Link!clientVars, Link!serverVars
<1>5. CASE pc' = IF due = 0 THEN "off" ELSE "receive"
  <2>1. Link!Sent
    BY <1>1, <1>2, <1>3, <1>5 DEF Link!Sent, Link!serverVars
  <2>. QED BY <2>1 DEF Link!Next
<1>. QED BY <1>1, <1>4, <1>5

LEMMA LinkReadPacket == ASSUME IInv, FwReadPacket PROVE [Link!Next]_(Link!vars)
<1>1. /\ fw = "read" /\ banks # << >> /\ rx' = Append(rx, banks[1])
      /\ banks' = Tail(banks) /\ fw' \in {"read", "run"}
      /\ UNCHANGED <<pc, run, no, due, left, part, ready, comp>>
  BY DEF FwReadPacket, hostVars, txVars
<1>2. Pending = Own(rx'[1]) /\ rx' # << >> /\ Own(rx'[1]) # Link!None
      /\ (fw' = "run" => banks' = << >> /\ pc # "send")
  BY ReadPacketPending, <1>1
<1>3. Written' = Written /\ Written = Nothing
  BY <1>1 DEF Written
<1>4. Server = "poll" /\ Serving = Nothing
  BY <1>1 DEF Server, Serving, Jammed
<1>5. CASE fw' = "read"
  <2>1. Server' = "poll" /\ Serving' = Nothing /\ Pending' = Pending
    BY <1>1, <1>2, <1>5 DEF Server, Serving, Jammed, Nothing, Pending, Own
  <2>. QED BY <1>1, <1>3, <1>4, <2>1 DEF Link!vars, Link!clientVars, Link!serverVars
<1>6. CASE fw' = "run"
  <2>1. Server' = "run" /\ Serving' = Pending /\ Pending' = Link!None
    BY <1>1, <1>2, <1>6 DEF Server, Serving, Jammed, Pending, Own, Nothing, Link!None
  <2>2. Link!Fetch
    BY <1>1, <1>2, <1>3, <1>4, <1>6, <2>1 DEF Link!Fetch, Link!clientVars
  <2>. QED BY <2>2 DEF Link!Next
<1>. QED BY <1>1, <1>5, <1>6

LEMMA LinkTimeout == ASSUME IInv, FwTimeout, ~Stalls PROVE Link!Next
<1>1. /\ fw = "read" /\ rx # << >> /\ pc # "send" /\ banks = << >> /\ fw' = "run"
      /\ UNCHANGED <<pc, run, no, due, banks, rx, left, part, ready, comp>>
  BY DEF FwTimeout, hostVars, txVars
<1>2. Pending = Own(rx[1]) /\ Pending' = Link!None
  BY <1>1 DEF Pending, Nothing, Link!None
<1>3. Server = "poll" /\ Server' = "run" /\ Serving' = Own(rx[1]) /\ Written' = Written
  BY <1>1 DEF Server, Serving, Written, Jammed, Own
<1>4. Own(rx[1]) # Link!None
  <2>1. rx[1] \in Packets(OutPackets)
    BY <1>1 DEF IInv, TypeOK
  <2>. QED BY <2>1, TransportConstantsOK DEF Own, Packets, Link!None
<1>5. Link!Fetch
  BY <1>1, <1>2, <1>3, <1>4 DEF Link!Fetch, Link!clientVars
<1>. QED BY <1>5 DEF Link!Next

LEMMA LinkRun == ASSUME IInv, FwRun PROVE Link!Next
<1>1. /\ fw = "run" /\ fw' = "write"
      /\ UNCHANGED <<pc, run, no, due, banks, rx, part, ready, comp>>
      /\ \/ pc = "receive" /\ rx[1] = [run |-> run, no |-> no, part |-> 1] /\ left' = due
         \/ ~(pc = "receive" /\ rx[1] = [run |-> run, no |-> no, part |-> 1])
            /\ left' \in Answers
  BY DEF FwRun, hostVars
<1>2. part = 0
  BY <1>1 DEF IInv, TypeOK, WireInv
<1>3. Server = "run" /\ Server' = "write" /\ Serving = Own(rx[1]) /\ Serving' = Serving
      /\ Written' = Written /\ Pending' = Pending
  <2>1. Server = "run" /\ Server' = "write"
    BY <1>1, <1>2 DEF Server, Jammed
  <2>2. Serving = Own(rx[1]) /\ Serving' = Serving
    BY <1>1 DEF Serving, Own
  <2>3. Written' = Written
    BY <1>1, <1>2 DEF Written, Nothing
  <2>4. Pending' = Pending
    BY <1>1 DEF Pending, Own, Nothing
  <2>. QED BY <2>1, <2>2, <2>3, <2>4
<1>4. Own(rx[1]) = Link!Command <=> rx[1] = [run |-> run, no |-> no, part |-> 1]
  <2>1. 1 \in DOMAIN rx
    BY <1>1 DEF IInv, TypeOK, QueueInv
  <2>2. rx[1] = [run |-> rx[1].run, no |-> rx[1].no, part |-> 1]
    BY <2>1 DEF IInv, QueueInv, Packet
  <2>. QED BY <2>2 DEF Own, Link!Command
<1>5. Link!Execute
  BY <1>1, <1>3, <1>4 DEF Link!Execute, Link!clientVars
<1>. QED BY <1>5 DEF Link!Next

LEMMA LinkReceivePacket == ASSUME IInv, HostReceivePacket PROVE [Link!Next]_(Link!vars)
<1>1. /\ pc = "receive" /\ ready /\ ready' = FALSE /\ comp' = TRUE
      /\ UNCHANGED <<run, no, out, banks, fw, rx, left, part>>
  BY DEF HostReceivePacket
<1>2. /\ fw = "write" /\ part > 0 /\ ~comp /\ Own(rx[1]) = Current
      /\ Len(buf) = part - 1 /\ part \in Nat /\ part <= InPackets /\ InPackets \in Nat
  BY <1>1, TransportConstantsOK DEF IInv, TypeOK, WireInv, ClientInv, ReceiveInv, AnswerInv
<1>3. Len(Append(buf, InPacket)) = part
  <2>1. buf \in Seq(Packets(InPackets))
    BY DEF IInv, TypeOK
  <2>. QED BY <1>2, <2>1
<1>4. /\ Server' = Server /\ Serving' = Serving /\ Pending' = Pending
      /\ Written = Current
  <2>1. Server' = Server
    BY <1>1, <1>2 DEF Server, Jammed
  <2>2. Serving' = Serving
    BY <1>1 DEF Serving, Own, Nothing
  <2>3. Pending' = Pending
    <3>1. pc' # "send"
      BY <1>1 DEF HostReceivePacket
    <3>. QED BY <1>1, <3>1 DEF Pending, Own, Nothing
  <2>4. Written = Current
    BY <1>1, <1>2 DEF Written
  <2>. QED BY <2>1, <2>2, <2>3, <2>4
<1>5. CASE part < InPackets
  <2>1. UNCHANGED <<pc, due>>
    BY <1>3, <1>5 DEF HostReceivePacket
  <2>2. Own(rx[1])' = Own(rx[1])
    BY <1>1 DEF Own
  <2>3. Written' = Written
    BY <1>1, <1>2, <1>4, <1>5, <2>2 DEF Written
  <2>. QED BY <1>1, <1>4, <2>1, <2>3 DEF Link!vars, Link!clientVars, Link!serverVars
<1>6. CASE part = InPackets
  <2>1. due' = due - 1 /\ pc' = IF due' = 0 THEN "idle" ELSE "receive"
    BY <1>2, <1>3, <1>6 DEF HostReceivePacket
  <2>2. Written' = Link!None
    BY <1>1, <1>2, <1>6 DEF Written, Nothing, Link!None
  <2>3. Link!Command = Current
    BY DEF Link!Command, Current
  <2>4. Link!Take
    BY <1>1, <1>4, <2>1, <2>2, <2>3 DEF Link!Take
  <2>. QED BY <2>4 DEF Link!Next
<1>. QED BY <1>2, <1>5, <1>6

LEMMA LinkWrite ==
  ASSUME IInv, FwWriteFirst \/ FwWriteNext \/ FwReturn
  PROVE  [Link!Next]_(Link!vars)
<1>1. fw = "write" /\ UNCHANGED <<pc, run, no, due, banks, rx>>
  BY DEF FwWriteFirst, FwWriteNext, FwReturn, hostVars
<1>2. /\ Own(rx[1])' = Own(rx[1]) /\ (fw' # "read" => Pending' = Pending)
      /\ Serving = Own(rx[1]) /\ (fw' = "write" => Serving' = Serving)
  BY <1>1 DEF Own, Pending, Serving, Nothing
<1>3. part \in Nat /\ part <= InPackets /\ InPackets \in Nat /\ InPackets > 0
  BY TransportConstantsOK DEF IInv, TypeOK
<1>4. CASE FwWriteFirst
  <2>1. /\ part = 0 /\ left > 0 /\ left' = left - 1 /\ part' = 1 /\ ready' = TRUE
        /\ fw' = "write"
    BY <1>4 DEF FwWriteFirst
  <2>2. Server = "write" /\ Server' = "write"
    BY <1>1, <2>1 DEF Server, Jammed
  <2>3. Written = Link!None /\ Written' = Serving
    BY <1>1, <1>2, <2>1 DEF Written, Nothing, Link!None
  <2>4. Link!Offer
    BY <1>1, <1>2, <2>1, <2>2, <2>3 DEF Link!Offer, Link!clientVars
  <2>. QED BY <2>4 DEF Link!Next
<1>5. CASE FwWriteNext
  <2>1. /\ part > 0 /\ comp /\ comp' = FALSE /\ left' = left /\ fw' = "write"
        /\ part < InPackets => part' = part + 1 /\ ready' = TRUE
        /\ ~(part < InPackets) => part' = 0 /\ ready' = ready
    BY <1>1, <1>5 DEF FwWriteNext
  <2>2. ~ready
    BY <2>1 DEF IInv, WireInv
  <2>3. Server' = Server
    BY <1>1, <1>3, <2>1 DEF Server, Jammed
  <2>4. Written' = Written
    BY <1>1, <1>2, <1>3, <2>1, <2>2 DEF Written, Nothing
  <2>. QED BY <1>1, <1>2, <2>1, <2>3, <2>4 DEF Link!vars, Link!clientVars, Link!serverVars
<1>6. CASE FwReturn
  <2>1. part = 0 /\ left = 0 /\ fw' = "poll" /\ UNCHANGED <<left, part, ready, comp>>
    BY <1>6 DEF FwReturn, txVars
  <2>2. Server = "write" /\ Server' = "poll"
    BY <1>1, <2>1 DEF Server, Jammed
  <2>3. Written = Link!None /\ Written' = Written /\ Serving' = Link!None
    BY <1>1, <2>1 DEF Written, Serving, Nothing, Link!None
  <2>4. Link!Served
    BY <1>1, <1>2, <2>1, <2>2, <2>3 DEF Link!Served, Link!clientVars
  <2>. QED BY <2>4 DEF Link!Next
<1>. QED BY <1>4, <1>5, <1>6

LEMMA LinkStep == ASSUME IInv, [Next]_vars, ~Stalls PROVE [Link!Next]_(Link!vars)
<1>1. CASE UNCHANGED vars
  BY <1>1 DEF vars, hostVars, txVars, Link!vars, Link!clientVars, Link!serverVars,
              Pending, Server, Serving, Written, Jammed, Own, Nothing
<1>. QED BY <1>1, LinkProcess, LinkKill, LinkConfigure, LinkPoll, LinkSendPacket,
            LinkReadPacket, LinkTimeout, LinkRun, LinkReceivePacket, LinkWrite
         DEF Next, Host, Firmware

(* The packet level implements the rendezvous of whole frames, with        *)
(* processes that are killed anywhere, for every length of commands and    *)
(* frames.                                                                 *)
THEOREM ImplementsFrameLink == ASSUME ~Stalls PROVE Spec => LinkSpec
<1>1. IInv /\ [Next]_vars => [Link!Next]_(Link!vars)
  BY LinkStep
<1>. QED BY <1>1, LinkInit, Invariance, PTL DEF Spec, LinkSpec, Link!Spec
=============================================================================
