-------------------------- MODULE UsbObject_proofs --------------------------
(***************************************************************************)
(* Proofs about UsbObject, for any number of users, interfaces, devices,   *)
(* parts and calls.                                                        *)
(***************************************************************************)
EXTENDS UsbObject, SequenceTheorems, TLAPS

(* Where a thread can be, and in which call.                               *)
Opening  == {"open", "close_first", "relist", "find", "libusb_open"}
OpenedUp == {"reset", "resetting", "descriptors", "describing"}
Places   ==
  Opening \cup OpenedUp
  \cup {"out", "loop", "enter", "libusb", "close", "async_open", "catch", "endpoints"}
AllCalls == UsbCalls \cup AsyncCalls
Ops      == AllCalls \cup {"close", "open"}

Types ==
  /\ class \in {"usb_t", "async_usb_t"}
  /\ alive \in BOOLEAN /\ info \in BOOLEAN
  /\ opens \in Nat /\ handle \in 0..opens /\ opens <= MaxOpens
  /\ at \in [Threads -> Places] /\ op \in [Threads -> Ops]
  /\ no \in [Threads -> Nat] /\ i \in [Threads -> Nat] /\ hnd \in [Threads -> Nat]

(* The mutex is the thread's that is in libusb.                            *)
Locking == \A t \in Threads : lock = t <=> at[t] \in InLibusb /\ op[t] \notin Unlocked

(* One handle is open, the object's.                                       *)
OneOpen == open = {handle} \ {nullptr}
Passed ==
  \A t \in Threads :
    at[t] \in InLibusb /\ op[t] \notin Unlocked \cup Unlooked =>
      hnd[t] = handle /\ handle # nullptr

(* Only the owner opens and closes, it has no handle before libusb_open    *)
(* and one after it, and it comes to libusb_open once a call.              *)
Placed ==
  \A t \in Threads :
    /\ at[t] \in {"enter", "libusb", "loop"} => op[t] \in AllCalls
    /\ at[t] \notin {"out", "enter", "libusb", "loop"} => t = Owner
    /\ at[t] \in Opening \cup OpenedUp => op[t] = "open"
    /\ at[t] \in {"relist", "find", "libusb_open", "async_open"} => handle = nullptr
    /\ at[t] \in OpenedUp => handle # nullptr
    /\ at[t] \in Opening \cup {"async_open"} => opens < MaxOpens

(* How far a thread has come.                                              *)
Counted ==
  \A t \in Threads :
    /\ no[t] <= MaxCalls[t] /\ i[t] <= Interfaces + Devices + Parts
    /\ at[t] \in {"open", "close_first", "relist", "loop"} => i[t] = 0
    /\ at[t] = "find" => i[t] < Devices
    /\ at[t] \in {"enter", "libusb"} /\ op[t] \in Looped => i[t] < Interfaces
    /\ at[t] = "enter" /\ op[t] \notin Looped => i[t] = 0
    /\ at[t] = "libusb" /\ op[t] \notin Looped => i[t] < Parts

IInv == Types /\ Locking /\ OneOpen /\ Passed /\ Placed /\ Counted
-----------------------------------------------------------------------------
USE UsbConstants
    DEF Threads, nullptr, NoOne, object, Quiet, UsbCalls, AsyncCalls, AllCalls,
        Ops, Looped, Sends, Unlocked, Unlooked, InLibusb, Opening, OpenedUp, Places

(* A thread begins a call: the owner one of open only while there are opens left. *)
LEMMA BeginKeeps ==
  ASSUME IInv, NEW t \in Threads, Begin(t)
  PROVE  IInv'
<1>1. Types'
  BY DEF Begin, Go, Calls, IInv, Types, Placed
<1>2. Locking'
  BY DEF Begin, Go, Calls, IInv, Types, Locking, Placed
<1>3. OneOpen'
  BY DEF Begin, Go, Calls, IInv, Types, OneOpen, Placed
<1>4. Passed'
  BY DEF Begin, Go, Calls, IInv, Types, Locking, Passed, Placed
<1>5. Placed'
  BY DEF Begin, Go, Calls, IInv, Types, Placed
<1>6. Counted'
  BY DEF Begin, Go, Calls, IInv, Types, Placed, Counted
<1>. QED BY <1>1, <1>2, <1>3, <1>4, <1>5, <1>6 DEF IInv

LEMMA LoopKeeps ==
  ASSUME IInv, NEW t \in Threads, Loop(t)
  PROVE  IInv'
<1>1. Types'
  BY DEF Loop, Goto, Go, IInv, Types, Placed
<1>2. Locking'
  BY DEF Loop, Goto, Go, IInv, Types, Locking, Placed
<1>3. OneOpen'
  BY DEF Loop, Goto, Go, IInv, Types, OneOpen, Placed
<1>4. Passed'
  BY DEF Loop, Goto, Go, IInv, Types, Locking, Passed, Placed
<1>5. Placed'
  BY DEF Loop, Goto, Go, IInv, Types, Placed
<1>6. Counted'
  BY DEF Loop, Goto, Go, IInv, Types, Placed, Counted
<1>. QED BY <1>1, <1>2, <1>3, <1>4, <1>5, <1>6 DEF IInv

LEMMA InfoKeeps ==
  ASSUME IInv, NEW t \in Threads, Info(t)
  PROVE  IInv'
<1>1. Types'
  BY DEF Info, Held, Goto, Go, IInv, Types, Placed
<1>2. Locking'
  BY DEF Info, Held, Goto, Go, IInv, Types, Locking, Placed
<1>3. OneOpen'
  BY DEF Info, Held, Goto, Go, IInv, Types, OneOpen, Placed
<1>4. Passed'
  BY DEF Info, Held, Goto, Go, IInv, Types, Locking, Passed, Placed
<1>5. Placed'
  BY DEF Info, Held, Goto, Go, IInv, Types, Placed
<1>6. Counted'
  BY DEF Info, Held, Goto, Go, IInv, Types, Placed, Counted
<1>. QED BY <1>1, <1>2, <1>3, <1>4, <1>5, <1>6 DEF IInv

(* The mutex is free when it is taken, and the handle taken is the object's. *)
LEMMA EnterKeeps ==
  ASSUME IInv, NEW t \in Threads, Enter(t)
  PROVE  IInv'
<1>1. Types'
  BY DEF Enter, Goto, Go, Free, IInv, Types, Placed
<1>2. Locking'
  BY DEF Enter, Goto, Go, Free, IInv, Types, Locking, Placed
<1>3. OneOpen'
  BY DEF Enter, Goto, Go, Free, IInv, Types, OneOpen, Placed
<1>4. Passed'
  BY DEF Enter, Goto, Go, Free, IInv, Types, Locking, Passed, Placed
<1>5. Placed'
  BY DEF Enter, Goto, Go, Free, IInv, Types, Placed
<1>6. Counted'
  BY DEF Enter, Goto, Go, Free, IInv, Types, Placed, Counted
<1>. QED BY <1>1, <1>2, <1>3, <1>4, <1>5, <1>6 DEF IInv

(* The calls that end when libusb returns. *)
LEMMA OverKeeps ==
  ASSUME IInv, NEW t \in Threads, NEW call \in AllCalls, Over(t, call)
  PROVE  IInv'
<1>1. Types'
  BY DEF Over, Leave, Unlock, Goto, Go, IInv, Types, Placed
<1>2. Locking'
  BY DEF Over, Leave, Unlock, Goto, Go, IInv, Types, Locking, Placed
<1>3. OneOpen'
  BY DEF Over, Leave, Unlock, Goto, Go, IInv, Types, OneOpen, Placed
<1>4. Passed'
  BY DEF Over, Leave, Unlock, Goto, Go, IInv, Types, Locking, Passed, Placed
<1>5. Placed'
  BY DEF Over, Leave, Unlock, Goto, Go, IInv, Types, Placed
<1>6. Counted'
  BY DEF Over, Leave, Unlock, Goto, Go, IInv, Types, Placed, Counted
<1>. QED BY <1>1, <1>2, <1>3, <1>4, <1>5, <1>6 DEF IInv

LEMMA TransmitInterruptKeeps ==
  ASSUME IInv, NEW t \in Threads, TransmitInterrupt(t)
  PROVE  IInv'
<1>1. Types'
  BY DEF TransmitInterrupt, Over, Leave, Unlock, Goto, Go, IInv, Types, Placed
<1>2. Locking'
  BY DEF TransmitInterrupt, Over, Leave, Unlock, Goto, Go, IInv, Types, Locking, Placed
<1>3. OneOpen'
  BY DEF TransmitInterrupt, Over, Leave, Unlock, Goto, Go, IInv, Types, OneOpen, Placed
<1>4. Passed'
  BY DEF TransmitInterrupt, Over, Leave, Unlock, Goto, Go, IInv, Types, Locking, Passed, Placed
<1>5. Placed'
  BY DEF TransmitInterrupt, Over, Leave, Unlock, Goto, Go, IInv, Types, Placed
<1>6. Counted'
  BY DEF TransmitInterrupt, Over, Leave, Unlock, Goto, Go, IInv, Types, Placed, Counted
<1>. QED BY <1>1, <1>2, <1>3, <1>4, <1>5, <1>6 DEF IInv

LEMMA NextInterfaceKeeps ==
  ASSUME IInv, NEW t \in Threads, NEW call \in Looped, NextInterface(t, call)
  PROVE  IInv'
<1>1. Types'
  BY DEF NextInterface, Leave, Unlock, Goto, Go, IInv, Types, Placed
<1>2. Locking'
  BY DEF NextInterface, Leave, Unlock, Goto, Go, IInv, Types, Locking, Placed
<1>3. OneOpen'
  BY DEF NextInterface, Leave, Unlock, Goto, Go, IInv, Types, OneOpen, Placed
<1>4. Passed'
  BY DEF NextInterface, Leave, Unlock, Goto, Go, IInv, Types, Locking, Passed, Placed
<1>5. Placed'
  BY DEF NextInterface, Leave, Unlock, Goto, Go, IInv, Types, Placed
<1>6. Counted'
  BY DEF NextInterface, Leave, Unlock, Goto, Go, IInv, Types, Placed, Counted
<1>. QED BY <1>1, <1>2, <1>3, <1>4, <1>5, <1>6 DEF IInv

LEMMA ReceiveKeeps ==
  ASSUME IInv, NEW t \in Threads, Receive(t)
  PROVE  IInv'
<1>1. Types'
  BY DEF Receive, Leave, Unlock, Goto, Go, IInv, Types, Placed
<1>2. Locking'
  BY DEF Receive, Leave, Unlock, Goto, Go, IInv, Types, Locking, Placed
<1>3. OneOpen'
  BY DEF Receive, Leave, Unlock, Goto, Go, IInv, Types, OneOpen, Placed
<1>4. Passed'
  BY DEF Receive, Leave, Unlock, Goto, Go, IInv, Types, Locking, Passed, Placed
<1>5. Placed'
  BY DEF Receive, Leave, Unlock, Goto, Go, IInv, Types, Placed
<1>6. Counted'
  BY DEF Receive, Leave, Unlock, Goto, Go, IInv, Types, Placed, Counted
<1>. QED BY <1>1, <1>2, <1>3, <1>4, <1>5, <1>6 DEF IInv

(* What SendFails and SendOnce have in common. *)
LEMMA SentKeeps ==
  ASSUME IInv, NEW t \in Threads, at[t] = "libusb", Leave(t), Goto(t, "out")
  PROVE  IInv'
<1>1. Types'
  BY DEF Leave, Unlock, Goto, Go, IInv, Types, Placed
<1>2. Locking'
  BY DEF Leave, Unlock, Goto, Go, IInv, Types, Locking, Placed
<1>3. OneOpen'
  BY DEF Leave, Unlock, Goto, Go, IInv, Types, OneOpen, Placed
<1>4. Passed'
  BY DEF Leave, Unlock, Goto, Go, IInv, Types, Locking, Passed, Placed
<1>5. Placed'
  BY DEF Leave, Unlock, Goto, Go, IInv, Types, Placed
<1>6. Counted'
  BY DEF Leave, Unlock, Goto, Go, IInv, Types, Placed, Counted
<1>. QED BY <1>1, <1>2, <1>3, <1>4, <1>5, <1>6 DEF IInv

LEMMA SendRestKeeps ==
  ASSUME IInv, NEW t \in Threads, SendRest(t)
  PROVE  IInv'
<1>1. Types'
  BY DEF SendRest, Room, Leave, Unlock, Go, IInv, Types, Placed
<1>2. Locking'
  BY DEF SendRest, Room, Leave, Unlock, Go, IInv, Types, Locking, Placed
<1>3. OneOpen'
  BY DEF SendRest, Room, Leave, Unlock, Go, IInv, Types, OneOpen, Placed
<1>4. Passed'
  BY DEF SendRest, Room, Leave, Unlock, Go, IInv, Types, Locking, Passed, Placed
<1>5. Placed'
  BY DEF SendRest, Room, Leave, Unlock, Go, IInv, Types, Placed
<1>6. Counted'
  BY DEF SendRest, Room, Leave, Unlock, Go, IInv, Types, Placed, Counted
<1>. QED BY <1>1, <1>2, <1>3, <1>4, <1>5, <1>6 DEF IInv

LEMMA OpenKeeps ==
  ASSUME IInv, NEW t \in Threads, Open(t)
  PROVE  IInv'
<1>1. Types'
  BY DEF Open, List, Held, Goto, Go, IInv, Types, Placed
<1>2. Locking'
  BY DEF Open, List, Held, Goto, Go, IInv, Types, Locking, Placed
<1>3. OneOpen'
  BY DEF Open, List, Held, Goto, Go, IInv, Types, OneOpen, Placed
<1>4. Passed'
  BY DEF Open, List, Held, Goto, Go, IInv, Types, Locking, Passed, Placed
<1>5. Placed'
  BY DEF Open, List, Held, Goto, Go, IInv, Types, Placed
<1>6. Counted'
  BY DEF Open, List, Held, Goto, Go, IInv, Types, Placed, Counted
<1>. QED BY <1>1, <1>2, <1>3, <1>4, <1>5, <1>6 DEF IInv

LEMMA RelistKeeps ==
  ASSUME IInv, NEW t \in Threads, Relist(t)
  PROVE  IInv'
<1>1. Types'
  BY DEF Relist, List, Held, Goto, Go, IInv, Types, Placed
<1>2. Locking'
  BY DEF Relist, List, Held, Goto, Go, IInv, Types, Locking, Placed
<1>3. OneOpen'
  BY DEF Relist, List, Held, Goto, Go, IInv, Types, OneOpen, Placed
<1>4. Passed'
  BY DEF Relist, List, Held, Goto, Go, IInv, Types, Locking, Passed, Placed
<1>5. Placed'
  BY DEF Relist, List, Held, Goto, Go, IInv, Types, Placed
<1>6. Counted'
  BY DEF Relist, List, Held, Goto, Go, IInv, Types, Placed, Counted
<1>. QED BY <1>1, <1>2, <1>3, <1>4, <1>5, <1>6 DEF IInv

LEMMA FindKeeps ==
  ASSUME IInv, NEW t \in Threads, Find(t)
  PROVE  IInv'
<1>1. Types'
  BY DEF Find, Held, Goto, Go, IInv, Types, Placed
<1>2. Locking'
  BY DEF Find, Held, Goto, Go, IInv, Types, Locking, Placed
<1>3. OneOpen'
  BY DEF Find, Held, Goto, Go, IInv, Types, OneOpen, Placed
<1>4. Passed'
  BY DEF Find, Held, Goto, Go, IInv, Types, Locking, Passed, Placed
<1>5. Placed'
  BY DEF Find, Held, Goto, Go, IInv, Types, Placed
<1>6. Counted'
  BY DEF Find, Held, Goto, Go, IInv, Types, Placed, Counted
<1>. QED BY <1>1, <1>2, <1>3, <1>4, <1>5, <1>6 DEF IInv

(* The object has no handle yet, and nobody is in libusb with one. *)
LEMMA LibusbOpenKeeps ==
  ASSUME IInv, NEW t \in Threads, LibusbOpen(t)
  PROVE  IInv'
<1>1. Types'
  BY DEF LibusbOpen, Opened, Held, Free, Goto, Go, IInv, Types, Placed
<1>2. Locking'
  BY DEF LibusbOpen, Opened, Held, Free, Goto, Go, IInv, Types, Locking, Placed
<1>3. OneOpen'
  BY DEF LibusbOpen, Opened, Held, Free, Goto, Go, IInv, Types, OneOpen, Placed
<1>4. Passed'
  BY DEF LibusbOpen, Opened, Held, Free, Goto, Go, IInv, Types, Locking, Passed, Placed
<1>5. Placed'
  BY DEF LibusbOpen, Opened, Held, Free, Goto, Go, IInv, Types, Placed
<1>6. Counted'
  BY DEF LibusbOpen, Opened, Held, Free, Goto, Go, IInv, Types, Placed, Counted
<1>. QED BY <1>1, <1>2, <1>3, <1>4, <1>5, <1>6 DEF IInv

LEMMA ResetKeeps ==
  ASSUME IInv, NEW t \in Threads, Reset(t)
  PROVE  IInv'
<1>1. Types'
  BY DEF Reset, Go, Free, IInv, Types, Placed
<1>2. Locking'
  BY DEF Reset, Go, Free, IInv, Types, Locking, Placed
<1>3. OneOpen'
  BY DEF Reset, Go, Free, IInv, Types, OneOpen, Placed
<1>4. Passed'
  BY DEF Reset, Go, Free, IInv, Types, Locking, Passed, Placed
<1>5. Placed'
  BY DEF Reset, Go, Free, IInv, Types, Placed
<1>6. Counted'
  BY DEF Reset, Go, Free, IInv, Types, Placed, Counted
<1>. QED BY <1>1, <1>2, <1>3, <1>4, <1>5, <1>6 DEF IInv

LEMMA ResetDoneKeeps ==
  ASSUME IInv, NEW t \in Threads, ResetDone(t)
  PROVE  IInv'
<1>1. Types'
  BY DEF ResetDone, Leave, Unlock, Goto, Go, IInv, Types, Placed
<1>2. Locking'
  BY DEF ResetDone, Leave, Unlock, Goto, Go, IInv, Types, Locking, Placed
<1>3. OneOpen'
  BY DEF ResetDone, Leave, Unlock, Goto, Go, IInv, Types, OneOpen, Placed
<1>4. Passed'
  BY DEF ResetDone, Leave, Unlock, Goto, Go, IInv, Types, Locking, Passed, Placed
<1>5. Placed'
  BY DEF ResetDone, Leave, Unlock, Goto, Go, IInv, Types, Placed
<1>6. Counted'
  BY DEF ResetDone, Leave, Unlock, Goto, Go, IInv, Types, Placed, Counted
<1>. QED BY <1>1, <1>2, <1>3, <1>4, <1>5, <1>6 DEF IInv

LEMMA DescribeKeeps ==
  ASSUME IInv, NEW t \in Threads, Describe(t)
  PROVE  IInv'
<1>1. Types'
  BY DEF Describe, Go, Free, IInv, Types, Placed
<1>2. Locking'
  BY DEF Describe, Go, Free, IInv, Types, Locking, Placed
<1>3. OneOpen'
  BY DEF Describe, Go, Free, IInv, Types, OneOpen, Placed
<1>4. Passed'
  BY DEF Describe, Go, Free, IInv, Types, Locking, Passed, Placed
<1>5. Placed'
  BY DEF Describe, Go, Free, IInv, Types, Placed
<1>6. Counted'
  BY DEF Describe, Go, Free, IInv, Types, Placed, Counted
<1>. QED BY <1>1, <1>2, <1>3, <1>4, <1>5, <1>6 DEF IInv

LEMMA DescribedKeeps ==
  ASSUME IInv, NEW t \in Threads, Described(t)
  PROVE  IInv'
<1>1. Types'
  BY DEF Described, Unlock, Goto, Go, IInv, Types, Placed
<1>2. Locking'
  BY DEF Described, Unlock, Goto, Go, IInv, Types, Locking, Placed
<1>3. OneOpen'
  BY DEF Described, Unlock, Goto, Go, IInv, Types, OneOpen, Placed
<1>4. Passed'
  BY DEF Described, Unlock, Goto, Go, IInv, Types, Locking, Passed, Placed
<1>5. Placed'
  BY DEF Described, Unlock, Goto, Go, IInv, Types, Placed
<1>6. Counted'
  BY DEF Described, Unlock, Goto, Go, IInv, Types, Placed, Counted
<1>. QED BY <1>1, <1>2, <1>3, <1>4, <1>5, <1>6 DEF IInv

LEMMA EndpointsKeeps ==
  ASSUME IInv, NEW t \in Threads, Endpoints(t)
  PROVE  IInv'
<1>1. Types'
  BY DEF Endpoints, Held, Goto, Go, IInv, Types, Placed
<1>2. Locking'
  BY DEF Endpoints, Held, Goto, Go, IInv, Types, Locking, Placed
<1>3. OneOpen'
  BY DEF Endpoints, Held, Goto, Go, IInv, Types, OneOpen, Placed
<1>4. Passed'
  BY DEF Endpoints, Held, Goto, Go, IInv, Types, Locking, Passed, Placed
<1>5. Placed'
  BY DEF Endpoints, Held, Goto, Go, IInv, Types, Placed
<1>6. Counted'
  BY DEF Endpoints, Held, Goto, Go, IInv, Types, Placed, Counted
<1>. QED BY <1>1, <1>2, <1>3, <1>4, <1>5, <1>6 DEF IInv

(* The handle is closed by the owner, when nobody is in libusb with it. *)
LEMMA CloseKeeps ==
  ASSUME IInv, NEW t \in Threads, NEW from, NEW to, Close(t, from, to),
         <<from, to>> \in {<<"close", "out">>, <<"close_first", "relist">>, <<"catch", "out">>}
  PROVE  IInv'
<1>1. Types'
  BY DEF Close, Opened, Held, Free, Goto, Go, IInv, Types, Placed
<1>2. Locking'
  BY DEF Close, Opened, Held, Free, Goto, Go, IInv, Types, Locking, Placed
<1>3. OneOpen'
  BY DEF Close, Opened, Held, Free, Goto, Go, IInv, Types, OneOpen, Placed
<1>4. Passed'
  BY DEF Close, Opened, Held, Free, Goto, Go, IInv, Types, Locking, Passed, Placed
<1>5. Placed'
  BY DEF Close, Opened, Held, Free, Goto, Go, IInv, Types, Placed
<1>6. Counted'
  BY DEF Close, Opened, Held, Free, Goto, Go, IInv, Types, Placed, Counted
<1>. QED BY <1>1, <1>2, <1>3, <1>4, <1>5, <1>6 DEF IInv

(* async_usb_t::open makes the only handle, or leaves the object without.  *)
LEMMA AsyncOpenKeeps ==
  ASSUME IInv, NEW t \in Threads, AsyncOpen(t)
  PROVE  IInv'
<1>1. /\ at[t] = "async_open" /\ lock = NoOne /\ UNCHANGED <<lock, class, alive>>
      /\ Goto(t, "out")
  BY DEF AsyncOpen, Held, Free, Static
<1>2. handle = nullptr /\ open = {} /\ opens < MaxOpens
  BY <1>1 DEF IInv, Types, OneOpen, Placed
<1>3. info' \in BOOLEAN
  <2>1. info \in BOOLEAN
    BY DEF IInv, Types
  <2>2. info' = info \/ info' = TRUE
    BY Zenon DEF AsyncOpen
  <2>. QED BY <2>1, <2>2
<1>4. \/ handle' = nullptr /\ open' = {} /\ opens' = opens
      \/ handle' = opens + 1 /\ open' = {opens + 1} /\ opens' = opens + 1
  BY <1>2 DEF AsyncOpen
<1>5. Types'
  BY <1>1, <1>2, <1>3, <1>4 DEF Goto, Go, IInv, Types
<1>6. Locking'
  BY <1>1 DEF Goto, Go, IInv, Types, Locking, Placed
<1>7. OneOpen'
  BY <1>4 DEF IInv, Types, OneOpen
<1>8. Passed'
  BY <1>1 DEF Goto, Go, IInv, Types, Locking, Passed, Placed
<1>9. Placed'
  BY <1>1, <1>4 DEF Goto, Go, IInv, Types, Placed
<1>10. Counted'
  BY <1>1 DEF Goto, Go, IInv, Types, Placed, Counted
<1>. QED BY <1>5, <1>6, <1>7, <1>8, <1>9, <1>10 DEF IInv

LEMMA DestroyKeeps == ASSUME IInv, Destroy PROVE IInv'
<1>1. /\ \A t \in Threads : at[t] = "out" /\ lock # t
      /\ UNCHANGED <<class, lock, opens, thread>>
      /\ alive' = FALSE /\ handle' = nullptr /\ open' = open \ {handle}
  BY DEF Destroy, Held, Free, IInv, Locking
<1>2. info' \in BOOLEAN
  BY DEF Destroy, IInv, Types
<1>3. Types'
  <2>1. alive' \in BOOLEAN
    BY <1>1
  <2>2. opens' \in Nat /\ handle' \in 0..opens' /\ opens' <= MaxOpens
    BY <1>1 DEF IInv, Types
  <2>3. class' \in {"usb_t", "async_usb_t"} /\ at' \in [Threads -> Places]
        /\ op' \in [Threads -> Ops] /\ no' \in [Threads -> Nat]
        /\ i' \in [Threads -> Nat] /\ hnd' \in [Threads -> Nat]
    BY <1>1 DEF thread, IInv, Types
  <2>. QED BY <1>2, <2>1, <2>2, <2>3 DEF Types
<1>4. Locking'
  BY <1>1 DEF thread, IInv, Types, Locking
<1>5. OneOpen'
  BY <1>1 DEF IInv, OneOpen
<1>6. Passed'
  BY <1>1 DEF thread, Passed
<1>7. Placed'
  BY <1>1 DEF thread, Placed
<1>8. Counted'
  BY <1>1 DEF thread, IInv, Counted
<1>. QED BY <1>3, <1>4, <1>5, <1>6, <1>7, <1>8 DEF IInv

(* The invariant is kept by every step of a thread.                        *)
LEMMA StepKeeps == ASSUME IInv, NEW t \in Threads, Step(t) PROVE IInv'
<1>1. CASE Loop(t)                BY <1>1, LoopKeeps
<1>2. CASE Info(t)                BY <1>2, InfoKeeps
<1>3. CASE Enter(t)               BY <1>3, EnterKeeps
<1>4. CASE \E call \in AllCalls : Over(t, call)
  BY <1>4, OverKeeps
<1>5. CASE TransmitInterrupt(t)   BY <1>5, TransmitInterruptKeeps
<1>6. CASE \E call \in Looped : NextInterface(t, call)
  BY <1>6, NextInterfaceKeeps
<1>7. CASE Receive(t)             BY <1>7, ReceiveKeeps
<1>8. CASE SendFails(t) \/ SendOnce(t)
  <2>1. at[t] = "libusb" /\ Leave(t) /\ Goto(t, "out")
    BY <1>8 DEF SendFails, SendOnce
  <2>. QED BY <2>1, SentKeeps
<1>9. CASE SendRest(t)            BY <1>9, SendRestKeeps
<1>10. CASE Open(t)               BY <1>10, OpenKeeps
<1>11. CASE Relist(t)             BY <1>11, RelistKeeps
<1>12. CASE Find(t)               BY <1>12, FindKeeps
<1>13. CASE LibusbOpen(t)         BY <1>13, LibusbOpenKeeps
<1>14. CASE Reset(t)              BY <1>14, ResetKeeps
<1>15. CASE ResetDone(t)          BY <1>15, ResetDoneKeeps
<1>16. CASE Describe(t)           BY <1>16, DescribeKeeps
<1>17. CASE Described(t)          BY <1>17, DescribedKeeps
<1>18. CASE Endpoints(t)          BY <1>18, EndpointsKeeps
<1>19. CASE CloseCalled(t)
  BY <1>19, CloseKeeps DEF CloseCalled
<1>20. CASE CloseFirst(t)
  BY <1>20, CloseKeeps DEF CloseFirst
<1>21. CASE Catch(t)
  <2>1. CASE Close(t, "catch", "out")
    BY <2>1, CloseKeeps
  <2>2. CASE at[t] = "catch" /\ Goto(t, "out") /\ UNCHANGED object
    <3>1. Types'
      BY <2>2 DEF Goto, Go, IInv, Types
    <3>2. Locking'
      BY <2>2 DEF Goto, Go, IInv, Types, Locking
    <3>3. OneOpen'
      BY <2>2 DEF IInv, OneOpen
    <3>4. Passed'
      BY <2>2 DEF Goto, Go, IInv, Types, Passed
    <3>5. Placed'
      BY <2>2 DEF Goto, Go, IInv, Types, Placed
    <3>6. Counted'
      BY <2>2 DEF Goto, Go, IInv, Types, Counted
    <3>. QED BY <3>1, <3>2, <3>3, <3>4, <3>5, <3>6 DEF IInv
  <2>. QED BY <1>21, <2>1, <2>2 DEF Catch
<1>22. CASE AsyncOpen(t)          BY <1>22, AsyncOpenKeeps
<1>23. \/ Configured(t) \/ Controlled(t) \/ Interrupted(t) \/ BulkReceived(t)
       \/ ReceivedInTime(t)
       => \E call \in AllCalls : Over(t, call)
  BY DEF Configured, Controlled, Interrupted, BulkReceived, ReceivedInTime
<1>24. ClaimNext(t) \/ ReleaseNext(t) => \E call \in Looped : NextInterface(t, call)
  BY DEF ClaimNext, ReleaseNext
<1>. QED
  BY <1>1, <1>2, <1>3, <1>4, <1>5, <1>6, <1>7, <1>8, <1>9, <1>10, <1>11, <1>12,
     <1>13, <1>14, <1>15, <1>16, <1>17, <1>18, <1>19, <1>20, <1>21, <1>22, <1>23,
     <1>24
  DEF Step
-----------------------------------------------------------------------------
(* The inductive invariant, for every number of threads and calls.         *)
THEOREM Invariance == Spec => []IInv
<1>1. Init => IInv
  <2> SUFFICES ASSUME Init PROVE IInv
    OBVIOUS
  <2>1. Types
    <3>1. alive \in BOOLEAN /\ info \in BOOLEAN
      BY DEF Init
    <3>2. class \in {"usb_t", "async_usb_t"} /\ opens \in Nat
          /\ handle \in 0..opens /\ opens <= MaxOpens
      BY DEF Init
    <3>3. /\ at \in [Threads -> Places] /\ op \in [Threads -> Ops]
          /\ no \in [Threads -> Nat] /\ i \in [Threads -> Nat] /\ hnd \in [Threads -> Nat]
      BY DEF Init
    <3>. QED BY <3>1, <3>2, <3>3 DEF Types
  <2>2. Locking
    BY DEF Init, Locking
  <2>3. OneOpen
    BY DEF Init, OneOpen
  <2>4. Passed
    BY DEF Init, Passed
  <2>5. Placed
    BY DEF Init, Placed
  <2>6. Counted
    BY DEF Init, Counted
  <2>. QED BY <2>1, <2>2, <2>3, <2>4, <2>5, <2>6 DEF IInv
<1>2. IInv /\ [Next]_vars => IInv'
  <2> SUFFICES ASSUME IInv, [Next]_vars PROVE IInv'
    OBVIOUS
  <2>1. CASE \E t \in Threads : Begin(t) \/ Step(t)
    BY <2>1, BeginKeeps, StepKeeps
  <2>2. CASE Destroy
    BY <2>2, DestroyKeeps
  <2>3. CASE UNCHANGED vars
    BY <2>3 DEF vars, thread, IInv, Types, Locking, OneOpen, Passed, Placed, Counted
  <2>. QED BY <2>1, <2>2, <2>3 DEF Next
<1>. QED BY <1>1, <1>2, PTL DEF Spec

(* The types, and that no path out of a call leaves the mutex locked.      *)
THEOREM TypeCorrect == Spec => []TypeOK
<1>1. IInv => TypeOK
  BY DEF IInv, Types, Locking, OneOpen, Counted, TypeOK
<1>. QED BY <1>1, Invariance, PTL

(* One handle at most is open, and it stays open while libusb has it, but  *)
(* for the two calls that do not hold or do not look.                      *)
THEOREM HandleStaysOpen == Spec => []HandleHeld
<1>1. IInv => HandleHeld
  BY DEF IInv, OneOpen, Passed, HandleHeld
<1>. QED BY <1>1, Invariance, PTL
-----------------------------------------------------------------------------
(* Messages on the wire.  In is a thread that may have sent a part of its  *)
(* call: only one is, it has the mutex.                                    *)
In(t) == at[t] = "libusb" /\ op[t] \in Sends

WireType == wire \in Seq(Threads \X Nat \X Nat)

(* What is on the wire of a thread's call was sent by it: a call that has  *)
(* not come to libusb has nothing there.                                   *)
Past ==
  \A j \in DOMAIN wire : \A t \in Threads :
    wire[j][1] = t =>
      /\ wire[j][2] <= no[t]
      /\ wire[j][2] = no[t] => at[t] = "out" \/ (In(t) /\ wire[j][3] <= i[t])

(* The thread in the middle of a message sent the last part.               *)
Newest ==
  \A t \in Threads :
    In(t) /\ i[t] > 0 => Len(wire) > 0 /\ wire[Len(wire)] = <<t, no[t], i[t]>>

(* The parts of Unmixed.                                                   *)
Consecutive ==
  \A j \in DOMAIN wire :
    \/ wire[j][3] = 1
    \/ j > 1 /\ wire[j] = <<wire[j-1][1], wire[j-1][2], wire[j-1][3] + 1>>
Whole    == \A c \in sent : \E j \in DOMAIN wire : wire[j] = <<c[1], c[2], Parts>>
Distinct == \A j, k \in DOMAIN wire : wire[j] = wire[k] => j = k

WireInv == WireType /\ Past /\ Newest /\ Consecutive /\ Whole /\ Distinct

(* A step of a thread that is not sending.                                 *)
Silently(t) ==
  /\ UNCHANGED <<wire, sent, no, op>>
  /\ \A u \in Threads \ {t} : at'[u] = at[u] /\ i'[u] = i[u]
  /\ at[t] # "out" /\ ~In(t)
  /\ at'[t] = "libusb" /\ op[t] \in Sends => i'[t] = 0

(* Every step of a thread that is not sending leaves the wire alone, and   *)
(* brings it to libusb with a message only from the message's beginning.   *)
LEMMA SilentStep ==
  ASSUME IInv, NEW t \in Threads, Step(t), ~In(t)
  PROVE  Silently(t)
<1>. at \in [Threads -> Places] /\ op \in [Threads -> Ops] /\ no \in [Threads -> Nat]
     /\ i \in [Threads -> Nat] /\ hnd \in [Threads -> Nat]
  BY DEF IInv, Types
<1>. /\ at[t] \in {"enter", "libusb", "loop"} => op[t] \in AllCalls
     /\ at[t] \in Opening \cup OpenedUp => op[t] = "open"
  BY DEF IInv, Placed
<1>. at[t] = "enter" /\ op[t] \notin Looped => i[t] = 0
  BY DEF IInv, Counted
<1>1. CASE Loop(t)
  BY <1>1 DEF Loop, Goto, Go, Silently, In
<1>2. CASE Info(t) \/ Enter(t)
  BY <1>2 DEF Info, Enter, Goto, Go, Silently, In
<1>3. CASE \E call \in AllCalls : Over(t, call)
  BY <1>3 DEF Over, Goto, Go, Silently, In
<1>4. CASE TransmitInterrupt(t)
  BY <1>4 DEF TransmitInterrupt, Over, Goto, Go, Silently, In
<1>5. CASE \E call \in Looped : NextInterface(t, call)
  BY <1>5 DEF NextInterface, Goto, Go, Silently, In
<1>6. CASE Receive(t)
  BY <1>6 DEF Receive, Goto, Go, Silently, In
<1>7. CASE SendFails(t) \/ SendOnce(t) \/ SendRest(t)
  BY <1>7 DEF SendFails, SendOnce, SendRest, In
<1>8. CASE Open(t) \/ Relist(t) \/ Find(t)
  BY <1>8 DEF Open, Relist, Find, List, Goto, Go, Silently, In
<1>9. CASE LibusbOpen(t) \/ Reset(t) \/ ResetDone(t)
  BY <1>9 DEF LibusbOpen, Opened, Reset, ResetDone, Goto, Go, Silently, In
<1>10. CASE Describe(t) \/ Described(t) \/ Endpoints(t)
  BY <1>10 DEF Describe, Described, Endpoints, Goto, Go, Silently, In
<1>11. CASE CloseCalled(t) \/ CloseFirst(t) \/ Catch(t) \/ AsyncOpen(t)
  BY <1>11, ZenonT(60) DEF CloseCalled, CloseFirst, Catch, Close, AsyncOpen, Opened, Goto, Go,
               Silently, In
<1>12. \/ Configured(t) \/ Controlled(t) \/ Interrupted(t) \/ BulkReceived(t)
       \/ ReceivedInTime(t)
       => \E call \in AllCalls : Over(t, call)
  BY DEF Configured, Controlled, Interrupted, BulkReceived, ReceivedInTime
<1>13. ClaimNext(t) \/ ReleaseNext(t) => \E call \in Looped : NextInterface(t, call)
  BY DEF ClaimNext, ReleaseNext
<1>. QED
  BY <1>1, <1>2, <1>3, <1>4, <1>5, <1>6, <1>7, <1>8, <1>9, <1>10, <1>11, <1>12, <1>13
  DEF Step

(* A step that leaves the wire as it is.                                   *)
LEMMA SilentKeeps ==
  ASSUME IInv, WireInv, NEW t \in Threads, Silently(t)
  PROVE  WireInv'
<1>1. WireType'
  BY DEF WireInv, WireType, Silently
<1>2. Past'
  <2> SUFFICES ASSUME NEW j \in DOMAIN wire, NEW u \in Threads, wire[j][1] = u
               PROVE  /\ wire[j][2] <= no[u]
                      /\ wire[j][2] = no[u] =>
                           at'[u] = "out" \/ (In(u)' /\ wire[j][3] <= i'[u])
    BY DEF Past, Silently
  <2>1. /\ wire[j][2] <= no[u]
        /\ wire[j][2] = no[u] => at[u] = "out" \/ (In(u) /\ wire[j][3] <= i[u])
    BY DEF WireInv, Past
  <2>2. CASE u = t
    BY <2>1, <2>2 DEF Silently
  <2>3. CASE u # t
    BY <2>1, <2>3 DEF Silently, In
  <2>. QED BY <2>2, <2>3
<1>3. Newest'
  BY DEF WireInv, Newest, Silently, In
<1>4. Consecutive' /\ Whole' /\ Distinct'
  BY DEF WireInv, Consecutive, Whole, Distinct, Silently
<1>. QED BY <1>1, <1>2, <1>3, <1>4 DEF WireInv

(* A new call has a number that is not on the wire.                        *)
LEMMA BeginKeepsWire ==
  ASSUME IInv, WireInv, NEW t \in Threads, Begin(t)
  PROVE  WireInv'
<1>. at \in [Threads -> Places] /\ op \in [Threads -> Ops] /\ no \in [Threads -> Nat]
     /\ i \in [Threads -> Nat]
  BY DEF IInv, Types
<1>1. /\ wire' = wire /\ sent' = sent
      /\ no'[t] = no[t] + 1 /\ at'[t] # "libusb"
      /\ \A u \in Threads \ {t} :
           at'[u] = at[u] /\ i'[u] = i[u] /\ no'[u] = no[u] /\ op'[u] = op[u]
  BY DEF Begin, Go
<1>2. WireType'
  BY <1>1 DEF WireInv, WireType
<1>3. Past'
  <2> SUFFICES ASSUME NEW j \in DOMAIN wire, NEW u \in Threads, wire[j][1] = u
               PROVE  /\ wire[j][2] <= no'[u]
                      /\ wire[j][2] = no'[u] =>
                           at'[u] = "out" \/ (In(u)' /\ wire[j][3] <= i'[u])
    BY <1>1 DEF Past
  <2>1. /\ wire[j][2] <= no[u]
        /\ wire[j][2] = no[u] => at[u] = "out" \/ (In(u) /\ wire[j][3] <= i[u])
    BY DEF WireInv, Past
  <2>2. CASE u = t
    <3>1. wire[j] \in Threads \X Nat \X Nat
      BY DEF WireInv, WireType
    <3>2. wire[j][2] \in Nat /\ no[t] \in Nat
      BY <3>1
    <3>. QED BY <1>1, <2>1, <2>2, <3>2
  <2>3. CASE u # t
    BY <1>1, <2>1, <2>3 DEF In
  <2>. QED BY <2>2, <2>3
<1>4. Newest'
  <2> SUFFICES ASSUME NEW u \in Threads, In(u)', i'[u] > 0
               PROVE  Len(wire) > 0 /\ wire[Len(wire)] = <<u, no'[u], i'[u]>>
    BY <1>1 DEF Newest
  <2>1. u # t
    BY <1>1 DEF In
  <2>2. In(u) /\ i[u] > 0 /\ no'[u] = no[u] /\ i'[u] = i[u]
    BY <1>1, <2>1 DEF In
  <2>. QED BY <2>2 DEF WireInv, Newest
<1>5. Consecutive' /\ Whole' /\ Distinct'
  BY <1>1 DEF WireInv, Consecutive, Whole, Distinct
<1>. QED BY <1>2, <1>3, <1>4, <1>5 DEF WireInv
-----------------------------------------------------------------------------
(* What a transfer puts on the wire.                                       *)
LEMMA Appended ==
  ASSUME IInv, WireType, NEW t \in Threads, NEW k \in Nat, Sending(t, k)
  PROVE  /\ wire' \in Seq(Threads \X Nat \X Nat)
         /\ Len(wire') = Len(wire) + k
         /\ DOMAIN wire = 1..Len(wire) /\ DOMAIN wire' = 1..(Len(wire) + k)
         /\ \A j \in 1..Len(wire) : wire'[j] = wire[j]
         /\ \A j \in (Len(wire) + 1)..(Len(wire) + k) :
              wire'[j] = <<t, no[t], i[t] + (j - Len(wire))>>
<1> DEFINE more == [j \in 1..k |-> <<t, no[t], i[t] + j>>]
<1>. no[t] \in Nat /\ i[t] \in Nat
  BY DEF IInv, Types
<1>1. more \in Seq(Threads \X Nat \X Nat) /\ Len(more) = k
  OBVIOUS
<1>2. wire' = wire \o more
  BY DEF Sending
<1>. HIDE DEF more
<1>3. wire \in Seq(Threads \X Nat \X Nat)
  BY DEF WireType
<1>4. /\ wire' \in Seq(Threads \X Nat \X Nat)
      /\ Len(wire') = Len(wire) + k
      /\ \A j \in 1..Len(wire) : wire'[j] = wire[j]
      /\ \A j \in (Len(wire) + 1)..(Len(wire) + k) : wire'[j] = more[j - Len(wire)]
  <2>1. /\ wire \o more \in Seq(Threads \X Nat \X Nat)
        /\ Len(wire \o more) = Len(wire) + Len(more)
        /\ \A j \in 1..(Len(wire) + Len(more)) :
             (wire \o more)[j] = IF j <= Len(wire) THEN wire[j] ELSE more[j - Len(wire)]
    BY <1>1, <1>3, ConcatProperties
  <2>2. Len(wire) \in Nat
    BY <1>3
  <2>3. \A j \in 1..(Len(wire) + k) :
          wire'[j] = IF j <= Len(wire) THEN wire[j] ELSE more[j - Len(wire)]
    BY <1>1, <1>2, <2>1
  <2>4. \A j \in 1..Len(wire) : wire'[j] = wire[j]
    <3>1. \A j \in 1..Len(wire) : j \in 1..(Len(wire) + k) /\ j <= Len(wire)
      BY <2>2
    <3>. QED BY <2>3, <3>1
  <2>5. \A j \in (Len(wire) + 1)..(Len(wire) + k) : wire'[j] = more[j - Len(wire)]
    <3>1. \A j \in (Len(wire) + 1)..(Len(wire) + k) :
            j \in 1..(Len(wire) + k) /\ ~(j <= Len(wire))
      BY <2>2
    <3>. QED BY <2>3, <3>1
  <2>6. wire' \in Seq(Threads \X Nat \X Nat) /\ Len(wire') = Len(wire) + k
    BY <1>1, <1>2, <2>1
  <2>. QED BY <2>4, <2>5, <2>6
<1>5. \A j \in (Len(wire) + 1)..(Len(wire) + k) : more[j - Len(wire)] = <<t, no[t], i[t] + (j - Len(wire))>>
  BY <1>3, SMTT(20) DEF more
<1>6. DOMAIN wire = 1..Len(wire) /\ DOMAIN wire' = 1..(Len(wire) + k)
  BY <1>3, <1>4
<1>. QED BY <1>4, <1>5, <1>6

(* A transfer of k parts, after which the thread has left or goes on; it   *)
(* tells its caller that all was sent only when it was.                    *)
LEMMA SendKeeps ==
  ASSUME IInv, WireInv, NEW t \in Threads, In(t), NEW k \in Nat, Sending(t, k),
         no' = no, op' = op,
         \A u \in Threads \ {t} : at'[u] = at[u] /\ i'[u] = i[u],
         at'[t] = "out" \/ (at'[t] = "libusb" /\ k > 0 /\ i'[t] = i[t] + k),
         sent' = sent \/ (sent' = sent \cup {<<t, no[t]>>} /\ k > 0 /\ i[t] + k = Parts)
  PROVE  WireInv'
<1> DEFINE n == Len(wire)
<1>. no[t] \in Nat /\ i[t] \in Nat /\ n \in Nat
  BY DEF IInv, Types, WireInv, WireType
<1>1. /\ wire' \in Seq(Threads \X Nat \X Nat)
      /\ Len(wire') = n + k
      /\ DOMAIN wire = 1..n /\ DOMAIN wire' = 1..(n + k)
      /\ \A j \in 1..n : wire'[j] = wire[j]
      /\ \A j \in (n + 1)..(n + k) : wire'[j] = <<t, no[t], i[t] + (j - n)>>
  BY Appended DEF WireInv
<1>. HIDE DEF n
<1>2. \A j \in 1..n : wire'[j] = wire[j]
  BY <1>1
<1>3. \A j \in (n + 1)..(n + k) : wire'[j] = <<t, no[t], i[t] + (j - n)>>
  BY <1>1
<1>4. /\ DOMAIN wire = 1..n /\ DOMAIN wire' = 1..(n + k)
  BY <1>1
<1>5. \A j \in 1..n : wire[j] \in Threads \X Nat \X Nat
  BY <1>1 DEF WireInv, WireType, n
<1>6. \A u \in Threads \ {t} : ~In(u)
  BY DEF In, IInv, Locking
<1>7. \A j \in 1..n : wire[j][1] = t => wire[j][2] <= no[t] /\ (wire[j][2] = no[t] => wire[j][3] <= i[t])
  BY <1>1 DEF WireInv, Past, In
<1>8. WireType'
  BY <1>1 DEF WireType
<1>9. Past'
  <2> SUFFICES ASSUME NEW j \in 1..(n + k), NEW u \in Threads, wire'[j][1] = u
               PROVE  /\ wire'[j][2] <= no[u]
                      /\ wire'[j][2] = no[u] =>
                           at'[u] = "out" \/ (In(u)' /\ wire'[j][3] <= i'[u])
    BY <1>1 DEF Past
  <2>1. CASE j \in 1..n
    <3>1. wire'[j] = wire[j]
      BY <1>1, <2>1
    <3>2. CASE u = t
      <4>1. wire[j][2] <= no[t] /\ (wire[j][2] = no[t] => wire[j][3] <= i[t])
        BY <1>7, <2>1, <3>1, <3>2
      <4>2. wire[j][3] \in Nat
        BY <1>5, <2>1
      <4>3. CASE at'[t] = "out"
        BY <3>1, <3>2, <4>1, <4>3
      <4>4. CASE at'[t] = "libusb" /\ i'[t] = i[t] + k
        BY <3>1, <3>2, <4>1, <4>2, <4>4 DEF In
      <4>. QED BY <4>3, <4>4
    <3>3. CASE u # t
      <4>1. /\ wire[j][2] <= no[u]
            /\ wire[j][2] = no[u] => at[u] = "out" \/ (In(u) /\ wire[j][3] <= i[u])
        BY <1>1, <2>1, <3>1 DEF WireInv, Past
      <4>. QED BY <3>1, <3>3, <4>1, <1>6
    <3>. QED BY <3>2, <3>3
  <2>2. CASE j \in (n + 1)..(n + k)
    <3>1. wire'[j] = <<t, no[t], i[t] + (j - n)>>
      BY <1>1, <2>2
    <3>2. u = t /\ wire'[j][2] = no[t] /\ wire'[j][3] = i[t] + (j - n)
      BY <3>1
    <3>3. at'[t] = "libusb" /\ i'[t] = i[t] + k => In(t)' /\ i[t] + (j - n) <= i'[t]
      BY <2>2 DEF In
    <3>. QED BY <3>2, <3>3
  <2>. QED BY <2>1, <2>2
<1>10. Newest'
  <2> SUFFICES ASSUME NEW u \in Threads, In(u)', i'[u] > 0
               PROVE  n + k > 0 /\ wire'[n + k] = <<u, no[u], i'[u]>>
    BY <1>1 DEF Newest
  <2>1. u = t
    BY <1>6 DEF In
  <2>2. k > 0 /\ i'[t] = i[t] + k
    BY <2>1 DEF In
  <2>3. wire'[n + k] = <<t, no[t], i[t] + ((n + k) - n)>>
    BY <1>3, <2>2
  <2>. QED BY <2>1, <2>2, <2>3
<1>11. Consecutive'
  <2> SUFFICES ASSUME NEW j \in 1..(n + k)
               PROVE  \/ wire'[j][3] = 1
                      \/ j > 1 /\ wire'[j] = <<wire'[j-1][1], wire'[j-1][2], wire'[j-1][3] + 1>>
    BY <1>1 DEF Consecutive
  <2>1. CASE j \in 1..n
    <3>1. \/ wire[j][3] = 1
          \/ j > 1 /\ wire[j] = <<wire[j-1][1], wire[j-1][2], wire[j-1][3] + 1>>
      BY <1>1, <2>1 DEF WireInv, Consecutive
    <3>2. wire'[j] = wire[j] /\ (j > 1 => wire'[j-1] = wire[j-1])
      BY <1>2, <2>1
    <3>. QED BY <3>1, <3>2
  <2>2. CASE j = n + 1
    <3>1. j \in (n + 1)..(n + k) /\ i[t] + (j - n) = i[t] + 1
      BY <2>2
    <3>2. wire'[j] = <<t, no[t], i[t] + 1>>
      BY <1>3, <3>1
    <3>3. CASE i[t] = 0
      BY <3>2, <3>3
    <3>4. CASE i[t] > 0
      <4>1. n > 0 /\ wire[n] = <<t, no[t], i[t]>>
        BY <3>4 DEF WireInv, Newest, n
      <4>2. j > 1 /\ j - 1 = n /\ n \in 1..n
        BY <2>2, <4>1
      <4>3. wire'[j-1] = <<t, no[t], i[t]>>
        BY <1>2, <4>1, <4>2
      <4>. QED BY <3>2, <4>2, <4>3
    <3>. QED BY <3>3, <3>4
  <2>3. CASE j \in (n + 2)..(n + k)
    <3>1. wire'[j] = <<t, no[t], i[t] + (j - n)>>
      BY <1>3, <2>3
    <3>2. wire'[j - 1] = <<t, no[t], i[t] + ((j - 1) - n)>>
      BY <1>3, <2>3
    <3>3. j > 1 /\ (i[t] + ((j - 1) - n)) + 1 = i[t] + (j - n)
      BY <2>3
    <3>. QED BY <3>1, <3>2, <3>3
  <2>. QED BY <2>1, <2>2, <2>3
<1>12. Whole'
  <2>1. \A c \in sent : \E j \in 1..n : wire[j] = <<c[1], c[2], Parts>>
    BY <1>1 DEF WireInv, Whole
  <2>2. \A c \in sent : \E j \in 1..(n + k) : wire'[j] = <<c[1], c[2], Parts>>
    <3>1. 1..n \subseteq 1..(n + k)
      OBVIOUS
    <3>. QED BY <1>2, <2>1, <3>1
  <2>3. CASE sent' = sent
    BY <1>4, <2>2, <2>3 DEF Whole
  <2>4. CASE sent' = sent \cup {<<t, no[t]>>} /\ k > 0 /\ i[t] + k = Parts
    <3>1. wire'[n + k] = <<t, no[t], i[t] + ((n + k) - n)>>
      BY <1>3, <2>4
    <3>2. n + k \in 1..(n + k) /\ i[t] + ((n + k) - n) = Parts
      BY <2>4
    <3>3. \E j \in 1..(n + k) : wire'[j] = <<t, no[t], Parts>>
      BY <3>1, <3>2
    <3>4. \A c \in sent' : \E j \in 1..(n + k) : wire'[j] = <<c[1], c[2], Parts>>
      <4> SUFFICES ASSUME NEW c \in sent'
                   PROVE  \E j \in 1..(n + k) : wire'[j] = <<c[1], c[2], Parts>>
        OBVIOUS
      <4>1. CASE c \in sent
        BY <2>2, <4>1
      <4>2. CASE c = <<t, no[t]>>
        <5>1. c[1] = t /\ c[2] = no[t]
          BY <4>2
        <5>. QED BY <3>3, <5>1
      <4>. QED BY <2>4, <4>1, <4>2
    <3>. QED BY <1>4, <3>4 DEF Whole
  <2>. QED BY <2>3, <2>4
<1>13. Distinct'
  <2> SUFFICES ASSUME NEW j \in 1..(n + k), NEW l \in 1..(n + k), j < l
               PROVE  wire'[j] # wire'[l]
    BY <1>4 DEF Distinct
  <2>1. CASE l \in 1..n
    <3>1. j \in 1..n
      BY <2>1
    <3>2. wire[j] # wire[l]
      BY <1>4, <2>1, <3>1, SMTT(20) DEF WireInv, Distinct
    <3>. QED BY <1>2, <2>1, <3>1, <3>2
  <2>2. CASE l \in (n + 1)..(n + k)
    <3>1. wire'[l] = <<t, no[t], i[t] + (l - n)>> /\ i[t] + (l - n) > i[t]
      BY <1>3, <2>2
    <3>2. CASE j \in 1..n
      <4>1. wire'[j] = wire[j] /\ wire[j] \in Threads \X Nat \X Nat
        BY <1>2, <1>5, <3>2
      <4>2. wire[j][3] \in Nat
        BY <4>1
      <4>3. wire[j][1] = t /\ wire[j][2] = no[t] => wire[j][3] <= i[t]
        BY <1>7, <3>2
      <4>. QED BY <3>1, <4>1, <4>2, <4>3
    <3>3. CASE j \in (n + 1)..(n + k)
      <4>1. wire'[j] = <<t, no[t], i[t] + (j - n)>>
        BY <1>3, <3>3
      <4>. QED BY <3>1, <4>1
    <3>. QED BY <3>2, <3>3
  <2>. QED BY <2>1, <2>2
<1>. QED BY <1>8, <1>9, <1>10, <1>11, <1>12, <1>13 DEF WireInv

(* A thread that is sending takes a step of its own kind only.             *)
LEMMA SenderKeeps ==
  ASSUME IInv, WireInv, NEW t \in Threads, Step(t), In(t)
  PROVE  WireInv'
<1>. at \in [Threads -> Places] /\ op \in [Threads -> Ops] /\ no \in [Threads -> Nat]
     /\ i \in [Threads -> Nat]
  BY DEF IInv, Types
<1>. i[t] < Parts
  BY DEF IInv, Counted, In
<1>1. Room(t) \in Nat /\ i[t] + Room(t) <= Parts
  BY DEF Room
<1>2. SendFails(t) \/ SendOnce(t) \/ SendRest(t)
  BY DEF In, Step, Loop, Info, Enter, Configured, Controlled, Interrupted, BulkReceived,
         ReceivedInTime, TransmitInterrupt, Over, ClaimNext, ReleaseNext, NextInterface,
         Receive, Open, Relist, Find, LibusbOpen, Reset, ResetDone, Describe, Described,
         Endpoints, CloseCalled, CloseFirst, Catch, Close, AsyncOpen
<1>3. CASE SendFails(t) \/ SendOnce(t)
  <2>1. PICK k \in 0..Room(t) : Sending(t, k)
    BY <1>1, <1>3 DEF SendFails, SendOnce
  <2>2. /\ no' = no /\ op' = op /\ at'[t] = "out" /\ sent' = sent
        /\ \A u \in Threads \ {t} : at'[u] = at[u] /\ i'[u] = i[u]
    BY <1>3 DEF SendFails, SendOnce, Goto, Go
  <2>3. k \in Nat
    BY <1>1
  <2>. QED BY <2>1, <2>2, <2>3, SendKeeps
<1>4. CASE SendRest(t)
  <2>1. PICK k \in 1..Room(t) :
          /\ Sending(t, k)
          /\ i' = [i EXCEPT ![t] = @ + k]
          /\ IF i'[t] < Parts
             THEN UNCHANGED <<object, at, sent>>
             ELSE Leave(t) /\ Go(t, "out") /\ sent' = sent \cup {Self(t)}
    BY <1>4 DEF SendRest
  <2>2. k \in Nat /\ k > 0 /\ i'[t] = i[t] + k /\ i[t] + k <= Parts
    BY <1>1, <2>1
  <2>3. no' = no /\ op' = op
    BY <1>4 DEF SendRest
  <2>4. \A u \in Threads \ {t} : at'[u] = at[u] /\ i'[u] = i[u]
    BY <2>1 DEF Go
  <2>5. CASE i'[t] < Parts
    <3>1. at'[t] = "libusb" /\ sent' = sent
      BY <2>1, <2>5 DEF In
    <3>. QED BY <2>1, <2>2, <2>3, <2>4, <3>1, SendKeeps
  <2>6. CASE ~(i'[t] < Parts)
    <3>1. at'[t] = "out" /\ sent' = sent \cup {<<t, no[t]>>}
      BY <2>1, <2>6 DEF Go, Self
    <3>2. i[t] + k = Parts
      BY <2>2, <2>6
    <3>. QED BY <2>1, <2>2, <2>3, <2>4, <3>1, <3>2, SendKeeps
  <2>. QED BY <2>5, <2>6
<1>. QED BY <1>2, <1>3, <1>4

(* Messages of two threads never mix, and a call that reports success has  *)
(* sent all of its parts, each once.                                       *)
THEOREM MessagesWhole == Spec => []Unmixed
<1>1. Init => WireInv
  <2> SUFFICES ASSUME Init PROVE WireInv
    OBVIOUS
  <2>1. wire = << >> /\ sent = {} /\ DOMAIN wire = {}
    BY DEF Init
  <2>2. WireType
    BY <2>1 DEF WireType
  <2>3. Newest
    BY DEF Init, Newest, In
  <2>. QED BY <2>1, <2>2, <2>3 DEF WireInv, Past, Consecutive, Whole, Distinct
<1>2. IInv /\ WireInv /\ [Next]_vars => WireInv'
  <2> SUFFICES ASSUME IInv, WireInv, [Next]_vars PROVE WireInv'
    OBVIOUS
  <2>1. CASE \E t \in Threads : Begin(t) \/ Step(t)
    BY <2>1, BeginKeepsWire, SilentStep, SilentKeeps, SenderKeeps
  <2>2. CASE Destroy \/ UNCHANGED vars
    <3>1. UNCHANGED <<at, op, no, i, wire, sent>>
      BY <2>2 DEF Destroy, vars, thread
    <3>. QED
      BY <3>1 DEF WireInv, WireType, Past, Newest, Consecutive, Whole, Distinct, In
  <2>. QED BY <2>1, <2>2 DEF Next
<1>3. WireInv => Unmixed
  BY DEF WireInv, Consecutive, Whole, Distinct, Unmixed
<1>. QED BY <1>1, <1>2, <1>3, Invariance, PTL DEF Spec
=============================================================================
