------------------------------ MODULE UsbObject ------------------------------
(***************************************************************************)
(* One USB object shared by the threads of a program: usb_t of usb.cpp or  *)
(* async_usb_t of async.cpp, whose mutex is not recursive.  An owner opens *)
(* and closes the device, users configure it, claim its interfaces and     *)
(* transfer.  A call of libusb takes its time and may fail.                *)
(*                                                                         *)
(* The owner keeps to what the classes ask for without saying so: it       *)
(* closes a usb_t before it destroys it and an async_usb_t before it opens *)
(* it again, and calls are over before the object is destroyed.            *)
(***************************************************************************)
EXTENDS Naturals, Sequences

CONSTANTS
  Owner, Users, \* threads
  Classes,      \* which of the two classes
  Interfaces,   \* interfaces of the configuration
  Devices,      \* devices on the bus; the last one may be the one looked for
  Parts,        \* parts of a message
  MaxOpens,     \* bound: calls of open
  MaxCalls      \* bound: calls of each thread

Threads == Users \cup {Owner}
nullptr == 0
NoOne   == "nobody"

ASSUME UsbConstants ==
  /\ Owner \notin Users /\ NoOne \notin Threads
  /\ Classes \subseteq {"usb_t", "async_usb_t"} /\ Classes # {}
  /\ Interfaces \in Nat \ {0} /\ Devices \in Nat \ {0} /\ Parts \in Nat \ {0}
  /\ MaxOpens \in Nat /\ MaxCalls \in [Threads -> Nat]


VARIABLES
  class,   \* the object's class
  alive,   \* FALSE when it is destroyed
  lock,    \* who holds m_mutex
  handle,  \* usb_t::m_handle, async_usb_t::m_hnd
  info,    \* usb_t::m_info is set; async_usb_t::m_nconfigs, m_icnt are
  open,    \* the handles libusb has open
  opens,   \* how often libusb_open made one
  at,      \* where each thread is in its call, "out" between calls
  op,      \* the call
  no,      \* calls begun
  i,       \* the interface or device it has come to, the parts it has sent
  hnd,     \* the handle it has passed to libusb
  wire,    \* parts the device has received, <<thread, call, part>>
  sent     \* the calls that told their caller everything was sent

object == <<class, alive, lock, handle, info, open, opens>>
thread == <<at, op, no, i, hnd>>
vars   == <<object, thread, wire, sent>>

Self(t) == <<t, no[t]>>
Go(t, pc)  == at' = [at EXCEPT ![t] = pc]
Goto(t, pc) ==
  /\ Go(t, pc) /\ UNCHANGED <<op, no>>
  /\ IF pc = "out"
     THEN i' = [i EXCEPT ![t] = 0] /\ hnd' = [hnd EXCEPT ![t] = nullptr]
     ELSE UNCHANGED <<i, hnd>>
Static == UNCHANGED <<class, alive>>
Quiet  == UNCHANGED <<wire, sent>>
Free   == lock = NoOne

(* A step that takes the mutex and gives it back.                          *)
Held == Free /\ UNCHANGED lock
-----------------------------------------------------------------------------
(* Which calls there are.                                                  *)
UsbCalls ==
  {"set_config", "claim_all", "release_all", "info", "ctrl_xfer", "int_xfer",
   "bulk_send", "bulk_xfer", "bulk_recv"}
AsyncCalls ==
  {"set_config", "claim_all", "release_all", "transmit", "transmit_timeout",
   "transmit_interrupt", "receive", "receive_timeout"}
Calls  == IF class = "usb_t" THEN UsbCalls ELSE AsyncCalls
Looped == {"claim_all", "release_all"}
Sends  == {"bulk_send", "bulk_xfer", "transmit", "transmit_timeout"}

Begin(t) ==
  /\ alive /\ at[t] = "out" /\ no[t] < MaxCalls[t]
  /\ no' = [no EXCEPT ![t] = @ + 1] /\ i' = [i EXCEPT ![t] = 0]
  /\ \/ \E c \in Calls :
          /\ class = "async_usb_t" /\ c \in Looped => info
          /\ op' = [op EXCEPT ![t] = c]
          /\ Go(t, IF c \in Looped THEN "loop" ELSE "enter")
     \/ /\ t = Owner /\ op' = [op EXCEPT ![t] = "close"] /\ Go(t, "close")
     \/ /\ t = Owner /\ opens < MaxOpens
        /\ class = "async_usb_t" => handle = nullptr
        /\ op' = [op EXCEPT ![t] = "open"]
        /\ Go(t, IF class = "usb_t" THEN "open" ELSE "async_open")
  /\ UNCHANGED <<object, hnd>> /\ Quiet

(* claim_all and release_all read m_info, and m_nconfigs, without the      *)
(* mutex.                                                                  *)
Loop(t) ==
  /\ at[t] = "loop"
  /\ Goto(t, IF info THEN "enter" ELSE "out")
  /\ UNCHANGED object /\ Quiet

(* info() and get_endpoints() only look at m_info.                         *)
Info(t) ==
  /\ at[t] = "enter" /\ op[t] = "info"
  /\ Held /\ Goto(t, "out")
  /\ UNCHANGED <<class, alive, handle, info, open, opens>> /\ Quiet

(* The mutex is taken, the handle looked at and passed to libusb.          *)
(* bulk_recv does not look at it; transmit_interrupt takes no mutex.       *)
Unlocked == {"transmit_interrupt"}
Unlooked == {"bulk_recv"}
Enter(t) ==
  /\ at[t] = "enter" /\ op[t] # "info"
  /\ op[t] \in Unlocked \/ Free
  /\ IF handle = nullptr /\ op[t] \notin Unlooked
     THEN Goto(t, "out") /\ UNCHANGED lock                       \* throws
     ELSE /\ Go(t, "libusb") /\ hnd' = [hnd EXCEPT ![t] = handle]
          /\ lock' = IF op[t] \in Unlocked THEN lock ELSE t
          /\ UNCHANGED <<op, no, i>>
  /\ UNCHANGED <<class, alive, handle, info, open, opens>> /\ Quiet

(* The mutex is given back.                                                *)
Unlock(t) == lock' = IF lock = t THEN NoOne ELSE lock
Leave(t)  == Unlock(t) /\ UNCHANGED <<class, alive, handle, info, open, opens>>
-----------------------------------------------------------------------------
(* libusb returns.                                                         *)

(* One call of libusb: whatever it returned, set_config, ctrl_xfer,        *)
(* int_xfer, bulk_recv and receive_timeout are over.                       *)
Over(t, call) ==
  /\ at[t] = "libusb" /\ op[t] = call
  /\ Leave(t) /\ Goto(t, "out") /\ Quiet
Configured(t)      == Over(t, "set_config")
Controlled(t)      == Over(t, "ctrl_xfer")
Interrupted(t)     == Over(t, "int_xfer")
BulkReceived(t)    == Over(t, "bulk_recv")
ReceivedInTime(t)  == Over(t, "receive_timeout")

(* transmit_interrupt reads m_hnd again for every transfer.                *)
TransmitInterrupt(t) ==
  \/ Over(t, "transmit_interrupt")
  \/ /\ at[t] = "libusb" /\ op[t] = "transmit_interrupt" /\ i[t] + 1 < Parts
     /\ i' = [i EXCEPT ![t] = @ + 1] /\ hnd' = [hnd EXCEPT ![t] = handle]
     /\ UNCHANGED <<object, at, op, no>> /\ Quiet

(* claim and release: the kernel's driver is detached first.  An error is  *)
(* an exception, which ends the loop of claim_all or release_all too.      *)
NextInterface(t, call) ==
  /\ at[t] = "libusb" /\ op[t] = call
  /\ Leave(t)
  /\ \/ Goto(t, "out")
     \/ /\ i' = [i EXCEPT ![t] = @ + 1]
        /\ Go(t, IF i'[t] < Interfaces THEN "enter" ELSE "out")
        /\ UNCHANGED <<op, no, hnd>>
  /\ Quiet
ClaimNext(t)   == NextInterface(t, "claim_all")
ReleaseNext(t) == NextInterface(t, "release_all")

(* receive goes on until it has all it was asked for.                      *)
Receive(t) ==
  /\ at[t] = "libusb" /\ op[t] = "receive"
  /\ \/ Leave(t) /\ Goto(t, "out")                               \* fails
     \/ \E k \in 1..(Parts - i[t]) :
          /\ i' = [i EXCEPT ![t] = @ + k]
          /\ IF i'[t] < Parts THEN UNCHANGED <<object, at>> ELSE Leave(t) /\ Go(t, "out")
          /\ UNCHANGED <<op, no, hnd>>
  /\ Quiet

(* What one libusb_bulk_transfer of the rest, or of 64 bytes, can send.    *)
Room(t)  == IF class = "usb_t" THEN Parts - i[t] ELSE 1
Sending(t, k) ==
  wire' = wire \o [ j \in 1..k |-> <<t, no[t], i[t] + j>> ]

(* A transfer that fails may have sent a part of what it was given.        *)
SendFails(t) ==
  /\ at[t] = "libusb" /\ op[t] \in Sends
  /\ \E k \in 0..Room(t) : Sending(t, k)
  /\ Leave(t) /\ Goto(t, "out") /\ UNCHANGED sent

(* bulk_xfer and transmit_timeout return after one transfer, the latter    *)
(* with false.                                                             *)
SendOnce(t) ==
  /\ at[t] = "libusb" /\ op[t] \in {"bulk_xfer", "transmit_timeout"}
  /\ \E k \in 1..Room(t) : Sending(t, k)
  /\ Leave(t) /\ Goto(t, "out") /\ UNCHANGED sent

(* bulk_send and transmit erase what was sent and go on with the rest.     *)
SendRestUnlocking(t) ==                                          \* mutant
  /\ at[t] = "libusb" /\ op[t] \in {"bulk_send", "transmit"}
  /\ \E k \in 1..Room(t) :
       /\ Sending(t, k)
       /\ i' = [i EXCEPT ![t] = @ + k]
       /\ IF i'[t] < Parts
          THEN Leave(t) /\ Go(t, "enter") /\ UNCHANGED sent
          ELSE Leave(t) /\ Go(t, "out") /\ sent' = sent \cup {Self(t)}
  /\ UNCHANGED <<op, no, hnd>>
SendRest(t) ==
  /\ at[t] = "libusb" /\ op[t] \in {"bulk_send", "transmit"}
  /\ \E k \in 1..Room(t) :
       /\ Sending(t, k)
       /\ i' = [i EXCEPT ![t] = @ + k]
       /\ IF i'[t] < Parts
          THEN UNCHANGED <<object, at, sent>>
          ELSE Leave(t) /\ Go(t, "out") /\ sent' = sent \cup {Self(t)}
  /\ UNCHANGED <<op, no, hnd>>
-----------------------------------------------------------------------------
(* usb_t::open takes and gives back the mutex between any two of its calls *)
(* of libusb.                                                              *)
Opened(t, pc) == Goto(t, pc) /\ UNCHANGED <<class, alive, info>> /\ Quiet

List(t) == \/ Goto(t, "out")                                     \* throws
           \/ Goto(t, "find")

OpenLockedClose(t) ==                                            \* mutant
  /\ at[t] = "open" /\ Free
  /\ IF handle # nullptr THEN lock' = t /\ Goto(t, "close_first")
     ELSE UNCHANGED lock /\ List(t)
  /\ UNCHANGED <<class, alive, handle, info, open, opens>> /\ Quiet
Open(t) ==
  /\ at[t] = "open" /\ Held
  /\ IF handle # nullptr THEN Goto(t, "close_first") ELSE List(t)
  /\ UNCHANGED <<class, alive, handle, info, open, opens>> /\ Quiet

Relist(t) ==
  /\ at[t] = "relist" /\ Held /\ List(t)
  /\ UNCHANGED <<class, alive, handle, info, open, opens>> /\ Quiet

(* The devices, one after the other, until one is the one looked for.      *)
Find(t) ==
  /\ at[t] = "find" /\ Held
  /\ \/ Goto(t, "catch")                                         \* no descriptor
     \/ /\ i[t] + 1 = Devices /\ Goto(t, "libusb_open")
     \/ /\ i' = [i EXCEPT ![t] = @ + 1]
        /\ Go(t, IF i'[t] < Devices THEN "find" ELSE "out")
        /\ UNCHANGED <<op, no, hnd>>
  /\ UNCHANGED <<class, alive, handle, info, open, opens>> /\ Quiet

LibusbOpen(t) ==
  /\ at[t] = "libusb_open" /\ Held
  /\ \/ /\ Opened(t, "catch") /\ UNCHANGED <<handle, open, opens>>
     \/ /\ handle' = opens + 1 /\ open' = open \cup {opens + 1}
        /\ opens' = opens + 1 /\ Opened(t, "reset")

(* libusb_reset_device.                                                    *)
Reset(t) ==
  /\ at[t] = "reset" /\ Free
  /\ lock' = t /\ hnd' = [hnd EXCEPT ![t] = handle] /\ Go(t, "resetting")
  /\ UNCHANGED <<class, alive, handle, info, open, opens, op, no, i>> /\ Quiet
ResetDoneLocked(t) ==                                            \* mutant
  /\ at[t] = "resetting"
  /\ \/ Goto(t, "catch") /\ UNCHANGED object
     \/ Goto(t, "descriptors") /\ Leave(t)
  /\ Quiet
ResetDone(t) ==
  /\ at[t] = "resetting" /\ Leave(t)
  /\ Goto(t, "catch") \/ Goto(t, "descriptors")
  /\ Quiet

(* new usb_info_t reads the strings of the device, its configurations and  *)
(* interfaces through the handle; the earlier one is not deleted.  Its     *)
(* exception is left out: open would wait in close for the mutex it holds. *)
Describe(t) ==
  /\ at[t] = "descriptors" /\ Free
  /\ lock' = t /\ hnd' = [hnd EXCEPT ![t] = handle] /\ Go(t, "describing")
  /\ UNCHANGED <<class, alive, handle, info, open, opens, op, no, i>> /\ Quiet
Described(t) ==
  /\ at[t] = "describing"
  /\ info' = TRUE /\ Unlock(t) /\ Goto(t, "endpoints")
  /\ UNCHANGED <<class, alive, handle, open, opens>> /\ Quiet

Endpoints(t) ==
  /\ at[t] = "endpoints" /\ Held /\ Goto(t, "out")
  /\ UNCHANGED <<class, alive, handle, info, open, opens>> /\ Quiet

(* close(), by itself, before the device is opened again and after an      *)
(* error of open.                                                          *)
Close(t, from, to) ==
  /\ at[t] = from /\ Held
  /\ handle' = nullptr /\ open' = open \ {handle}
  /\ UNCHANGED opens /\ Opened(t, to)
CloseUnlocked(t) ==                                              \* mutant
  /\ at[t] = "close"
  /\ handle' = nullptr /\ open' = open \ {handle}
  /\ UNCHANGED <<lock, opens>> /\ Opened(t, "out")
CloseCalled(t) == Close(t, "close", "out")
CloseFirst(t)  == Close(t, "close_first", "relist")

Catch(t) ==
  \/ handle # nullptr /\ Close(t, "catch", "out")
  \/ /\ at[t] = "catch" /\ handle = nullptr /\ Goto(t, "out")
     /\ UNCHANGED object /\ Quiet

(* async_usb_t::open keeps the mutex.  It throws without a list, without   *)
(* the device or when libusb cannot open it; when a descriptor is missing  *)
(* the handle stays open and the counts are those of the configurations    *)
(* read so far.                                                            *)
AsyncOpen(t) ==
  /\ at[t] = "async_open" /\ Held /\ Goto(t, "out")
  /\ \/ open' = open \ {handle} /\ UNCHANGED <<handle, opens, info>>
     \/ /\ open' = (open \ {handle}) \cup {opens + 1}
        /\ handle' = opens + 1 /\ opens' = opens + 1
        /\ info' \in {info, TRUE}
  /\ Static /\ Quiet

(* ~usb_t, ~async_usb_t.                                                   *)
Destroy ==
  /\ alive /\ \A t \in Threads : at[t] = "out"
  /\ class = "usb_t" => handle = nullptr
  /\ alive' = FALSE /\ Held
  /\ open' = open \ {handle} /\ handle' = nullptr
  /\ info' = IF class = "usb_t" THEN FALSE ELSE info
  /\ UNCHANGED <<class, opens, thread>> /\ Quiet
-----------------------------------------------------------------------------
Init ==
  /\ class \in Classes /\ alive = TRUE /\ lock = NoOne
  /\ handle = nullptr /\ info = FALSE /\ open = {} /\ opens = 0
  /\ at = [t \in Threads |-> "out"] /\ op = [t \in Threads |-> "close"]
  /\ no = [t \in Threads |-> 0] /\ i = [t \in Threads |-> 0]
  /\ hnd = [t \in Threads |-> nullptr]
  /\ wire = << >> /\ sent = {}

Step(t) ==
  \/ Loop(t) \/ Info(t) \/ Enter(t) \/ Configured(t) \/ Controlled(t)
  \/ Interrupted(t) \/ BulkReceived(t) \/ ReceivedInTime(t) \/ TransmitInterrupt(t)
  \/ ClaimNext(t) \/ ReleaseNext(t) \/ Receive(t)
  \/ SendFails(t) \/ SendOnce(t) \/ SendRest(t)
  \/ Open(t) \/ Relist(t) \/ Find(t) \/ LibusbOpen(t) \/ Reset(t) \/ ResetDone(t)
  \/ Describe(t) \/ Described(t) \/ Endpoints(t)
  \/ CloseCalled(t) \/ CloseFirst(t) \/ Catch(t) \/ AsyncOpen(t)

Next == (\E t \in Threads : Begin(t) \/ Step(t)) \/ Destroy

(* A thread in a call goes on, and libusb returns: the device answers.     *)
Fairness == \A t \in Threads : WF_vars(Step(t))

Spec == Init /\ [][Next]_vars /\ Fairness
-----------------------------------------------------------------------------
InLibusb == {"libusb", "resetting", "describing"}

(* Types, and the mutex is held exactly while its holder is in libusb: no  *)
(* return, exception or error path of a call leaves it locked.             *)
TypeOK ==
  /\ handle \in 0..opens /\ open \subseteq 1..opens /\ opens <= MaxOpens
  /\ alive \in BOOLEAN /\ info \in BOOLEAN
  /\ \A t \in Threads :
       /\ no[t] <= MaxCalls[t] /\ i[t] <= Interfaces + Devices + Parts
       /\ lock = t <=> at[t] \in InLibusb /\ op[t] \notin Unlocked

(* libusb has one handle of the object open at most, the one the object    *)
(* holds, and no thread is inside libusb with a handle that another thread *)
(* has closed: only bulk_recv, which does not look whether there is one,   *)
(* and transmit_interrupt, which takes no mutex, can be.                   *)
HandleHeld ==
  /\ open = {handle} \ {nullptr}
  /\ \A t \in Threads :
       at[t] \in InLibusb /\ op[t] \notin Unlocked \cup Unlooked => hnd[t] \in open

(* The messages of two threads do not mix: what the device receives of one *)
(* call is its parts from the first on, each once and with nothing in      *)
(* between, and all of them when the call returned without an error.       *)
Unmixed ==
  /\ \A j \in DOMAIN wire :
       \/ wire[j][3] = 1
       \/ j > 1 /\ wire[j] = <<wire[j-1][1], wire[j-1][2], wire[j-1][3] + 1>>
  /\ \A c \in sent : \E j \in DOMAIN wire : wire[j] = <<c[1], c[2], Parts>>
  /\ \A j, k \in DOMAIN wire : wire[j] = wire[k] => j = k

(* Every call returns, whatever libusb answers and whoever else is at it:  *)
(* no thread waits for the mutex forever.                                  *)
Returns == \A t \in Threads : at[t] # "out" ~> at[t] = "out"
=============================================================================
