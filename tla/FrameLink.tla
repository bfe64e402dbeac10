----------------------------- MODULE FrameLink ------------------------------
(***************************************************************************)
(* What the USB transport promises the two programs: commands and frames   *)
(* of 544 bytes arrive whole, once and in order, and neither side has room *)
(* for a second one.  A process that dies inside transmit leaves a         *)
(* truncated command or none; a process that starts while a frame of an    *)
(* earlier one is being written finds the link jammed for good.            *)
(***************************************************************************)
EXTENDS Integers

CONSTANTS
  Answers,      \* how many frames a command may be answered with
  MaxRuns,      \* processes
  MaxCommands   \* commands of one process

VARIABLES
  client,   \* what the host process is doing
  run,      \* which process it is
  no,       \* its current command
  due,      \* the frames it still waits for
  request,  \* the command on its way to the firmware
  server,   \* what the firmware is doing
  serving,  \* the command it executes
  left,     \* the frames it still has to write
  frame     \* the frame it is writing

clientVars == <<client, run, no, due>>
serverVars == <<server, serving, left, frame>>
vars       == <<clientVars, request, serverVars>>

None == [run |-> 0, no |-> 0]
Command == [run |-> run, no |-> no]

Init ==
  /\ client = "off" /\ run = 0 /\ no = 0 /\ due = 0 /\ request = None
  /\ server = "poll" /\ serving = None /\ left = 0 /\ frame = None

Start ==
  /\ client = "off" /\ run < MaxRuns
  /\ client' = "open" /\ run' = run + 1 /\ no' = 0 /\ due' = 0
  /\ UNCHANGED <<request, serverVars>>

(* A new process resets the link; what was on its way is lost.             *)
Reset ==
  /\ client = "open" /\ client' = "idle"
  /\ request' = None /\ frame' = None
  /\ server' = IF frame # None THEN "jammed" ELSE server
  /\ UNCHANGED <<run, no, due, serving, left>>

Send ==
  /\ client = "idle" /\ no < MaxCommands
  /\ client' = "send" /\ no' = no + 1
  /\ \E a \in Answers : due' = a
  /\ request' = [run |-> run, no |-> no + 1]
  /\ UNCHANGED <<run, serverVars>>

(* transmit returns, perhaps before the firmware has read all of it.       *)
Sent ==
  /\ client = "send"
  /\ client' = IF due = 0 THEN "off" ELSE "receive"
  /\ UNCHANGED <<run, no, due, request, serverVars>>

(* The firmware reads a command that is not being sent any more.           *)
Fetch ==
  /\ server = "poll" /\ request # None /\ client # "send"
  /\ server' = "run" /\ serving' = request /\ request' = None
  /\ UNCHANGED <<clientVars, left, frame>>

Execute ==
  /\ server = "run" /\ server' = "write"
  /\ \/ client = "receive" /\ serving = Command /\ left' = due
     \/ ~(client = "receive" /\ serving = Command) /\ left' \in Answers
  /\ UNCHANGED <<clientVars, request, serving, frame>>

Offer ==
  /\ server = "write" /\ left > 0 /\ frame = None
  /\ frame' = serving /\ left' = left - 1
  /\ UNCHANGED <<clientVars, request, server, serving>>

Served ==
  /\ server = "write" /\ left = 0 /\ frame = None
  /\ server' = "poll" /\ serving' = None
  /\ UNCHANGED <<clientVars, request, left, frame>>

(* The host takes a frame, an answer to the command it sent.               *)
Take ==
  /\ client = "receive" /\ frame = Command
  /\ frame' = None /\ due' = due - 1
  /\ client' = IF due' = 0 THEN "idle" ELSE "receive"
  /\ UNCHANGED <<run, no, request, server, serving, left>>

Leave ==
  /\ client = "idle" /\ client' = "off"
  /\ UNCHANGED <<run, no, due, request, serverVars>>

(* Killed in transmit, the process may leave nothing of its command.       *)
Die ==
  /\ client # "off" /\ client' = "off"
  /\ request' \in IF client = "send" THEN {request, None} ELSE {request}
  /\ UNCHANGED <<run, no, due, serverVars>>

Next ==
  \/ Start \/ Reset \/ Send \/ Sent \/ Take \/ Leave \/ Die
  \/ Fetch \/ Execute \/ Offer \/ Served

Spec == Init /\ [][Next]_vars
=============================================================================
