-------------------------------- MODULE Snoop --------------------------------
(***************************************************************************)
(* SnoopIso14443a (fw-mods/iso1443a.c): the firmware demodulates both      *)
(* sides while it samples them and logs their frames in a trace of         *)
(* TRACE_SIZE bytes, two entries a frame: its bytes at its start time, and *)
(* nothing at its end time.                                                *)
(***************************************************************************)
EXTENDS Air, Demod

CONSTANTS
    TRACE_SIZE,     \* bytes in the trace
    Params          \* the parameters of the command

ASSUME SnoopAssumption ==
    /\ TRACE_SIZE \in Nat
    /\ Params \subseteq 0..3

VARIABLES
    Uart, Demod,        \* the demodulators
    ReaderIsActive, TagIsActive,
    param,              \* bit 0: trigger from first card answer,
                        \* bit 1: trigger from first reader 7-bit request
    triggered,          \* recording has started
    half,               \* which demodulator the loop comes to next
    trace,              \* the entries logged
    traceLen,           \* and the bytes they take
    main                \* "cycle" or, after a break, "finished"

snoopVars == <<Uart, Demod, ReaderIsActive, TagIsActive, param, triggered,
               half, trace, traceLen, main>>
vars == <<airVars, snoopVars>>

OnCardAnswer(p) == p % 2 = 1
OnShortRequest(p) == p \div 2 = 1

Init ==
    /\ AirInit
    /\ Uart = MillerReset
    /\ Demod = DemodReset
    /\ ReaderIsActive = FALSE
    /\ TagIsActive = FALSE
    /\ param \in Params
    /\ triggered = (param = 0)
    /\ half = "miller"
    /\ trace = <<>>
    /\ traceLen = 0
    /\ main = "cycle"

----------------------------------------------------------------------------
(* LogTrace: an entry is two words, a length byte and the frame's bytes.  The *)
(* test leaves the length byte out.  The flag "tracing" is not read here.      *)

EntrySize(output) == 4 + 4 + 1 + Len(output)
FitsUpTo(used, output) == used + 4 + 4 + Len(output) <= TRACE_SIZE  \* mutant
Fits(used, output) == used + 4 + 4 + Len(output) < TRACE_SIZE

Entry(by, output) == [by |-> by, bytes |-> output]

LogFrameOn(by, output) ==                                         \* mutant
    /\ IF Fits(traceLen, output)
       THEN /\ trace' = trace \o <<Entry(by, output), Entry(by, <<>>)>>
            /\ traceLen' = traceLen + EntrySize(output) + EntrySize(<<>>)
       ELSE /\ trace' = Append(trace, Entry(by, <<>>))
            /\ traceLen' = traceLen + EntrySize(<<>>)
    /\ UNCHANGED main

\* Both entries of a frame; the loop breaks at the first that does not fit.
LogFrame(by, output) ==
    LET afterStart == traceLen + EntrySize(output)
        entries == <<Entry(by, output), Entry(by, <<>>)>>
    IN  IF ~Fits(traceLen, output)
        THEN /\ main' = "finished"
             /\ UNCHANGED <<trace, traceLen>>
        ELSE IF ~Fits(afterStart, <<>>)
        THEN /\ trace' = Append(trace, entries[1])
             /\ traceLen' = afterStart
             /\ main' = "finished"
        ELSE /\ trace' = trace \o entries
             /\ traceLen' = afterStart + EntrySize(<<>>)
             /\ UNCHANGED main

Unlogged == UNCHANGED <<trace, traceLen, main>>

----------------------------------------------------------------------------
(* One turn of the main cycle, for a pair of bytes. *)

Reading(h) == main = "cycle" /\ half = h /\ More

SkipMiller ==
    /\ Reading("miller")
    /\ TagIsActive
    /\ half' = "manchester"
    /\ Unlogged
    /\ UNCHANGED <<airVars, Uart, Demod, ReaderIsActive, TagIsActive, param, triggered>>

MillerBits ==
    /\ Reading("miller")
    /\ ~TagIsActive
    /\ ~MillerDone(Uart, ReaderByte)
    /\ Uart' = MillerDecoding(Uart, ReaderByte)
    /\ ReaderIsActive' = (Uart'.state /= "unsync")
    /\ half' = "manchester"
    /\ Unlogged
    /\ UNCHANGED <<airVars, Demod, TagIsActive, param, triggered>>

\* Uart.len == 1 and Uart.bitCount == 7: a short request.
ShortRequest(u, done) == Len(done.output) = 1 /\ MillerBitCount(u) = 7

MillerFrame ==
    /\ Reading("miller")
    /\ ~TagIsActive
    /\ MillerDone(Uart, ReaderByte)
    /\ LET done == MillerDecoding(Uart, ReaderByte)
       IN  /\ triggered' = \/ triggered
                           \/ OnShortRequest(param) /\ ShortRequest(Uart, done)
           /\ IF triggered' THEN LogFrame("reader", done.output) ELSE Unlogged
    /\ IF main' = "finished"
       THEN /\ Uart' = MillerDecoding(Uart, ReaderByte)
            /\ UNCHANGED <<Demod, ReaderIsActive, half>>
       ELSE /\ Uart' = MillerReset
            /\ Demod' = DemodReset
            /\ ReaderIsActive' = FALSE
            /\ half' = "manchester"
    /\ UNCHANGED <<airVars, TagIsActive, param>>

NextPair ==
    /\ half' = "miller"
    /\ now' = now + 1
    /\ UNCHANGED <<sent, signal>>

SkipManchester ==
    /\ Reading("manchester")
    /\ ReaderIsActive
    /\ NextPair
    /\ Unlogged
    /\ UNCHANGED <<Uart, Demod, ReaderIsActive, TagIsActive, param, triggered>>

ManchesterBits ==
    /\ Reading("manchester")
    /\ ~ReaderIsActive
    /\ ~manchester_done(Demod, CardByte)
    /\ Demod' = ManchesterDecoding(Demod, CardByte)
    /\ TagIsActive' = (Demod'.state /= "unsync")
    /\ NextPair
    /\ Unlogged
    /\ UNCHANGED <<Uart, ReaderIsActive, param, triggered>>

ManchesterFrameBoth ==                                            \* mutant
    /\ Reading("manchester")
    /\ ~ReaderIsActive
    /\ manchester_done(Demod, CardByte)
    /\ LogFrame("card", ManchesterDecoding(Demod, CardByte).output)
    /\ triggered' = (triggered \/ OnCardAnswer(param))
    /\ Demod' = DemodReset
    /\ Uart' = MillerReset
    /\ TagIsActive' = FALSE
    /\ NextPair
    /\ UNCHANGED <<ReaderIsActive, param>>

\* A frame of the card is logged before the trigger is looked at.
ManchesterFrame ==
    /\ Reading("manchester")
    /\ ~ReaderIsActive
    /\ manchester_done(Demod, CardByte)
    /\ LogFrame("card", ManchesterDecoding(Demod, CardByte).output)
    /\ IF main' = "finished"
       THEN /\ Demod' = ManchesterDecoding(Demod, CardByte)
            /\ UNCHANGED <<airVars, TagIsActive, half, triggered>>
       ELSE /\ triggered' = (triggered \/ OnCardAnswer(param))
            /\ Demod' = DemodReset
            /\ TagIsActive' = FALSE
            /\ NextPair
    /\ UNCHANGED <<Uart, ReaderIsActive, param>>

\* The button, or more than 400 bytes of the DMA buffer not yet read.
Cancel ==
    /\ main = "cycle"
    /\ half = "miller"
    /\ main' = "finished"
    /\ UNCHANGED <<airVars, Uart, Demod, ReaderIsActive, TagIsActive, param,
                   triggered, half, trace, traceLen>>

Next ==
    \/ SkipMiller \/ MillerBits \/ MillerFrame
    \/ SkipManchester \/ ManchesterBits \/ ManchesterFrame
    \/ Cancel

Spec == Init /\ [][Next]_vars
----------------------------------------------------------------------------
\* The variables of the cycle have their types.
TypeOK ==
    /\ now \in Nat
    /\ Uart.state \in {"unsync", "soc", "X", "Y", "Z"}
    /\ Demod.state \in {"unsync", "data"}
    /\ \A d \in {Uart, Demod} :
          /\ d.two \in [1..16 -> Samples]
          /\ d.high \in 0..7
          /\ d.sync \in 0..7 \cup {NoSync}
          /\ d.state /= "unsync" => d.sync /= NoSync
          /\ d.bits \in Seq(Bit) /\ Len(d.bits) <= 8
          /\ d.output \in Seq(Byte)
    /\ ReaderIsActive \in BOOLEAN /\ TagIsActive \in BOOLEAN
    /\ param \in Params /\ triggered \in BOOLEAN
    /\ half \in {"miller", "manchester"} /\ main \in {"cycle", "finished"}
    /\ trace \in Seq([by: {"reader", "card"}, bytes: Seq(Byte)])
    /\ traceLen \in Nat

\* LogTrace never writes past the trace, though its test counts one byte less
\* than it writes.
TraceFits == traceLen <= TRACE_SIZE

\* What should be recorded: everything from the trigger on, and the answers
\* of the card in any case.
Short(f) == f.by = "reader" /\ Len(f.data) = 7

Wanted(i) ==
    \/ param = 0
    \/ sent[i].by /= "reader"
    \/ OnCardAnswer(param) /\ \E j \in 1..(i - 1) : sent[j].by /= "reader"
    \/ OnShortRequest(param) /\ \E j \in 1..i : Short(sent[j])

WantedFrames == SelectSeq([i \in DOMAIN sent |-> i], Wanted)

\* The entries of those frames, two each.
WantedTrace ==
    [n \in 1..(2 * Len(WantedFrames)) |->
        LET f == sent[WantedFrames[(n + 1) \div 2]]
        IN  Entry(IF f.by = "reader" THEN "reader" ELSE "card",
                  IF n % 2 = 1 THEN BytesOf(f.data) ELSE <<>>)]

\* Wherever the recording stops, by the button, at the end of the trace or
\* between the two entries of a frame, the trace is what was sent, in order.
InOrder ==
    /\ Len(trace) <= Len(WantedTrace)
    /\ \A n \in DOMAIN trace : trace[n] = WantedTrace[n]

\* A recording nobody stopped has every frame, however close together the
\* standard lets them be and wherever in a byte they begin.
AllLogged == main = "cycle" /\ half = "miller" /\ ~More => trace = WantedTrace
=============================================================================
