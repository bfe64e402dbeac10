------------------------------- MODULE Signals -------------------------------
(* Scenarios for TLC: what the reader and the card send, and when. *)
EXTENDS Air

Reader(data) == [by |-> "reader", data |-> data]
Card(data)   == [by |-> "card", data |-> data]
Card4(data)  == [by |-> "card4", data |-> data]

Lead == 88      \* idle ticks before the first frame, 72 of them needed

One(frames, phases) ==
    {[frames |-> <<f>>, starts |-> <<Lead + p>>, pause |-> w, load |-> w + 1,
      tail |-> 4] : f \in frames, p \in phases, w \in {2, 3}}

\* Seven bits, the first of them 1 or some later one.
ShortFrames == {Reader(d) : d \in [1..7 -> Bit] \ {[i \in 1..7 |-> 0]}}

\* A byte of the reader, two bytes the second of which is split, a byte of
\* the card, and its four-bit acknowledgement.
Nibbles == [1..4 -> Bit]
ReaderBytes == {Reader(a \o b) : a \in Nibbles, b \in {<<0,1,1,0>>, <<1,1,0,0>>}}
SplitBytes ==
    {Reader(<<1,1,0,0,1,0,0,1>> \o a) : a \in Nibbles \ {<<0,0,0,0>>}}
CardBytes ==
    {Card(a \o b) : a \in Nibbles, b \in {<<0,0,0,0>>, <<1,1,1,1>>, <<1,0,0,1>>}}
Acks == {Card4(a) : a \in Nibbles}

REQA == Reader(<<0,1,1,0,0,1,0>>)
ATQA == Card(<<0,0,1,0,0,0,0,0, 0,0,0,0,0,0,0,0>>)
SELECT == Reader(<<1,1,0,0,1,0,0,1, 0,0,0,0,0,1,0,0>>)
UID == Card(<<1,1,1,0,0,1,0,1, 0,1,1,1,0,1,1,1>>)

\* A session of two exchanges.  The card answers after 1172 or 1236 carrier
\* cycles, give or take the sampling; guard is the reader's pause after it.
Sessions(phases, guards) ==
    {[frames |-> <<REQA, ATQA, SELECT, UID>>,
      starts |-> <<Lead + p, fdt, guard, fdt>>, pause |-> w, load |-> w + 1,
      tail |-> 4] :
        p \in phases, fdt \in {73, 74, 77, 78}, guard \in guards, w \in {2, 3}}
=============================================================================
