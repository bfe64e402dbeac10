------------------------------- MODULE MCSnoop -------------------------------
(* What is on the air in the runs of Snoop. *)
EXTENDS Snoop, Signals

\* Short requests, whole bytes and the acknowledgement; a split byte after a
\* whole one is left out, MillerDecoding drops it.
Single == One(ShortFrames \cup ReaderBytes \cup CardBytes \cup Acks, 0..7)

\* The standard's shortest delay; the phases move every frame over all offsets.
Shortest == Sessions(0..7, {FRAME_DELAY_TIME_PICC_TO_PCD})
With(frames) == {[sc EXCEPT !.frames = frames] : sc \in Shortest}

\* A session whose first frame is not a short request.
Late == With(<<SELECT, UID, REQA, ATQA>>)

\* One that the card acknowledges with four bits.
Acked == With(<<REQA, Card4(<<0,1,0,1>>), SELECT, UID>>)

\* The trace of 79 bytes has room for four frames of two bytes less one byte:
\* it is full at the second entry of the last.  With blocks of eight bytes it is
\* full at the first entry of the last.
Block == Card(UID.data \o UID.data \o UID.data \o UID.data)
Crowded == With(<<SELECT, UID, SELECT, UID>>) \cup With(<<SELECT, Block, SELECT, Block>>)

Everything == Single \cup Shortest \cup Late \cup Acked \cup Crowded
=============================================================================
