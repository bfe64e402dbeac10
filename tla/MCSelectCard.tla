---------------------------- MODULE MCSelectCard ----------------------------
(* Populations for TLC.  Parts are sets of 1 bits; a part that begins with *)
(* the cascade tag 88 holds the bits 3 and 7.                              *)
EXTENDS SelectCard

Base     == {1, 9, 12, 20, 30}
With(S)  == Base \cup S
Tagged   == {3, 7, 10, 17, 29}
Four(S, iso4)  == Card("card", iso4, <<With(S)>>)
Seven(S, T)    == Card("card", TRUE, <<Tagged \cup S, With(T)>>)

(* Two cards that differ first in bit p, and in others after it.           *)
Pairs == { << Four({}, TRUE), Four({p, 31}, FALSE) >> : p \in {0, 2, 6, 7, 8, 16, 24, 31} }
Sevens == { << Seven({}, {}), Seven({}, {5}) >>, << Seven({}, {}), Seven({15}, {5}) >>,
            << Seven({}, {}), Four({2, 15}, TRUE) >> }
Triples == { << Four({}, TRUE), Four({3, 17}, TRUE), Four({3, 26}, TRUE) >>,
             << Four({}, TRUE), Four({7, 11}, TRUE), Four({7, 14}, TRUE) >>,
             << Four({}, TRUE), Four({7, 8}, TRUE), Four({7, 24}, TRUE) >>,
             << Four({}, TRUE), Four({23, 24}, TRUE), Four({23}, TRUE) >> }
Emulated == { << Card(kind, iso4, parts) >> :
                kind \in {"simtag", "mf1k"}, iso4 \in BOOLEAN, parts \in { <<Base>>, <<Tagged, Base>> } }
Alone == { << Four({}, FALSE) >>, << Seven({}, {}) >>,
           << Card("card", TRUE, <<Tagged, Tagged, Base>>) >> }
AnyPopulation ==
  Pairs \cup Sevens \cup Triples \cup Alone
  \cup { p \in Emulated : p[1].kind = "simtag" \/ ~p[1].iso4 }

HostRequests ==
  { {"CONNECT"}, {"CONNECT", "APDU", "NO_DISCONNECT"}, {"CONNECT", "RAW", "NO_DISCONNECT"},
    {"APDU", "NO_DISCONNECT"}, {"CONNECT", "NO_SELECT", "RAW"} }
=============================================================================
