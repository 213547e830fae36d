--------------------------- MODULE AppointmentBook ---------------------------
(***************************************************************************)
(* What booking promises, with no lock, no request and no failure in it:   *)
(* a slot has at most one holder for ever, and a caller is told of a slot  *)
(* only while holding it.  BookingFlow is shown to implement this module.  *)
(***************************************************************************)
CONSTANTS Callers, Slots, Office, NoOne, NoSlot

VARIABLES
  book,   \* [Slots -> holder], NoOne when the slot is free
  told    \* [Callers -> the slot the caller believes is theirs, or NoSlot]

bookVars == <<book, told>>

Holders == Callers \cup {Office}

TypeOK ==
  /\ book \in [Slots -> Holders \cup {NoOne}]
  /\ told \in [Callers -> Slots \cup {NoSlot}]

Init ==
  /\ book = [s \in Slots |-> NoOne]
  /\ told = [c \in Callers |-> NoSlot]

Take(h, s) ==
  /\ book[s] = NoOne
  /\ book' = [book EXCEPT ![s] = h]
  /\ UNCHANGED told

Tell(c, s) ==
  /\ book[s] = c
  /\ told' = [told EXCEPT ![c] = s]
  /\ UNCHANGED book

Next ==
  \/ \E h \in Holders, s \in Slots : Take(h, s)
  \/ \E c \in Callers, s \in Slots : Tell(c, s)

Spec == Init /\ [][Next]_bookVars
=============================================================================
