---------------------------- MODULE BookingFlow ------------------------------
(***************************************************************************)
(* Concurrent callers booking consultation slots: _handle_schedule_now and *)
(* _handle_booking_confirmed of voice/websocket_handler.py, together with  *)
(* scheduling/calendar_service.book_appointment and the part of the GHL    *)
(* client it calls.  One process per call (the LLM/TTS task of the call    *)
(* runs the two handlers one after the other); the callers share the Redis *)
(* slot locks and the GoHighLevel (GHL) calendar.  Every await is a place  *)
(* where another caller, GHL, Redis or the office may step in.             *)
(***************************************************************************)
EXTENDS Naturals

CONSTANTS
  Callers,               \* concurrent calls
  Slots,                 \* start times offered by the calendar, as numbers
  Office,                \* staff booking directly in GHL
  NoOne, NoSlot,         \* absent holder, absent slot
  MaxConfirms,           \* bound: CONFIRM_SLOT signals per call
  AnswersMayBeLost,      \* may an HTTP call to GHL time out after GHL got it?
  CallsMayDrop,          \* may the call's tasks be cancelled, or the process die?
  LeaseOutlivesBooking   \* is the 30 s lock lease longer than any booking?

ASSUME CallersAssumption == NoOne \notin Callers /\ Office \notin Callers /\ NoOne # Office
ASSUME SlotsAssumption == Slots \subseteq Nat /\ NoSlot \notin Slots
ASSUME BoundAssumption == MaxConfirms \in Nat

VARIABLES
  pc,         \* where the call's LLM/TTS task is
  contact,    \* session.ghl_contact_id is set
  fetched,    \* slots read from GHL and still being read out
  pending,    \* intake["_pending_slots_full"]
  cur, todo,  \* candidate being tried, candidates after it
  outcome,    \* did book_appointment return an appointment?
  scheduled,  \* state.scheduled_at, which finalisation confirms by SMS
  confirms,   \* CONFIRM_SLOT signals handled, the identity of a booking attempt
  lock,       \* slot_lock:{calendar}:{slot}, the call that set it or NoOne
  wire,       \* POSTs sent to GHL and not processed by it
  reply,      \* GHL's answer to the POST the call waits for
  ghl,        \* GHL's calendar: who has each slot
  gcal,       \* mirror events in Google Calendar
  lost        \* POSTs whose answer never came, for the properties only

session  == <<pc, contact, fetched, pending, cur, todo, outcome, scheduled, confirms>>
external == <<wire, reply, ghl, gcal, lost>>
vars     == <<session, lock, external>>

PCs == {"idle", "offering", "confirming", "trying", "locked", "posting",
        "mirroring", "releasing", "refetching", "apologising", "failing", "ended"}

\* Between the SET NX of the slot lock and the DELETE in the finally block.
Holding == {"locked", "posting", "mirroring", "releasing"}

Attempts == [from : Callers, n : Nat]
Vacant   == [from |-> NoOne, n |-> 0]
ByOffice == [from |-> Office, n |-> 0]
Posts    == [from : Callers, slot : Slots, n : Nat]

TypeOK ==
  /\ pc \in [Callers -> PCs]
  /\ contact \in [Callers -> BOOLEAN]
  /\ fetched \in [Callers -> SUBSET Slots]
  /\ pending \in [Callers -> SUBSET Slots]
  /\ cur \in [Callers -> Slots \cup {NoSlot}]
  /\ todo \in [Callers -> SUBSET Slots]
  /\ outcome \in [Callers -> BOOLEAN]
  /\ scheduled \in [Callers -> Slots \cup {NoSlot}]
  /\ confirms \in [Callers -> Nat]
  /\ lock \in [Slots -> Callers \cup {NoOne}]
  /\ wire \in SUBSET Posts
  /\ reply \in [Callers -> {"none", "booked", "refused"}]
  /\ ghl \in [Slots -> Attempts \cup {Vacant, ByOffice}]
  /\ gcal \in SUBSET Posts
  /\ lost \in SUBSET Posts

Init ==
  /\ pc = [c \in Callers |-> "idle"]
  /\ contact \in [Callers -> BOOLEAN]      \* lookup_caller may know the caller
  /\ fetched = [c \in Callers |-> {}]
  /\ pending = [c \in Callers |-> {}]
  /\ cur = [c \in Callers |-> NoSlot]
  /\ todo = [c \in Callers |-> {}]
  /\ outcome = [c \in Callers |-> FALSE]
  /\ scheduled = [c \in Callers |-> NoSlot]
  /\ confirms = [c \in Callers |-> 0]
  /\ lock = [s \in Slots |-> NoOne]
  /\ wire = {}
  /\ reply = [c \in Callers |-> "none"]
  /\ ghl = [s \in Slots |-> Vacant]
  /\ gcal = {}
  /\ lost = {}

-----------------------------------------------------------------------------
Goto(c, l) == pc' = [pc EXCEPT ![c] = l]

FreeSlots == {s \in Slots : ghl[s] = Vacant}

Earliest(S) == CHOOSE s \in S : \A t \in S : s <= t

\* The POST the call is waiting for.
CurrentPost(c) == [from |-> c, slot |-> cur[c], n |-> confirms[c]]

(***************************************************************************)
(* Offering slots                                                          *)
(***************************************************************************)

\* SCHEDULE_NOW with no pending offer.  The days are fetched one by one and a
\* day whose request fails contributes nothing, so any part of what is free may
\* come back; nothing at all ends the handler.
ScheduleNow(c) ==
  /\ pc[c] = "idle"
  /\ pending[c] = {}
  /\ \E offer \in SUBSET FreeSlots :
       /\ fetched' = [fetched EXCEPT ![c] = offer]
       /\ Goto(c, IF offer = {} THEN "idle" ELSE "offering")
  /\ UNCHANGED <<contact, pending, cur, todo, outcome, scheduled, confirms, lock, external>>

\* The slots are stored only after they have been read out.
OfferSpoken(c) ==
  /\ pc[c] = "offering"
  /\ pending' = [pending EXCEPT ![c] = fetched[c]]
  /\ fetched' = [fetched EXCEPT ![c] = {}]
  /\ Goto(c, "idle")
  /\ UNCHANGED <<contact, cur, todo, outcome, scheduled, confirms, lock, external>>

(***************************************************************************)
(* Confirming one                                                          *)
(***************************************************************************)

ConfirmSlot(c) ==
  /\ pc[c] = "idle"
  /\ confirms[c] < MaxConfirms
  /\ confirms' = [confirms EXCEPT ![c] = @ + 1]
  /\ Goto(c, "confirming")
  /\ UNCHANGED <<contact, fetched, pending, cur, todo, outcome, scheduled, lock, external>>

\* A new caller has no GHL contact yet: create it now or give up.
EagerContact(c) ==
  /\ pc[c] = "confirming"
  /\ ~contact[c]
  /\ \E created \in BOOLEAN :
       /\ contact' = [contact EXCEPT ![c] = created]
       /\ Goto(c, IF created THEN "confirming" ELSE "idle")
  /\ UNCHANGED <<fetched, pending, cur, todo, outcome, scheduled, confirms, lock, external>>

NothingOffered(c) ==
  /\ pc[c] = "confirming"
  /\ contact[c]
  /\ pending[c] = {}
  /\ Goto(c, "idle")
  /\ UNCHANGED <<contact, fetched, pending, cur, todo, outcome, scheduled, confirms, lock, external>>

\* The ISO time of the signal selects an offered slot, and an ISO that matches
\* none selects the first, so any offered slot may be meant.
MatchSlot(c) ==
  /\ pc[c] = "confirming"
  /\ contact[c]
  /\ \E s \in pending[c] :
       /\ cur' = [cur EXCEPT ![c] = s]
       /\ todo' = [todo EXCEPT ![c] = pending[c] \ {s}]
  /\ Goto(c, "trying")
  /\ UNCHANGED <<contact, fetched, pending, outcome, scheduled, confirms, lock, external>>

\* Faulty variant: the handler returns when no candidate is left.
StopAtLast(c) ==
  IF todo[c] = {}
  THEN /\ cur' = [cur EXCEPT ![c] = NoSlot]
       /\ Goto(c, "idle")
       /\ UNCHANGED todo
  ELSE /\ cur' = [cur EXCEPT ![c] = Earliest(todo[c])]
       /\ todo' = [todo EXCEPT ![c] = @ \ {Earliest(@)}]
       /\ Goto(c, "trying")

\* Go on with the next candidate, or to the refetch when there is none.
NextCandidate(c) ==
  IF todo[c] = {}
  THEN /\ cur' = [cur EXCEPT ![c] = NoSlot]
       /\ Goto(c, "refetching")
       /\ UNCHANGED todo
  ELSE /\ cur' = [cur EXCEPT ![c] = Earliest(todo[c])]
       /\ todo' = [todo EXCEPT ![c] = @ \ {Earliest(@)}]
       /\ Goto(c, "trying")

\* Faulty variant: SET without NX.
AcquireAnyway(c) ==
  /\ pc[c] = "trying"
  /\ lock' = [lock EXCEPT ![cur[c]] = c]
  /\ outcome' = [outcome EXCEPT ![c] = FALSE]
  /\ Goto(c, "locked")
  /\ UNCHANGED <<contact, fetched, pending, cur, todo, scheduled, confirms, external>>

\* SET slot_lock NX: the key was absent.
AcquireLock(c) ==
  /\ pc[c] = "trying"
  /\ lock[cur[c]] = NoOne
  /\ lock' = [lock EXCEPT ![cur[c]] = c]
  /\ outcome' = [outcome EXCEPT ![c] = FALSE]
  /\ Goto(c, "locked")
  /\ UNCHANGED <<contact, fetched, pending, cur, todo, scheduled, confirms, external>>

\* SET slot_lock NX: another caller is booking the slot.
SkipLocked(c) ==
  /\ pc[c] = "trying"
  /\ lock[cur[c]] # NoOne
  /\ NextCandidate(c)
  /\ UNCHANGED <<contact, fetched, pending, outcome, scheduled, confirms, lock, external>>

(***************************************************************************)
(* book_appointment, with the lock held                                    *)
(***************************************************************************)

\* The credential circuit of the GHL client is open: nothing is sent.
GhlUnavailable(c) ==
  /\ pc[c] = "locked"
  /\ Goto(c, "releasing")
  /\ UNCHANGED <<contact, fetched, pending, cur, todo, outcome, scheduled, confirms, lock, external>>

SendPost(c) ==
  /\ pc[c] = "locked"
  /\ wire' = wire \cup {CurrentPost(c)}
  /\ reply' = [reply EXCEPT ![c] = "none"]
  /\ Goto(c, "posting")
  /\ UNCHANGED <<contact, fetched, pending, cur, todo, outcome, scheduled, confirms, lock, ghl, gcal, lost>>

\* Faulty variant: the status of the answer is not looked at.
ReadAnyReply(c) ==
  /\ pc[c] = "posting"
  /\ reply[c] # "none"
  /\ Goto(c, "mirroring")
  /\ UNCHANGED <<contact, fetched, pending, cur, todo, outcome, scheduled, confirms, lock, external>>

\* create_appointment returned the event, or None after an HTTP error status.
ReadReply(c) ==
  /\ pc[c] = "posting"
  /\ reply[c] # "none"
  /\ Goto(c, IF reply[c] = "booked" THEN "mirroring" ELSE "releasing")
  /\ UNCHANGED <<contact, fetched, pending, cur, todo, outcome, scheduled, confirms, lock, external>>

\* The HTTP client gave up waiting; the exception is logged and appt is None.
PostTimeout(c) ==
  /\ AnswersMayBeLost
  /\ pc[c] = "posting"
  /\ lost' = lost \cup {CurrentPost(c)}
  /\ Goto(c, "releasing")
  /\ UNCHANGED <<contact, fetched, pending, cur, todo, outcome, scheduled, confirms, lock,
                 wire, reply, ghl, gcal>>

\* The Google Calendar mirror is best effort; then the day's cache is dropped.
Mirror(c) ==
  /\ pc[c] = "mirroring"
  /\ gcal' \in {gcal, gcal \cup {CurrentPost(c)}}
  /\ outcome' = [outcome EXCEPT ![c] = TRUE]
  /\ Goto(c, "releasing")
  /\ UNCHANGED <<contact, fetched, pending, cur, todo, scheduled, confirms, lock, wire, reply, ghl, lost>>

\* Faulty variants: the loop is not left after a success; the confirmed slot is
\* recorded, not the one booked.
ReleaseWithoutBreak(c) ==
  /\ pc[c] = "releasing"
  /\ lock' = [lock EXCEPT ![cur[c]] = NoOne]
  /\ scheduled' = [scheduled EXCEPT ![c] = IF outcome[c] THEN cur[c] ELSE @]
  /\ NextCandidate(c)
  /\ UNCHANGED <<contact, fetched, pending, outcome, confirms, external>>
ReleaseRecordingFirst(c) ==
  /\ pc[c] = "releasing"
  /\ lock' = [lock EXCEPT ![cur[c]] = NoOne]
  /\ \/ /\ outcome[c]
        /\ scheduled' = [scheduled EXCEPT ![c] = Earliest(pending[c])]
        /\ pending' = [pending EXCEPT ![c] = {}]
        /\ Goto(c, "idle")
        /\ UNCHANGED <<cur, todo>>
     \/ /\ ~outcome[c]
        /\ NextCandidate(c)
        /\ UNCHANGED <<scheduled, pending>>
  /\ UNCHANGED <<contact, fetched, outcome, confirms, external>>

\* finally: the lock key is deleted, whoever holds it now; then the result of
\* book_appointment decides between recording the slot and the next candidate.
Release(c) ==
  /\ pc[c] = "releasing"
  /\ lock' = [lock EXCEPT ![cur[c]] = NoOne]
  /\ \/ /\ outcome[c]
        /\ scheduled' = [scheduled EXCEPT ![c] = cur[c]]
        /\ pending' = [pending EXCEPT ![c] = {}]
        /\ Goto(c, "idle")
        /\ UNCHANGED <<cur, todo>>
     \/ /\ ~outcome[c]
        /\ NextCandidate(c)
        /\ UNCHANGED <<scheduled, pending>>
  /\ UNCHANGED <<contact, fetched, outcome, confirms, external>>

\* No candidate could be booked: what is free now becomes the offer, if anything
\* is, and the caller hears it, or hears that an attorney will call back.
Refetch(c) ==
  /\ pc[c] = "refetching"
  /\ \E offer \in SUBSET FreeSlots :
       pending' = [pending EXCEPT ![c] = IF offer = {} THEN @ ELSE offer]
  /\ Goto(c, "apologising")
  /\ UNCHANGED <<contact, fetched, cur, todo, outcome, scheduled, confirms, lock, external>>

\* The search raised, before or after the offer was stored: nothing is said.
RefetchFails(c) ==
  /\ pc[c] = "refetching"
  /\ \E offer \in SUBSET FreeSlots :
       pending' = [pending EXCEPT ![c] = IF offer = {} THEN @ ELSE offer]
  /\ Goto(c, "failing")
  /\ UNCHANGED <<contact, fetched, cur, todo, outcome, scheduled, confirms, lock, external>>

\* The apology has been spoken or the exception logged: the handler is done.
HandlerReturns(c) ==
  /\ pc[c] \in {"apologising", "failing"}
  /\ Goto(c, "idle")
  /\ UNCHANGED <<contact, fetched, pending, cur, todo, outcome, scheduled, confirms, lock, external>>

(***************************************************************************)
(* The end of a call                                                       *)
(***************************************************************************)

EndCall(c) ==
  /\ pc[c] = "idle"
  /\ Goto(c, "ended")
  /\ UNCHANGED <<contact, fetched, pending, cur, todo, outcome, scheduled, confirms, lock, external>>

\* The caller hangs up (or the duration guard ends the call) and the task is
\* cancelled where it waits; the finally block still deletes the lock, and a
\* Google request already handed to its thread still runs.
HangUp(c) ==
  /\ CallsMayDrop
  /\ pc[c] \notin {"idle", "ended"}
  /\ lock' = IF pc[c] \in Holding THEN [lock EXCEPT ![cur[c]] = NoOne] ELSE lock
  /\ gcal' \in {gcal, IF pc[c] = "mirroring" THEN gcal \cup {CurrentPost(c)} ELSE gcal}
  /\ Goto(c, "ended")
  /\ UNCHANGED <<contact, fetched, pending, cur, todo, outcome, scheduled, confirms,
                 wire, reply, ghl, lost>>

\* Cancelled while the answer to SET NX is on its way: Redis has the lock, the
\* try block was never entered.
HangUpWhileLocking(c) ==
  /\ CallsMayDrop
  /\ pc[c] = "trying"
  /\ lock[cur[c]] = NoOne
  /\ lock' = [lock EXCEPT ![cur[c]] = c]
  /\ Goto(c, "ended")
  /\ UNCHANGED <<contact, fetched, pending, cur, todo, outcome, scheduled, confirms, external>>

\* The process dies: no finally block runs.
Crash ==
  /\ CallsMayDrop
  /\ \E c \in Callers : pc[c] # "ended"
  /\ pc' = [c \in Callers |-> "ended"]
  /\ UNCHANGED <<contact, fetched, pending, cur, todo, outcome, scheduled, confirms, lock, external>>

(***************************************************************************)
(* Redis and GHL                                                           *)
(***************************************************************************)

\* Faulty variant: the lock key is set without EX.
LockNeverExpires(s) ==
  /\ lock[s] # NoOne
  /\ FALSE
  /\ UNCHANGED vars

\* EX 30 of the lock key.
LockExpires(s) ==
  /\ lock[s] # NoOne
  /\ LeaseOutlivesBooking => pc[lock[s]] \notin Holding
  /\ lock' = [lock EXCEPT ![s] = NoOne]
  /\ UNCHANGED <<session, external>>

\* Is m the POST its caller is still waiting for?
Awaited(m) == pc[m.from] = "posting" /\ m = CurrentPost(m.from)

Answer(m, r) ==
  /\ wire' = wire \ {m}
  /\ reply' = IF Awaited(m) THEN [reply EXCEPT ![m.from] = r] ELSE reply

\* GHL validates the slot: it books a free one.
GhlBooks(m) ==
  /\ m \in wire
  /\ ghl[m.slot] = Vacant
  /\ ghl' = [ghl EXCEPT ![m.slot] = [from |-> m.from, n |-> m.n]]
  /\ Answer(m, "booked")
  /\ UNCHANGED <<session, lock, gcal, lost>>

\* GHL answers with an error status (the slot is taken, a 4xx or a 5xx).
GhlRefuses(m) ==
  /\ m \in wire
  /\ Answer(m, "refused")
  /\ UNCHANGED <<session, lock, ghl, gcal, lost>>

OfficeBooks(s) ==
  /\ ghl[s] = Vacant
  /\ ghl' = [ghl EXCEPT ![s] = ByOffice]
  /\ UNCHANGED <<session, lock, wire, reply, gcal, lost>>

-----------------------------------------------------------------------------
\* The steps a call takes by itself once CONFIRM_SLOT has been emitted.
BookingStep(c) ==
  \/ OfferSpoken(c) \/ EagerContact(c) \/ NothingOffered(c) \/ MatchSlot(c)
  \/ AcquireLock(c) \/ SkipLocked(c)
  \/ GhlUnavailable(c) \/ SendPost(c) \/ ReadReply(c) \/ PostTimeout(c)
  \/ Mirror(c) \/ Release(c)
  \/ Refetch(c) \/ RefetchFails(c) \/ HandlerReturns(c)

CallerStep(c) ==
  \/ BookingStep(c)
  \/ ScheduleNow(c) \/ ConfirmSlot(c)
  \/ EndCall(c) \/ HangUp(c) \/ HangUpWhileLocking(c)

GhlStep == \E m \in wire : GhlBooks(m) \/ GhlRefuses(m)

Next ==
  \/ \E c \in Callers : CallerStep(c)
  \/ Crash
  \/ GhlStep
  \/ \E s \in Slots : LockExpires(s) \/ OfficeBooks(s)

Spec == Init /\ [][Next]_vars

\* The event loop runs every ready task, the HTTP client bounds every wait, GHL
\* works off what it received and Redis expires keys.  Nobody has to speak.
Fairness ==
  /\ \A c \in Callers : WF_vars(BookingStep(c))
  /\ \A s \in Slots : WF_vars(LockExpires(s))
  /\ WF_vars(GhlStep)

FairSpec == Spec /\ Fairness

-----------------------------------------------------------------------------
(***************************************************************************)
(* Properties                                                              *)
(***************************************************************************)

\* The slot lock does its job: no two calls are between the SET and the DELETE
\* of the same slot.  Holds as long as the lease outlives the booking; the
\* unconditional DELETE makes the lock worthless once it does not.
BookingMutex ==
  \A c, d \in Callers :
    pc[c] \in Holding /\ pc[d] \in Holding /\ cur[c] = cur[d] => c = d

\* A lock never outlives the interest of its owner, unless the owner died: the
\* finally block returns it on every path out of book_appointment.
LockOwnerIsBooking ==
  \A s \in Slots : lock[s] # NoOne =>
    \/ pc[lock[s]] \in Holding /\ cur[lock[s]] = s
    \/ pc[lock[s]] = "ended"

\* What a call records (and confirms to the caller by voice and SMS) is in GHL
\* under that caller's name, whatever was lost, cancelled or raced.
RecordedIsBooked ==
  \A c \in Callers : scheduled[c] # NoSlot => ghl[scheduled[c]].from = c

\* The appointment of slot s came of a POST whose answer never reached its call.
AnswerLost(s) == [from |-> ghl[s].from, slot |-> s, n |-> ghl[s].n] \in lost

\* Conversely, the appointment GHL made for a call's last confirmation is the one
\* the call has recorded, once the handler is through: no refused slot, taken lock
\* or second confirmation lets it record another or none.  Unrecorded are only
\* appointments whose answer was lost.
BookedIsRecorded ==
  \A c \in Callers, s \in Slots :
    /\ ghl[s] = [from |-> c, n |-> confirms[c]]
    /\ pc[c] \in {"idle", "offering"}
    => scheduled[c] = s \/ AnswerLost(s)

\* The handler goes through all the offered slots until one succeeds.  Of any two
\* appointments GHL has for one spoken confirmation, the answer to one never came:
\* refusals, locks of others, hang-ups and deaths do not make a second one.  A lost
\* answer does (RejectedIsNotBooked below), so the number is not bounded by one.
SecondAppointmentWasLost ==
  \A s, t \in Slots :
    ghl[s] = ghl[t] /\ ghl[s].from \in Callers /\ s # t => AnswerLost(s) \/ AnswerLost(t)

\* The attorneys' Google Calendar never shows a consultation GHL does not have.
MirrorHasAppointment ==
  \A m \in gcal : ghl[m.slot] = [from |-> m.from, n |-> m.n]

\* Leaving a slot with "GHL rejected booking for slot ... trying next" is true:
\* GHL has not booked it for this confirmation.
\* Expected of the code, and refuted by TLC: see section 5 of the README.
RejectedIsNotBooked ==
  \A c \in Callers, s \in Slots :
    pc[c] \in {"trying", "refetching"} => ghl[s] # [from |-> c, n |-> confirms[c]]

\* A caller who picked an offered slot is not left hanging when it cannot be had:
\* another one is booked, or what is free now is searched and spoken.  Silent are
\* only a search that raises (websocket_handler.py:830-831) and a call that is over;
\* without a contact or an offer the handler never gets here and returns silently.
OfferedSlotsAnswered ==
  \A c \in Callers :
    pc[c] = "trying" ~>
      \/ pc[c] = "releasing" /\ outcome[c]
      \/ pc[c] \in {"apologising", "failing", "ended"}

\* No slot stays locked for ever, even by a call that died holding it.
SlotLockFreed ==
  \A s \in Slots : lock[s] # NoOne ~> lock[s] = NoOne

\* Booking implements the appointment book: a slot is held by whoever GHL has
\* for it, and a caller is told what scheduled_at says.
Promise == INSTANCE AppointmentBook WITH
  book <- [s \in Slots |-> ghl[s].from],
  told <- scheduled

KeepsPromise == Promise!Spec

=============================================================================
