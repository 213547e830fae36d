--------------------------- MODULE BookingProofs -----------------------------
(***************************************************************************)
(* Theorems about BookingFlow, for any callers, slots and bound: the slot  *)
(* lock excludes, what a call records is what GHL booked, and the flow     *)
(* implements AppointmentBook.                                             *)
(***************************************************************************)
EXTENDS BookingFlow, WellFoundedInduction, TLAPS

-----------------------------------------------------------------------------
(* The next candidate exists: a non-empty set of start times has an earliest. *)

LEMMA EarliestIn ==
  ASSUME NEW S \in SUBSET Slots, S # {}
  PROVE  Earliest(S) \in S
<1>1. S \subseteq Nat
  BY SlotsAssumption
<1>2. \E s \in S : \A t \in S : ~ (<<t, s>> \in OpToRel(<, Nat))
  BY <1>1, WFMin, NatLessThanWellFounded
<1>3. PICK s \in S : \A t \in S : ~ (<<t, s>> \in OpToRel(<, Nat))
  BY <1>2
<1>4. \A t \in S : ~ (t < s)
  BY <1>1, <1>3 DEF OpToRel
<1>5. \A t \in S : s <= t
  BY <1>1, <1>4
<1>. QED
  BY <1>5 DEF Earliest

LEMMA NextCandidateType ==
  ASSUME TypeOK, NEW c \in Callers, NextCandidate(c)
  PROVE  /\ cur' \in [Callers -> Slots \cup {NoSlot}]
         /\ todo' \in [Callers -> SUBSET Slots]
         /\ pc' \in [Callers -> PCs]
         /\ pc'[c] = "trying" => cur'[c] \in Slots
         /\ pc'[c] \in {"trying", "refetching"}
         /\ \A d \in Callers : d # c => cur'[d] = cur[d] /\ pc'[d] = pc[d]
<1>1. CASE todo[c] = {}
  BY <1>1 DEF TypeOK, NextCandidate, Goto, PCs
<1>2. CASE todo[c] # {}
  <2>1. Earliest(todo[c]) \in Slots
    BY <1>2, EarliestIn DEF TypeOK
  <2>. QED
    BY <1>2, <2>1 DEF TypeOK, NextCandidate, Goto, PCs
<1>. QED
  BY <1>1, <1>2

-----------------------------------------------------------------------------
(* A slot under trial or booking is a slot. *)

CurIsSlot == \A c \in Callers : pc[c] \in Holding \cup {"trying"} => cur[c] \in Slots

Typed == TypeOK /\ CurIsSlot

LEMMA PostType ==
  ASSUME Typed, NEW c \in Callers, pc[c] \in Holding
  PROVE  CurrentPost(c) \in Posts
BY DEF Typed, TypeOK, CurIsSlot, Posts, CurrentPost

LEMMA InitTyped == Init => Typed
BY DEF Init, Typed, TypeOK, CurIsSlot, PCs, Holding, Vacant, Attempts

LEMMA CallerTyped ==
  ASSUME Typed, NEW c \in Callers, CallerStep(c)
  PROVE  Typed'
<1>. USE DEF Typed, CurIsSlot, session, external
<1>1. CASE ScheduleNow(c)
  BY <1>1 DEF ScheduleNow, TypeOK, Goto, PCs, Holding, FreeSlots
<1>2. CASE OfferSpoken(c)
  BY <1>2 DEF OfferSpoken, TypeOK, Goto, PCs, Holding
<1>3. CASE ConfirmSlot(c)
  BY <1>3 DEF ConfirmSlot, TypeOK, Goto, PCs, Holding
<1>4. CASE EagerContact(c)
  BY <1>4 DEF EagerContact, TypeOK, Goto, PCs, Holding
<1>5. CASE NothingOffered(c)
  BY <1>5 DEF NothingOffered, TypeOK, Goto, PCs, Holding
<1>6. CASE MatchSlot(c)
  BY <1>6 DEF MatchSlot, TypeOK, Goto, PCs, Holding
<1>7. CASE AcquireLock(c)
  BY <1>7 DEF AcquireLock, TypeOK, Goto, PCs, Holding
<1>8. CASE SkipLocked(c)
  <2>1. NextCandidate(c)
    BY <1>8 DEF SkipLocked
  <2>. QED
    BY <1>8, <2>1, NextCandidateType DEF SkipLocked, TypeOK, Holding
<1>9. CASE GhlUnavailable(c)
  BY <1>9 DEF GhlUnavailable, TypeOK, Goto, PCs, Holding
<1>10. CASE SendPost(c)
  <2>1. CurrentPost(c) \in Posts
    BY <1>10, PostType DEF SendPost, Holding
  <2>. QED
    BY <1>10, <2>1 DEF SendPost, TypeOK, Goto, PCs, Holding
<1>11. CASE ReadReply(c)
  BY <1>11 DEF ReadReply, TypeOK, Goto, PCs, Holding
<1>12. CASE PostTimeout(c)
  <2>1. CurrentPost(c) \in Posts
    BY <1>12, PostType DEF PostTimeout, Holding
  <2>. QED
    BY <1>12, <2>1 DEF PostTimeout, TypeOK, Goto, PCs, Holding
<1>13. CASE Mirror(c)
  <2>1. CurrentPost(c) \in Posts
    BY <1>13, PostType DEF Mirror, Holding
  <2>. QED
    BY <1>13, <2>1 DEF Mirror, TypeOK, Goto, PCs, Holding
<1>14. CASE Release(c)
  <2>1. cur[c] \in Slots
    BY <1>14 DEF Release, Holding
  <2>2. CASE outcome[c]
    BY <1>14, <2>1, <2>2 DEF Release, TypeOK, Goto, PCs, Holding
  <2>3. CASE ~outcome[c]
    <3>1. NextCandidate(c)
      BY <1>14, <2>3 DEF Release
    <3>. QED
      BY <1>14, <2>1, <2>3, <3>1, NextCandidateType DEF Release, TypeOK, Holding
  <2>. QED
    BY <2>2, <2>3
<1>15. CASE Refetch(c)
  BY <1>15 DEF Refetch, TypeOK, Goto, PCs, Holding, FreeSlots
<1>16. CASE RefetchFails(c)
  BY <1>16 DEF RefetchFails, TypeOK, Goto, PCs, Holding, FreeSlots
<1>17. CASE HandlerReturns(c)
  BY <1>17 DEF HandlerReturns, TypeOK, Goto, PCs, Holding
<1>18. CASE EndCall(c)
  BY <1>18 DEF EndCall, TypeOK, Goto, PCs, Holding
<1>19. CASE HangUp(c)
  <2>1. pc[c] = "mirroring" => CurrentPost(c) \in Posts
    BY PostType DEF Holding
  <2>. QED
    BY <1>19, <2>1 DEF HangUp, TypeOK, Goto, PCs, Holding
<1>20. CASE HangUpWhileLocking(c)
  BY <1>20 DEF HangUpWhileLocking, TypeOK, Goto, PCs, Holding
<1>. QED
  BY <1>1, <1>2, <1>3, <1>4, <1>5, <1>6, <1>7, <1>8, <1>9, <1>10, <1>11, <1>12,
     <1>13, <1>14, <1>15, <1>16, <1>17, <1>18, <1>19, <1>20 DEF CallerStep, BookingStep

LEMMA AnswerType ==
  ASSUME Typed, NEW m \in wire, NEW r \in {"booked", "refused"}, Answer(m, r)
  PROVE  /\ wire' \in SUBSET Posts
         /\ reply' \in [Callers -> {"none", "booked", "refused"}]
BY DEF Typed, TypeOK, Answer

LEMMA StepTyped == Typed /\ [Next]_vars => Typed'
<1>. SUFFICES ASSUME Typed, [Next]_vars PROVE Typed'
  OBVIOUS
<1>. USE DEF Typed, CurIsSlot, session, external
<1>1. CASE \E c \in Callers : CallerStep(c)
  BY <1>1, CallerTyped
<1>2. CASE Crash
  BY <1>2 DEF Crash, TypeOK, PCs, Holding
<1>3. ASSUME NEW m \in wire, GhlBooks(m) PROVE Typed'
  <2>1. m \in Posts
    BY DEF TypeOK
  <2>2. [from |-> m.from, n |-> m.n] \in Attempts
    BY <2>1 DEF Posts, Attempts
  <2>3. wire' \in SUBSET Posts /\ reply' \in [Callers -> {"none", "booked", "refused"}]
    BY <1>3, AnswerType DEF GhlBooks
  <2>. QED
    BY <1>3, <2>2, <2>3 DEF GhlBooks, TypeOK
<1>4. ASSUME NEW m \in wire, GhlRefuses(m) PROVE Typed'
  <2>1. wire' \in SUBSET Posts /\ reply' \in [Callers -> {"none", "booked", "refused"}]
    BY <1>4, AnswerType DEF GhlRefuses
  <2>. QED
    BY <1>4, <2>1 DEF GhlRefuses, TypeOK
<1>5. ASSUME NEW s \in Slots, LockExpires(s) PROVE Typed'
  BY <1>5 DEF LockExpires, TypeOK
<1>6. ASSUME NEW s \in Slots, OfficeBooks(s) PROVE Typed'
  BY <1>6 DEF OfficeBooks, TypeOK
<1>7. CASE UNCHANGED vars
  BY <1>7 DEF vars, TypeOK
<1>. QED
  BY <1>1, <1>2, <1>3, <1>4, <1>5, <1>6, <1>7 DEF Next, GhlStep

\* Every variable keeps its type, for any number of callers and slots.
THEOREM TypeCorrect == Spec => []TypeOK
<1>1. Spec => []Typed
  BY InitTyped, StepTyped, PTL DEF Spec
<1>. QED
  BY <1>1, PTL DEF Typed

-----------------------------------------------------------------------------
(***************************************************************************)
(* The slot lock.  While the lease outlives every booking, a call between  *)
(* SET and DELETE is the owner of the key, and a key has one owner.        *)
(***************************************************************************)

HolderHasLock == \A c \in Callers : pc[c] \in Holding => lock[cur[c]] = c

LEMMA InitHolder == Init => HolderHasLock
BY DEF Init, HolderHasLock, Holding

LEMMA CallerHolder ==
  ASSUME Typed, HolderHasLock, NEW c \in Callers, CallerStep(c)
  PROVE  HolderHasLock'
<1>. USE CallersAssumption DEF HolderHasLock
<1>1. CASE AcquireLock(c)
  BY <1>1 DEF AcquireLock, Typed, TypeOK, CurIsSlot, Goto, Holding
<1>2. CASE Release(c)
  <2>1. cur[c] \in Slots /\ lock[cur[c]] = c
    BY <1>2 DEF Release, Typed, CurIsSlot, Holding
  <2>2. /\ pc'[c] \notin Holding
        /\ \A d \in Callers : d # c => cur'[d] = cur[d] /\ pc'[d] = pc[d]
    <3>1. CASE outcome[c]
      BY <1>2, <3>1 DEF Release, Typed, TypeOK, Goto, Holding
    <3>2. CASE ~outcome[c]
      BY <1>2, <3>2, NextCandidateType DEF Release, Typed, Holding
    <3>. QED
      BY <3>1, <3>2
  <2>3. lock' = [lock EXCEPT ![cur[c]] = NoOne]
    BY <1>2 DEF Release
  <2>. QED
    BY <2>1, <2>2, <2>3 DEF Typed, TypeOK, CurIsSlot
<1>3. CASE SkipLocked(c)
  BY <1>3, NextCandidateType DEF SkipLocked, Typed, Holding
<1>4. CASE HangUp(c)
  BY <1>4 DEF HangUp, Typed, TypeOK, CurIsSlot, Goto, Holding
<1>5. CASE HangUpWhileLocking(c)
  BY <1>5 DEF HangUpWhileLocking, Typed, TypeOK, CurIsSlot, Goto, Holding
<1>6. CASE GhlUnavailable(c) \/ SendPost(c) \/ ReadReply(c) \/ PostTimeout(c) \/ Mirror(c)
  BY <1>6 DEF GhlUnavailable, SendPost, ReadReply, PostTimeout, Mirror,
              Typed, TypeOK, Goto, Holding
<1>7. CASE ScheduleNow(c) \/ OfferSpoken(c) \/ ConfirmSlot(c) \/ EagerContact(c)
            \/ NothingOffered(c) \/ MatchSlot(c) \/ Refetch(c)
            \/ RefetchFails(c) \/ HandlerReturns(c) \/ EndCall(c)
  BY <1>7 DEF ScheduleNow, OfferSpoken, ConfirmSlot, EagerContact, NothingOffered,
              MatchSlot, Refetch, RefetchFails, HandlerReturns, EndCall, Typed, TypeOK, Goto, Holding
<1>. QED
  BY <1>1, <1>2, <1>3, <1>4, <1>5, <1>6, <1>7 DEF CallerStep, BookingStep

LEMMA StepHolder ==
  LeaseOutlivesBooking /\ Typed /\ HolderHasLock /\ [Next]_vars => HolderHasLock'
<1>. SUFFICES ASSUME LeaseOutlivesBooking, Typed, HolderHasLock, [Next]_vars
              PROVE  HolderHasLock'
  OBVIOUS
<1>. USE DEF HolderHasLock, session
<1>1. CASE \E c \in Callers : CallerStep(c)
  BY <1>1, CallerHolder
<1>2. CASE Crash
  BY <1>2 DEF Crash, Typed, TypeOK, Holding
<1>3. CASE GhlStep
  BY <1>3 DEF GhlStep, GhlBooks, GhlRefuses
<1>4. ASSUME NEW s \in Slots, LockExpires(s) PROVE HolderHasLock'
  BY <1>4, CallersAssumption DEF LockExpires, Typed, TypeOK, CurIsSlot
<1>5. ASSUME NEW s \in Slots, OfficeBooks(s) PROVE HolderHasLock'
  BY <1>5 DEF OfficeBooks
<1>6. CASE UNCHANGED vars
  BY <1>6 DEF vars
<1>. QED
  BY <1>1, <1>2, <1>3, <1>4, <1>5, <1>6 DEF Next

\* No two calls are booking the same slot at once, if leases are long enough.
THEOREM LockExcludes ==
  ASSUME LeaseOutlivesBooking
  PROVE  Spec => []BookingMutex
<1>1. Init => Typed /\ HolderHasLock
  BY InitTyped, InitHolder
<1>2. (Typed /\ HolderHasLock) /\ [Next]_vars => (Typed /\ HolderHasLock)'
  BY StepTyped, StepHolder
<1>3. HolderHasLock => BookingMutex
  BY DEF HolderHasLock, BookingMutex
<1>. QED
  BY <1>1, <1>2, <1>3, PTL DEF Spec

-----------------------------------------------------------------------------
(***************************************************************************)
(* The lock is given back: whoever a lock names is booking that slot now,  *)
(* or its call has died.  No assumption on the lease.                      *)
(***************************************************************************)

LEMMA CallerOwner ==
  ASSUME Typed, LockOwnerIsBooking, NEW c \in Callers, CallerStep(c)
  PROVE  LockOwnerIsBooking'
<1>. USE CallersAssumption DEF LockOwnerIsBooking
<1>1. CASE AcquireLock(c)
  BY <1>1 DEF AcquireLock, Typed, TypeOK, CurIsSlot, Goto, Holding
<1>2. CASE Release(c)
  <2>1. cur[c] \in Slots
    BY <1>2 DEF Release, Typed, CurIsSlot, Holding
  <2>2. \A d \in Callers : d # c => cur'[d] = cur[d] /\ pc'[d] = pc[d]
    <3>1. CASE outcome[c]
      BY <1>2, <3>1 DEF Release, Typed, TypeOK, Goto, Holding
    <3>2. CASE ~outcome[c]
      BY <1>2, <3>2, NextCandidateType DEF Release, Typed, Holding
    <3>. QED
      BY <3>1, <3>2
  <2>3. lock' = [lock EXCEPT ![cur[c]] = NoOne] /\ pc[c] # "ended"
    BY <1>2 DEF Release
  <2>. QED
    BY <2>1, <2>2, <2>3 DEF Typed, TypeOK
<1>3. CASE SkipLocked(c)
  <2>1. pc[c] = "trying" /\ lock' = lock
    BY <1>3 DEF SkipLocked
  <2>2. \A d \in Callers : d # c => cur'[d] = cur[d] /\ pc'[d] = pc[d]
    BY <1>3, NextCandidateType DEF SkipLocked, Typed
  <2>. QED
    BY <2>1, <2>2 DEF Typed, TypeOK, Holding
<1>4. CASE HangUp(c)
  BY <1>4 DEF HangUp, Typed, TypeOK, CurIsSlot, Goto, Holding
<1>5. CASE HangUpWhileLocking(c)
  BY <1>5 DEF HangUpWhileLocking, Typed, TypeOK, CurIsSlot, Goto, Holding
<1>6. CASE GhlUnavailable(c) \/ SendPost(c) \/ ReadReply(c) \/ PostTimeout(c) \/ Mirror(c)
  BY <1>6 DEF GhlUnavailable, SendPost, ReadReply, PostTimeout, Mirror,
              Typed, TypeOK, Goto, Holding
<1>7. CASE ScheduleNow(c) \/ OfferSpoken(c) \/ ConfirmSlot(c) \/ EagerContact(c)
            \/ NothingOffered(c) \/ MatchSlot(c) \/ Refetch(c)
            \/ RefetchFails(c) \/ HandlerReturns(c) \/ EndCall(c)
  BY <1>7 DEF ScheduleNow, OfferSpoken, ConfirmSlot, EagerContact, NothingOffered,
              MatchSlot, Refetch, RefetchFails, HandlerReturns, EndCall, Typed, TypeOK, Goto, Holding
<1>. QED
  BY <1>1, <1>2, <1>3, <1>4, <1>5, <1>6, <1>7 DEF CallerStep, BookingStep

LEMMA StepOwner == Typed /\ LockOwnerIsBooking /\ [Next]_vars => LockOwnerIsBooking'
<1>. SUFFICES ASSUME Typed, LockOwnerIsBooking, [Next]_vars PROVE LockOwnerIsBooking'
  OBVIOUS
<1>. USE DEF LockOwnerIsBooking, session
<1>1. CASE \E c \in Callers : CallerStep(c)
  BY <1>1, CallerOwner
<1>2. CASE Crash
  BY <1>2, CallersAssumption DEF Crash, Typed, TypeOK
<1>3. CASE GhlStep
  BY <1>3 DEF GhlStep, GhlBooks, GhlRefuses
<1>4. ASSUME NEW s \in Slots, LockExpires(s) PROVE LockOwnerIsBooking'
  BY <1>4 DEF LockExpires, Typed, TypeOK
<1>5. ASSUME NEW s \in Slots, OfficeBooks(s) PROVE LockOwnerIsBooking'
  BY <1>5 DEF OfficeBooks
<1>6. CASE UNCHANGED vars
  BY <1>6 DEF vars
<1>. QED
  BY <1>1, <1>2, <1>3, <1>4, <1>5, <1>6 DEF Next

\* A slot lock never outlives the booking it protects, short of a dead call.
THEOREM LockIsReturned == Spec => []LockOwnerIsBooking
<1>1. Init => LockOwnerIsBooking
  BY DEF Init, LockOwnerIsBooking
<1>. QED
  BY <1>1, InitTyped, StepTyped, StepOwner, PTL DEF Spec

-----------------------------------------------------------------------------
(***************************************************************************)
(* What a call records is what GHL booked.  The inductive invariant follows*)
(* the appointment from GHL's answer to scheduled_at: from the answer on,  *)
(* GHL has the call's current POST, and book_appointment's result is a     *)
(* success only then.                                                      *)
(***************************************************************************)

Answered(c) ==
  \/ pc[c] = "posting" /\ reply[c] = "booked"
  \/ pc[c] = "mirroring"
  \/ pc[c] = "releasing" /\ outcome[c]

AnsweredIsBooked ==
  \A c \in Callers :
    /\ Answered(c) => ghl[cur[c]] = [from |-> c, n |-> confirms[c]]
    /\ pc[c] \in {"locked", "posting", "mirroring"} => ~outcome[c]

BookedInv == AnsweredIsBooked /\ RecordedIsBooked /\ MirrorHasAppointment

LEMMA InitBooked == Init => BookedInv
BY SlotsAssumption
   DEF Init, BookedInv, AnsweredIsBooked, Answered, RecordedIsBooked, MirrorHasAppointment

LEMMA CurrentPostFields ==
  ASSUME NEW c \in Callers
  PROVE  /\ CurrentPost(c).from = c
         /\ CurrentPost(c).slot = cur[c]
         /\ CurrentPost(c).n = confirms[c]
BY DEF CurrentPost

LEMMA AttemptIsNotVacant ==
  \A c \in Callers : \A n : [from |-> c, n |-> n] # Vacant
<1>1. ASSUME NEW c \in Callers, NEW n, [from |-> c, n |-> n] = Vacant PROVE FALSE
  <2>1. [from |-> c, n |-> n].from = Vacant.from
    BY <1>1
  <2>. QED
    BY <2>1, CallersAssumption DEF Vacant
<1>. QED
  BY <1>1

LEMMA CallerBooked ==
  ASSUME Typed, BookedInv, NEW c \in Callers, CallerStep(c)
  PROVE  BookedInv'
<1>. USE DEF BookedInv, AnsweredIsBooked, Answered
<1>1. CASE Release(c)
  <2>1. cur[c] \in Slots /\ pc[c] = "releasing" /\ ghl' = ghl /\ gcal' = gcal
    BY <1>1 DEF Release, Typed, CurIsSlot, Holding, external
  <2>2. CASE outcome[c]
    <3>1. ghl[cur[c]] = [from |-> c, n |-> confirms[c]]
      BY <2>1, <2>2
    <3>2. /\ scheduled' = [scheduled EXCEPT ![c] = cur[c]]
          /\ pc' = [pc EXCEPT ![c] = "idle"]
          /\ UNCHANGED <<cur, outcome, confirms, reply>>
      BY <1>1, <2>2 DEF Release, Goto, external
    <3>3. RecordedIsBooked'
      BY <2>1, <3>1, <3>2 DEF RecordedIsBooked, Typed, TypeOK
    <3>4. AnsweredIsBooked'
      BY <2>1, <3>2 DEF Typed, TypeOK
    <3>. QED
      BY <2>1, <3>3, <3>4 DEF MirrorHasAppointment
  <2>3. CASE ~outcome[c]
    <3>1. NextCandidate(c) /\ UNCHANGED <<scheduled, outcome, confirms, reply>>
      BY <1>1, <2>3 DEF Release, external
    <3>2. /\ pc'[c] \in {"trying", "refetching"}
          /\ \A d \in Callers : d # c => cur'[d] = cur[d] /\ pc'[d] = pc[d]
      BY <3>1, NextCandidateType DEF Typed
    <3>. QED
      BY <2>1, <3>1, <3>2 DEF RecordedIsBooked, MirrorHasAppointment
  <2>. QED
    BY <2>2, <2>3
<1>2. CASE SkipLocked(c)
  <2>1. /\ pc'[c] \in {"trying", "refetching"}
        /\ \A d \in Callers : d # c => cur'[d] = cur[d] /\ pc'[d] = pc[d]
    BY <1>2, NextCandidateType DEF SkipLocked, Typed
  <2>. QED
    BY <1>2, <2>1 DEF SkipLocked, external, RecordedIsBooked, MirrorHasAppointment
<1>3. CASE Mirror(c)
  <2>1. ghl[cur[c]] = [from |-> c, n |-> confirms[c]]
    BY <1>3 DEF Mirror
  <2>2. MirrorHasAppointment'
    <3>1. \A m \in gcal' : m \in gcal \/ m = CurrentPost(c)
      BY <1>3 DEF Mirror
    <3>2. ghl' = ghl
      BY <1>3 DEF Mirror
    <3>3. ASSUME NEW m \in gcal' PROVE ghl[m.slot] = [from |-> m.from, n |-> m.n]
      <4>1. CASE m \in gcal
        BY <4>1 DEF MirrorHasAppointment
      <4>2. CASE m = CurrentPost(c)
        BY <2>1, <4>2, CurrentPostFields, Zenon
      <4>. QED
        BY <3>1, <4>1, <4>2
    <3>. QED
      BY <3>2, <3>3, Zenon DEF MirrorHasAppointment
  <2>3. AnsweredIsBooked' /\ RecordedIsBooked'
    BY <1>3, <2>1 DEF Mirror, Goto, RecordedIsBooked, Typed, TypeOK
  <2>. QED
    BY <2>2, <2>3
<1>4. CASE HangUp(c)
  <2>1. MirrorHasAppointment'
    <3>1. \A m \in gcal' : m \in gcal \/ (pc[c] = "mirroring" /\ m = CurrentPost(c))
      BY <1>4 DEF HangUp
    <3>2. ghl' = ghl
      BY <1>4 DEF HangUp
    <3>3. pc[c] = "mirroring" => ghl[cur[c]] = [from |-> c, n |-> confirms[c]]
      OBVIOUS
    <3>4. ASSUME NEW m \in gcal' PROVE ghl[m.slot] = [from |-> m.from, n |-> m.n]
      <4>1. CASE m \in gcal
        BY <4>1 DEF MirrorHasAppointment
      <4>2. CASE pc[c] = "mirroring" /\ m = CurrentPost(c)
        BY <3>3, <4>2, CurrentPostFields, Zenon
      <4>. QED
        BY <3>1, <4>1, <4>2
    <3>. QED
      BY <3>2, <3>4, Zenon DEF MirrorHasAppointment
  <2>2. AnsweredIsBooked' /\ RecordedIsBooked'
    BY <1>4 DEF HangUp, Goto, RecordedIsBooked, Typed, TypeOK
  <2>. QED
    BY <2>1, <2>2
<1>5. CASE SendPost(c)
  BY <1>5 DEF SendPost, Goto, Typed, TypeOK, RecordedIsBooked, MirrorHasAppointment
<1>6. CASE ReadReply(c)
  BY <1>6 DEF ReadReply, Goto, Typed, TypeOK, external, RecordedIsBooked, MirrorHasAppointment
<1>7. CASE AcquireLock(c)
  BY <1>7 DEF AcquireLock, Goto, Typed, TypeOK, external, RecordedIsBooked, MirrorHasAppointment
<1>8. CASE GhlUnavailable(c) \/ PostTimeout(c) \/ HangUpWhileLocking(c)
  BY <1>8 DEF GhlUnavailable, PostTimeout, HangUpWhileLocking, Goto, Typed, TypeOK,
              external, RecordedIsBooked, MirrorHasAppointment
<1>9. CASE ConfirmSlot(c)
  BY <1>9 DEF ConfirmSlot, Goto, Typed, TypeOK, external, RecordedIsBooked, MirrorHasAppointment
<1>10. CASE MatchSlot(c)
  BY <1>10 DEF MatchSlot, Goto, Typed, TypeOK, external, RecordedIsBooked, MirrorHasAppointment
<1>11. CASE ScheduleNow(c) \/ OfferSpoken(c) \/ EagerContact(c) \/ NothingOffered(c)
             \/ Refetch(c) \/ RefetchFails(c) \/ HandlerReturns(c) \/ EndCall(c)
  BY <1>11 DEF ScheduleNow, OfferSpoken, EagerContact, NothingOffered, Refetch,
               RefetchFails, HandlerReturns, EndCall,
               Goto, Typed, TypeOK, external, RecordedIsBooked, MirrorHasAppointment
<1>. QED
  BY <1>1, <1>2, <1>3, <1>4, <1>5, <1>6, <1>7, <1>8, <1>9, <1>10, <1>11
     DEF CallerStep, BookingStep

\* Appointments are never withdrawn, so neither is what mirrors them.
LEMMA MirroredStay ==
  ASSUME Typed, MirrorHasAppointment, gcal' = gcal,
         \A s \in Slots : ghl[s] # Vacant => ghl'[s] = ghl[s]
  PROVE  MirrorHasAppointment'
<1>1. SUFFICES ASSUME NEW m \in gcal
               PROVE  ghl'[m.slot] = [from |-> m.from, n |-> m.n]
  BY DEF MirrorHasAppointment
<1>2. m.slot \in Slots /\ m.from \in Callers
  BY DEF Typed, TypeOK, Posts
<1>3. ghl[m.slot] = [from |-> m.from, n |-> m.n]
  BY DEF MirrorHasAppointment
<1>. QED
  BY <1>2, <1>3, AttemptIsNotVacant

LEMMA StepBooked == Typed /\ BookedInv /\ [Next]_vars => BookedInv'
<1>. SUFFICES ASSUME Typed, BookedInv, [Next]_vars PROVE BookedInv'
  OBVIOUS
<1>. USE DEF BookedInv, AnsweredIsBooked, Answered, session
<1>1. CASE \E c \in Callers : CallerStep(c)
  BY <1>1, CallerBooked
<1>2. CASE Crash
  BY <1>2 DEF Crash, external, RecordedIsBooked, MirrorHasAppointment, Typed, TypeOK
<1>3. ASSUME NEW m \in wire, GhlBooks(m) PROVE BookedInv'
  <2>1. m \in Posts
    BY DEF Typed, TypeOK
  <2>2. \A s \in Slots : ghl[s] # Vacant => ghl'[s] = ghl[s]
    BY <1>3, <2>1 DEF GhlBooks, Typed, TypeOK, Posts
  <2>3. ghl'[m.slot] = [from |-> m.from, n |-> m.n]
    BY <1>3, <2>1 DEF GhlBooks, Typed, TypeOK, Posts
  <2>4. AnsweredIsBooked'
    <3>1. ASSUME NEW c \in Callers, Answered(c)', ~Answered(c)
          PROVE  ghl'[cur'[c]] = [from |-> c, n |-> confirms'[c]]
      <4>1. Awaited(m) /\ m.from = c
        BY <1>3, <3>1, <2>1 DEF GhlBooks, Answer, Typed, TypeOK, Posts
      <4>. QED
        BY <1>3, <2>3, <4>1 DEF GhlBooks, Awaited, CurrentPost
    <3>2. ASSUME NEW c \in Callers, Answered(c)
          PROVE  ghl'[cur'[c]] = [from |-> c, n |-> confirms'[c]]
      <4>1. cur[c] \in Slots
        BY <3>2 DEF Typed, CurIsSlot, Holding
      <4>2. ghl[cur[c]] = [from |-> c, n |-> confirms[c]]
        BY <3>2
      <4>3. ghl[cur[c]] # Vacant
        BY <4>2, AttemptIsNotVacant, Zenon
      <4>. QED
        BY <1>3, <2>2, <4>1, <4>2, <4>3 DEF GhlBooks
    <3>. QED
      BY <1>3, <3>1, <3>2 DEF GhlBooks
  <2>5. RecordedIsBooked'
    BY <1>3, <2>2, CallersAssumption DEF GhlBooks, RecordedIsBooked, Typed, TypeOK, Vacant
  <2>6. MirrorHasAppointment'
    BY <1>3, <2>2, MirroredStay DEF GhlBooks
  <2>. QED
    BY <2>4, <2>5, <2>6
<1>4. ASSUME NEW m \in wire, GhlRefuses(m) PROVE BookedInv'
  <2>1. \A c \in Callers : reply'[c] = "booked" => reply[c] = "booked"
    BY <1>4 DEF GhlRefuses, Answer, Typed, TypeOK
  <2>. QED
    BY <1>4, <2>1 DEF GhlRefuses, RecordedIsBooked, MirrorHasAppointment
<1>5. ASSUME NEW s \in Slots, LockExpires(s) PROVE BookedInv'
  BY <1>5 DEF LockExpires, external, RecordedIsBooked, MirrorHasAppointment
<1>6. ASSUME NEW s \in Slots, OfficeBooks(s) PROVE BookedInv'
  <2>1. \A t \in Slots : ghl[t] # Vacant => ghl'[t] = ghl[t]
    BY <1>6 DEF OfficeBooks, Typed, TypeOK
  <2>2. AnsweredIsBooked'
    BY <1>6, <2>1, CallersAssumption DEF OfficeBooks, Typed, CurIsSlot, Holding, Vacant
  <2>3. RecordedIsBooked'
    BY <1>6, <2>1, CallersAssumption DEF OfficeBooks, RecordedIsBooked, Typed, TypeOK, Vacant
  <2>4. MirrorHasAppointment'
    BY <1>6, <2>1, MirroredStay DEF OfficeBooks
  <2>. QED
    BY <2>2, <2>3, <2>4
<1>7. CASE UNCHANGED vars
  BY <1>7 DEF vars, external, RecordedIsBooked, MirrorHasAppointment
<1>. QED
  BY <1>1, <1>2, <1>3, <1>4, <1>5, <1>6, <1>7 DEF Next, GhlStep

\* scheduled_at, once set, is an appointment GHL has for this caller.
THEOREM RecordedAreBooked == Spec => []RecordedIsBooked
<1>1. Spec => [](Typed /\ BookedInv)
  BY InitTyped, InitBooked, StepTyped, StepBooked, PTL DEF Spec
<1>. QED
  BY <1>1, PTL DEF BookedInv

\* Google Calendar shows only consultations that GHL has.
THEOREM MirrorsAreBooked == Spec => []MirrorHasAppointment
<1>1. Spec => [](Typed /\ BookedInv)
  BY InitTyped, InitBooked, StepTyped, StepBooked, PTL DEF Spec
<1>. QED
  BY <1>1, PTL DEF BookedInv

-----------------------------------------------------------------------------
(***************************************************************************)
(* One appointment per confirmation, but for lost answers, and it is       *)
(* recorded.  A POST on its way is the current one of its call and         *)
(* unanswered, or its call has given up on it; so at most one POST of a    *)
(* confirmation is accepted and heard of, and the appointments a call does *)
(* not know of are those whose answer was lost.                            *)
(***************************************************************************)

Attempt(c) == [from |-> c, n |-> confirms[c]]

\* The call may yet be given a slot for its current confirmation.
Open(c) ==
  \/ pc[c] \in {"confirming", "trying", "locked", "refetching", "apologising", "failing"}
  \/ pc[c] = "posting" /\ reply[c] # "booked"
  \/ pc[c] = "releasing" /\ ~outcome[c]

\* If slot s is booked for the call's current confirmation, the call does not know.
Stray(c, s) == Open(c) \/ (Answered(c) /\ s # cur[c])

PostsAreCurrent ==
  \A m \in wire : m \notin lost =>
    /\ m = CurrentPost(m.from)
    /\ pc[m.from] \in {"posting", "ended"}
    /\ reply[m.from] = "none"

\* What GHL has of an attempt that is on its way, or still to be sent, was lost.
PostsAreNew ==
  \A m \in wire, s \in Slots :
    m \notin lost /\ ghl[s] = [from |-> m.from, n |-> m.n] => AnswerLost(s)
StraysAreLost ==
  \A c \in Callers, s \in Slots : Stray(c, s) /\ ghl[s] = Attempt(c) => AnswerLost(s)

NoLaterAttempt ==
  /\ \A s \in Slots : ghl[s].from \in Callers => ghl[s].n <= confirms[ghl[s].from]
  /\ \A m \in wire : m.n <= confirms[m.from]

OnceInv ==
  /\ PostsAreCurrent /\ PostsAreNew /\ StraysAreLost /\ NoLaterAttempt
  /\ SecondAppointmentWasLost /\ BookedIsRecorded

LEMMA InitOnce == Init => OnceInv
<1>. SUFFICES ASSUME Init PROVE OnceInv
  OBVIOUS
<1>1. \A s \in Slots : ghl[s].from \notin Callers
  BY CallersAssumption DEF Init, Vacant
<1>2. wire = {}
  BY DEF Init
<1>3. \A c \in Callers, s \in Slots : ghl[s] # Attempt(c)
  BY <1>1 DEF Attempt
<1>. QED
  BY <1>1, <1>2, <1>3 DEF OnceInv, PostsAreCurrent, PostsAreNew, StraysAreLost, NoLaterAttempt,
       SecondAppointmentWasLost, BookedIsRecorded, Attempt

\* A step of one call that GHL does not see, and that does not open a new attempt.
LEMMA QuietKeeps ==
  ASSUME Typed, OnceInv, NEW c \in Callers,
         UNCHANGED <<wire, ghl, reply, confirms, lost>>,
         \A d \in Callers \ {c} : /\ pc'[d] = pc[d] /\ cur'[d] = cur[d]
                                  /\ outcome'[d] = outcome[d] /\ scheduled'[d] = scheduled[d],
         \/ pc[c] \notin {"posting", "ended"}
         \/ reply[c] # "none"
         \/ pc'[c] = "ended" /\ cur'[c] = cur[c],
         Open(c)' => Open(c),
         Answered(c)' => Answered(c) /\ cur'[c] = cur[c],
         pc'[c] \in {"idle", "offering"} =>
           \A s \in Slots : ghl[s] = Attempt(c) => scheduled'[c] = s \/ AnswerLost(s)
  PROVE  OnceInv'
<1>1. \A m \in wire : m \in Posts
  BY DEF Typed, TypeOK
<1>2. PostsAreCurrent'
  <2>1. SUFFICES ASSUME NEW m \in wire, m \notin lost
                 PROVE  /\ m = CurrentPost(m.from)' /\ pc'[m.from] \in {"posting", "ended"}
                        /\ reply[m.from] = "none"
    BY DEF PostsAreCurrent
  <2>2. /\ m.from \in Callers /\ m = CurrentPost(m.from) /\ reply[m.from] = "none"
        /\ pc[m.from] \in {"posting", "ended"}
    BY <1>1, <2>1 DEF OnceInv, PostsAreCurrent, Posts
  <2>3. pc'[m.from] \in {"posting", "ended"} /\ cur'[m.from] = cur[m.from]
    BY <2>2
  <2>. QED
    BY <2>2, <2>3 DEF CurrentPost
<1>3. \A d \in Callers : \A s : Stray(d, s)' => Stray(d, s)
  <2>1. ASSUME NEW d \in Callers, NEW s, Stray(d, s)' PROVE Stray(d, s)
    <3>1. CASE d = c
      BY <2>1, <3>1 DEF Stray
    <3>2. CASE d # c
      BY <2>1, <3>2 DEF Stray, Open, Answered
    <3>. QED
      BY <3>1, <3>2
  <2>. QED
    BY <2>1
<1>4. /\ \A d \in Callers : Attempt(d)' = Attempt(d)
      /\ \A s \in Slots : AnswerLost(s)' = AnswerLost(s)
  BY DEF Attempt, AnswerLost
<1>5. PostsAreNew' /\ NoLaterAttempt' /\ SecondAppointmentWasLost'
  BY <1>4 DEF OnceInv, PostsAreNew, NoLaterAttempt, SecondAppointmentWasLost
<1>6. StraysAreLost'
  BY <1>3, <1>4 DEF OnceInv, StraysAreLost
<1>7. BookedIsRecorded'
  BY <1>4 DEF OnceInv, BookedIsRecorded, Attempt
<1>. QED
  BY <1>2, <1>5, <1>6, <1>7 DEF OnceInv

\* A new confirmation is a new attempt: GHL has not heard of it.
LEMMA ConfirmKeeps ==
  ASSUME Typed, OnceInv, NEW c \in Callers, ConfirmSlot(c)
  PROVE  OnceInv'
<1>1. /\ pc[c] = "idle" /\ pc' = [pc EXCEPT ![c] = "confirming"]
      /\ confirms' = [confirms EXCEPT ![c] = @ + 1]
      /\ UNCHANGED <<cur, outcome, scheduled, wire, ghl, reply, lost>>
  BY DEF ConfirmSlot, Goto, external
<1>2. \A d \in Callers : confirms[d] \in Nat
  BY DEF Typed, TypeOK
<1>3. /\ pc'[c] = "confirming" /\ confirms'[c] = confirms[c] + 1
      /\ \A d \in Callers \ {c} : pc'[d] = pc[d] /\ confirms'[d] = confirms[d]
  BY <1>1 DEF Typed, TypeOK
<1>4. \A m \in wire : m \in Posts /\ (m \notin lost => m.from \in Callers \ {c})
  BY <1>1 DEF OnceInv, PostsAreCurrent, Typed, TypeOK, Posts
<1>5. PostsAreCurrent'
  BY <1>1, <1>3, <1>4 DEF OnceInv, PostsAreCurrent, CurrentPost
<1>6. \A s \in Slots : AnswerLost(s)' = AnswerLost(s)
  BY <1>1 DEF AnswerLost
<1>7. PostsAreNew' /\ SecondAppointmentWasLost'
  BY <1>1, <1>6 DEF OnceInv, PostsAreNew, SecondAppointmentWasLost
<1>8. \A d \in Callers : \A n \in Nat : n <= confirms[d] => n <= confirms'[d]
  BY <1>2, <1>3
<1>9. NoLaterAttempt'
  <2>1. ASSUME NEW s \in Slots, ghl[s].from \in Callers
        PROVE  ghl[s].n <= confirms'[ghl[s].from]
    <3>1. ghl[s].n <= confirms[ghl[s].from] /\ ghl[s].n \in Nat
      BY <2>1, CallersAssumption
         DEF OnceInv, NoLaterAttempt, Typed, TypeOK, Attempts, Vacant, ByOffice
    <3>. QED
      BY <1>8, <2>1, <3>1
  <2>2. ASSUME NEW m \in wire PROVE m.n <= confirms'[m.from]
    BY <1>4, <1>8 DEF OnceInv, NoLaterAttempt, Posts
  <2>. QED
    BY <1>1, <2>1, <2>2 DEF NoLaterAttempt
<1>10. \A s \in Slots : ghl[s] # [from |-> c, n |-> confirms[c] + 1]
  <2>1. SUFFICES ASSUME NEW s \in Slots, ghl[s] = [from |-> c, n |-> confirms[c] + 1]
                 PROVE  FALSE
    OBVIOUS
  <2>2. ghl[s].from = c /\ ghl[s].n = confirms[c] + 1
    BY <2>1
  <2>3. ghl[s].n <= confirms[c]
    BY <2>2 DEF OnceInv, NoLaterAttempt
  <2>. QED
    BY <1>2, <2>2, <2>3
<1>11. StraysAreLost'
  <2>1. ASSUME NEW d \in Callers, NEW s \in Slots, Stray(d, s)', ghl[s] = Attempt(d)'
        PROVE  AnswerLost(s)
    <3>1. d # c
      BY <1>3, <1>10, <2>1 DEF Attempt
    <3>2. Stray(d, s) /\ Attempt(d)' = Attempt(d)
      BY <1>1, <1>3, <2>1, <3>1 DEF Stray, Open, Answered, Attempt
    <3>. QED
      BY <2>1, <3>2 DEF OnceInv, StraysAreLost
  <2>. QED
    BY <1>1, <1>6, <2>1 DEF StraysAreLost
<1>12. BookedIsRecorded'
  BY <1>1, <1>3, <1>6 DEF OnceInv, BookedIsRecorded
<1>. QED
  BY <1>5, <1>7, <1>9, <1>11, <1>12 DEF OnceInv

\* The POST of an open attempt is the only one of its call that is still waited for.
LEMMA SendKeeps ==
  ASSUME Typed, OnceInv, NEW c \in Callers, SendPost(c)
  PROVE  OnceInv'
<1>1. /\ pc[c] = "locked" /\ pc' = [pc EXCEPT ![c] = "posting"]
      /\ wire' = wire \cup {CurrentPost(c)} /\ reply' = [reply EXCEPT ![c] = "none"]
      /\ UNCHANGED <<cur, outcome, scheduled, confirms, ghl, lost>>
  BY DEF SendPost, Goto
<1>2. /\ pc'[c] = "posting" /\ reply'[c] = "none"
      /\ \A d \in Callers \ {c} : pc'[d] = pc[d] /\ reply'[d] = reply[d]
  BY <1>1 DEF Typed, TypeOK
<1>3. \A m \in wire : m \notin lost => m.from \in Callers \ {c}
  BY <1>1 DEF OnceInv, PostsAreCurrent, Typed, TypeOK, Posts
<1>4. /\ \A d \in Callers : Attempt(d)' = Attempt(d) /\ CurrentPost(d)' = CurrentPost(d)
      /\ \A s \in Slots : AnswerLost(s)' = AnswerLost(s)
  BY <1>1 DEF Attempt, CurrentPost, AnswerLost
<1>5. PostsAreCurrent'
  <2>1. SUFFICES ASSUME NEW m \in wire', m \notin lost
                 PROVE  /\ m = CurrentPost(m.from)' /\ pc'[m.from] \in {"posting", "ended"}
                        /\ reply'[m.from] = "none"
    BY <1>1 DEF PostsAreCurrent
  <2>2. CASE m \in wire
    BY <1>2, <1>3, <1>4, <2>1, <2>2 DEF OnceInv, PostsAreCurrent
  <2>3. CASE m = CurrentPost(c)
    <3>1. m.from = c
      BY <2>3, CurrentPostFields
    <3>. QED
      BY <1>2, <1>4, <2>3, <3>1
  <2>. QED
    BY <1>1, <2>2, <2>3
<1>6. PostsAreNew'
  <2>1. \A s \in Slots : ghl[s] = [from |-> CurrentPost(c).from, n |-> CurrentPost(c).n]
                           => AnswerLost(s)
    BY <1>1, CurrentPostFields DEF OnceInv, StraysAreLost, Stray, Open, Attempt
  <2>. QED
    BY <1>1, <1>4, <2>1 DEF OnceInv, PostsAreNew
<1>7. StraysAreLost'
  <2>1. \A d \in Callers : \A s : Stray(d, s)' => Stray(d, s)
    BY <1>1, <1>2 DEF Stray, Open, Answered
  <2>. QED
    BY <1>1, <1>4, <2>1 DEF OnceInv, StraysAreLost
<1>8. NoLaterAttempt'
  <2>1. CurrentPost(c).n <= confirms[CurrentPost(c).from]
    BY CurrentPostFields DEF Typed, TypeOK
  <2>. QED
    BY <1>1, <2>1 DEF OnceInv, NoLaterAttempt
<1>9. SecondAppointmentWasLost'
  BY <1>1, <1>4 DEF OnceInv, SecondAppointmentWasLost
<1>10. BookedIsRecorded'
  BY <1>1, <1>2, <1>4 DEF OnceInv, BookedIsRecorded
<1>. QED
  BY <1>5, <1>6, <1>7, <1>8, <1>9, <1>10 DEF OnceInv

\* The call gives up on its POST: from here on what GHL makes of it is lost.
LEMMA TimeoutKeeps ==
  ASSUME Typed, BookedInv, OnceInv, NEW c \in Callers, PostTimeout(c)
  PROVE  OnceInv'
<1>1. /\ pc[c] = "posting" /\ pc' = [pc EXCEPT ![c] = "releasing"]
      /\ lost' = lost \cup {CurrentPost(c)}
      /\ UNCHANGED <<cur, outcome, scheduled, confirms, wire, ghl, reply>>
  BY DEF PostTimeout, Goto
<1>2. pc'[c] = "releasing" /\ \A d \in Callers \ {c} : pc'[d] = pc[d]
  BY <1>1 DEF Typed, TypeOK
<1>3. \A s \in Slots : AnswerLost(s) => AnswerLost(s)'
  BY <1>1 DEF AnswerLost
<1>4. \A d \in Callers : Attempt(d)' = Attempt(d) /\ CurrentPost(d)' = CurrentPost(d)
  BY <1>1 DEF Attempt, CurrentPost
<1>5. PostsAreCurrent'
  <2>1. SUFFICES ASSUME NEW m \in wire, m \notin lost'
                 PROVE  /\ m = CurrentPost(m.from)' /\ pc'[m.from] \in {"posting", "ended"}
                        /\ reply[m.from] = "none"
    BY <1>1 DEF PostsAreCurrent
  <2>2. /\ m.from \in Callers /\ m = CurrentPost(m.from) /\ reply[m.from] = "none"
        /\ pc[m.from] \in {"posting", "ended"}
    BY <1>1, <2>1 DEF OnceInv, PostsAreCurrent, Typed, TypeOK, Posts
  <2>3. m.from # c
    BY <1>1, <2>1, <2>2
  <2>. QED
    BY <1>2, <1>4, <2>2, <2>3
<1>6. PostsAreNew'
  BY <1>1, <1>3 DEF OnceInv, PostsAreNew
<1>7. StraysAreLost'
  <2>1. SUFFICES ASSUME NEW d \in Callers, NEW s \in Slots, Stray(d, s)', ghl[s] = Attempt(d)
                 PROVE  AnswerLost(s)'
    BY <1>1, <1>4 DEF StraysAreLost
  <2>2. CASE d = c /\ s = cur[c]
    <3>1. [from |-> ghl[s].from, slot |-> s, n |-> ghl[s].n] = CurrentPost(c)
      BY <2>1, <2>2 DEF Attempt, CurrentPost
    <3>. QED
      BY <1>1, <3>1 DEF AnswerLost
  <2>3. CASE d = c /\ s # cur[c]
    <3>1. Stray(c, s)
      BY <1>1, <2>3 DEF Stray, Open, Answered, Typed, TypeOK
    <3>. QED
      BY <1>3, <2>1, <2>3, <3>1 DEF OnceInv, StraysAreLost
  <2>4. CASE d # c
    <3>1. Stray(d, s)
      BY <1>1, <1>2, <2>1, <2>4 DEF Stray, Open, Answered
    <3>. QED
      BY <1>3, <2>1, <3>1 DEF OnceInv, StraysAreLost
  <2>. QED
    BY <2>2, <2>3, <2>4
<1>8. NoLaterAttempt'
  BY <1>1 DEF OnceInv, NoLaterAttempt
<1>9. SecondAppointmentWasLost'
  BY <1>1, <1>3 DEF OnceInv, SecondAppointmentWasLost
<1>10. BookedIsRecorded'
  BY <1>1, <1>2, <1>3 DEF OnceInv, BookedIsRecorded
<1>. QED
  BY <1>5, <1>6, <1>7, <1>8, <1>9, <1>10 DEF OnceInv

LEMMA CallerOnce ==
  ASSUME Typed, BookedInv, OnceInv, NEW c \in Callers, CallerStep(c)
  PROVE  OnceInv'
<1>. USE DEF Open, external
<1>0. /\ \A s \in Slots : Open(c) /\ ghl[s] = Attempt(c) => AnswerLost(s)
      /\ pc[c] \in {"idle", "offering"} =>
           \A s \in Slots : ghl[s] = Attempt(c) => scheduled[c] = s \/ AnswerLost(s)
      /\ pc[c] \in {"locked", "posting", "mirroring"} => ~outcome[c]
  BY DEF OnceInv, StraysAreLost, Stray, BookedIsRecorded, Attempt, BookedInv, AnsweredIsBooked
<1>1. CASE ConfirmSlot(c)
  BY <1>1, ConfirmKeeps
<1>2. CASE SendPost(c)
  BY <1>2, SendKeeps
<1>3. CASE Release(c) /\ outcome[c]
  <2>1. /\ pc[c] = "releasing" /\ scheduled' = [scheduled EXCEPT ![c] = cur[c]]
        /\ pc' = [pc EXCEPT ![c] = "idle"]
        /\ UNCHANGED <<cur, outcome, confirms, wire, reply, ghl, lost>>
    BY <1>3 DEF Release, Goto
  <2>2. \A s \in Slots : ghl[s] = Attempt(c) => scheduled'[c] = s \/ AnswerLost(s)
    <3>1. SUFFICES ASSUME NEW s \in Slots, ghl[s] = Attempt(c) PROVE cur[c] = s \/ AnswerLost(s)
      BY <2>1 DEF Typed, TypeOK
    <3>2. Answered(c)
      BY <1>3, <2>1 DEF Answered
    <3>. QED
      BY <3>1, <3>2 DEF OnceInv, StraysAreLost, Stray
  <2>3. pc'[c] = "idle" /\ \A d \in Callers \ {c} : pc'[d] = pc[d] /\ scheduled'[d] = scheduled[d]
    BY <2>1 DEF Typed, TypeOK
  <2>4. ~Open(c)' /\ ~Answered(c)'
    BY <2>3 DEF Answered
  <2>. QED
    BY <2>1, <2>2, <2>3, <2>4, QuietKeeps
<1>4. CASE SkipLocked(c) \/ (Release(c) /\ ~outcome[c])
  <2>1. NextCandidate(c) /\ UNCHANGED <<scheduled, outcome, confirms, wire, reply, ghl, lost>>
    BY <1>4 DEF SkipLocked, Release
  <2>2. /\ pc'[c] \in {"trying", "refetching"}
        /\ \A d \in Callers : d # c => cur'[d] = cur[d] /\ pc'[d] = pc[d]
    BY <2>1, NextCandidateType DEF Typed
  <2>3. Open(c) /\ pc[c] \notin {"posting", "ended"}
    BY <1>4 DEF SkipLocked, Release
  <2>4. ~Answered(c)'
    BY <2>2 DEF Answered
  <2>. QED
    BY <2>1, <2>2, <2>3, <2>4, QuietKeeps
<1>5. CASE AcquireLock(c)
  BY <1>0, <1>5, QuietKeeps DEF AcquireLock, Goto, Typed, TypeOK, Answered
<1>6. CASE GhlUnavailable(c)
  BY <1>0, <1>6, QuietKeeps DEF GhlUnavailable, Goto, Typed, TypeOK, Answered
<1>7. CASE ReadReply(c)
  BY <1>0, <1>7, QuietKeeps DEF ReadReply, Goto, Typed, TypeOK, Answered
<1>8. CASE PostTimeout(c)
  BY <1>8, TimeoutKeeps
<1>9. CASE Mirror(c)
  BY <1>0, <1>9, QuietKeeps DEF Mirror, Goto, Typed, TypeOK, Answered
<1>10. CASE HangUp(c)
  BY <1>0, <1>10, QuietKeeps DEF HangUp, Goto, Typed, TypeOK, Answered
<1>11. CASE HangUpWhileLocking(c)
  BY <1>0, <1>11, QuietKeeps DEF HangUpWhileLocking, Goto, Typed, TypeOK, Answered
<1>12. CASE ScheduleNow(c) \/ OfferSpoken(c)
  BY <1>0, <1>12, QuietKeeps DEF ScheduleNow, OfferSpoken, Goto, Typed, TypeOK, Answered
<1>13. CASE EagerContact(c) \/ NothingOffered(c)
  BY <1>0, <1>13, QuietKeeps DEF EagerContact, NothingOffered, Goto, Typed, TypeOK, Answered
<1>14. CASE MatchSlot(c)
  BY <1>0, <1>14, QuietKeeps DEF MatchSlot, Goto, Typed, TypeOK, Answered
<1>15. CASE Refetch(c) \/ RefetchFails(c)
  BY <1>0, <1>15, QuietKeeps DEF Refetch, RefetchFails, Goto, Typed, TypeOK, Answered
<1>16. CASE HandlerReturns(c) \/ EndCall(c)
  BY <1>0, <1>16, QuietKeeps DEF HandlerReturns, EndCall, Goto, Typed, TypeOK, Answered
<1>. QED
  BY <1>1, <1>2, <1>3, <1>4, <1>5, <1>6, <1>7, <1>8, <1>9, <1>10, <1>11, <1>12, <1>13,
     <1>14, <1>15, <1>16 DEF CallerStep, BookingStep

\* GHL accepts a POST.  Its call still waits for it or has ended, and then it is the
\* first of its attempt that was not lost; or its call has given up on it.
LEMMA AcceptKeeps ==
  ASSUME Typed, OnceInv, NEW m \in wire, GhlBooks(m)
  PROVE  OnceInv'
<1> DEFINE c == m.from
           b == [from |-> m.from, n |-> m.n]
<1>1. m \in Posts /\ c \in Callers /\ m.slot \in Slots /\ m.n \in Nat
  BY DEF Typed, TypeOK, Posts
<1>2. m \notin lost =>
        m = CurrentPost(c) /\ pc[c] \in {"posting", "ended"} /\ reply[c] = "none"
  BY DEF OnceInv, PostsAreCurrent
<1>3. /\ wire' = wire \ {m} /\ UNCHANGED <<pc, cur, confirms, outcome, scheduled, lost>>
      /\ ghl' = [ghl EXCEPT ![m.slot] = b]
      /\ reply' = IF Awaited(m) THEN [reply EXCEPT ![c] = "booked"] ELSE reply
  BY DEF GhlBooks, Answer, session
<1>4. /\ ghl'[m.slot] = b
      /\ \A s \in Slots \ {m.slot} : ghl'[s] = ghl[s]
  BY <1>1, <1>3 DEF Typed, TypeOK
<1>5. /\ \A d \in Callers \ {c} : reply'[d] = reply[d]
      /\ Awaited(m) => reply'[c] = "booked"
      /\ ~Awaited(m) => reply' = reply
  BY <1>1, <1>3 DEF Typed, TypeOK
<1>6. /\ \A s \in Slots \ {m.slot} : AnswerLost(s)' = AnswerLost(s)
      /\ m \in lost => AnswerLost(m.slot)'
  <2>1. [from |-> b.from, slot |-> m.slot, n |-> b.n] = m
    BY <1>1 DEF Posts
  <2>. QED
    BY <1>3, <1>4, <2>1 DEF AnswerLost
<1>7. m \notin lost => \A s \in Slots : ghl[s] = b => AnswerLost(s)
  BY DEF OnceInv, PostsAreNew
<1>8. PostsAreCurrent'
  <2>1. SUFFICES ASSUME NEW k \in wire', k \notin lost
                 PROVE  /\ k = CurrentPost(k.from) /\ pc[k.from] \in {"posting", "ended"}
                        /\ reply'[k.from] = "none"
    BY <1>3 DEF PostsAreCurrent, CurrentPost
  <2>2. /\ k \in wire /\ k # m /\ k.from \in Callers
        /\ k = CurrentPost(k.from) /\ pc[k.from] \in {"posting", "ended"}
        /\ reply[k.from] = "none"
    BY <1>3, <2>1 DEF OnceInv, PostsAreCurrent, Typed, TypeOK, Posts
  <2>3. k.from = c => ~Awaited(m)
    BY <2>2 DEF Awaited
  <2>. QED
    BY <1>5, <2>2, <2>3
<1>9. PostsAreNew'
  <2>1. SUFFICES ASSUME NEW k \in wire', NEW s \in Slots, k \notin lost,
                        ghl'[s] = [from |-> k.from, n |-> k.n]
                 PROVE  AnswerLost(s)'
    BY <1>3 DEF PostsAreNew
  <2>2. k \in wire /\ k # m /\ k = CurrentPost(k.from)
    BY <1>3, <2>1 DEF OnceInv, PostsAreCurrent
  <2>3. CASE s = m.slot
    <3>1. k.from = c
      BY <1>4, <2>1, <2>3
    <3>2. m \in lost
      BY <1>2, <2>2, <3>1
    <3>. QED
      BY <1>6, <2>3, <3>2
  <2>4. CASE s # m.slot
    BY <1>4, <1>6, <2>1, <2>2, <2>4 DEF OnceInv, PostsAreNew
  <2>. QED
    BY <2>3, <2>4
<1>10. StraysAreLost'
  <2>1. SUFFICES ASSUME NEW d \in Callers, NEW s \in Slots, Stray(d, s)', ghl'[s] = Attempt(d)
                 PROVE  AnswerLost(s)'
    BY <1>3 DEF StraysAreLost, Attempt
  <2>2. CASE s = m.slot
    <3>1. d = c
      BY <1>4, <2>1, <2>2 DEF Attempt
    <3>2. ASSUME m \notin lost PROVE FALSE
      <4>1. m = CurrentPost(c) /\ pc[c] \in {"posting", "ended"} /\ m.slot = cur[c]
        BY <1>1, <1>2, <3>2, CurrentPostFields
      <4>2. pc[c] = "posting" => reply'[c] = "booked"
        BY <1>5, <4>1 DEF Awaited
      <4>. QED
        BY <1>3, <2>1, <2>2, <3>1, <4>1, <4>2 DEF Stray, Open, Answered
    <3>. QED
      BY <1>6, <2>2, <3>2
  <2>3. CASE s # m.slot
    <3>1. ghl[s] = Attempt(d)
      BY <1>4, <2>1, <2>3
    <3>2. Stray(d, s)
      <4>1. CASE reply'[d] = reply[d]
        BY <1>3, <2>1, <4>1 DEF Stray, Open, Answered
      <4>2. CASE reply'[d] # reply[d]
        <5>1. d = c /\ Awaited(m)
          BY <1>5, <4>2
        <5>2. pc[c] = "posting"
          BY <5>1 DEF Awaited
        <5>3. CASE reply[c] = "booked"
          BY <1>5, <4>2, <5>1, <5>3
        <5>4. CASE reply[c] # "booked"
          BY <5>1, <5>2, <5>4 DEF Stray, Open
        <5>. QED
          BY <5>3, <5>4
      <4>. QED
        BY <4>1, <4>2
    <3>3. AnswerLost(s)
      BY <3>1, <3>2 DEF OnceInv, StraysAreLost
    <3>. QED
      BY <1>6, <2>3, <3>3
  <2>. QED
    BY <2>2, <2>3
<1>11. NoLaterAttempt'
  <2>1. m.n <= confirms[c] /\ \A k \in wire' : k.n <= confirms[k.from]
    BY <1>3 DEF OnceInv, NoLaterAttempt
  <2>2. ASSUME NEW s \in Slots, ghl'[s].from \in Callers
        PROVE  ghl'[s].n <= confirms[ghl'[s].from]
    <3>1. CASE s = m.slot
      BY <1>4, <2>1, <3>1
    <3>2. CASE s # m.slot
      BY <1>4, <2>2, <3>2 DEF OnceInv, NoLaterAttempt
    <3>. QED
      BY <3>1, <3>2
  <2>. QED
    BY <1>3, <2>1, <2>2 DEF NoLaterAttempt
<1>12. SecondAppointmentWasLost'
  <2>1. SUFFICES ASSUME NEW s \in Slots, NEW t \in Slots, ghl'[s] = ghl'[t], s # t,
                        ghl'[s].from \in Callers
                 PROVE  AnswerLost(s)' \/ AnswerLost(t)'
    BY DEF SecondAppointmentWasLost
  <2>2. CASE s # m.slot /\ t # m.slot
    <3>1. AnswerLost(s) \/ AnswerLost(t)
      BY <1>4, <2>1, <2>2 DEF OnceInv, SecondAppointmentWasLost
    <3>. QED
      BY <1>6, <2>2, <3>1
  <2>3. CASE m \in lost
    BY <1>6, <2>2, <2>3
  <2>4. CASE m \notin lost /\ (s = m.slot \/ t = m.slot)
    <3>1. PICK u \in {s, t} : u # m.slot
      BY <2>1
    <3>2. ghl[u] = b
      BY <1>4, <2>1, <2>4, <3>1
    <3>3. AnswerLost(u)
      BY <1>7, <2>4, <3>2
    <3>. QED
      BY <1>6, <3>1, <3>3
  <2>. QED
    BY <2>2, <2>3, <2>4
<1>13. BookedIsRecorded'
  <2>1. SUFFICES ASSUME NEW d \in Callers, NEW s \in Slots, ghl'[s] = Attempt(d),
                        pc[d] \in {"idle", "offering"}
                 PROVE  scheduled[d] = s \/ AnswerLost(s)'
    BY <1>3 DEF BookedIsRecorded, Attempt
  <2>2. CASE s = m.slot
    <3>1. d = c
      BY <1>4, <2>1, <2>2 DEF Attempt
    <3>2. m \in lost
      BY <1>2, <2>1, <3>1
    <3>. QED
      BY <1>6, <2>2, <3>2
  <2>3. CASE s # m.slot
    <3>1. scheduled[d] = s \/ AnswerLost(s)
      BY <1>4, <2>1, <2>3 DEF OnceInv, BookedIsRecorded, Attempt
    <3>. QED
      BY <1>6, <2>3, <3>1
  <2>. QED
    BY <2>2, <2>3
<1>. QED
  BY <1>8, <1>9, <1>10, <1>11, <1>12, <1>13 DEF OnceInv

LEMMA RefuseKeeps ==
  ASSUME Typed, OnceInv, NEW m \in wire, GhlRefuses(m)
  PROVE  OnceInv'
<1>1. m \in Posts /\ m.from \in Callers
  BY DEF Typed, TypeOK, Posts
<1>2. /\ wire' = wire \ {m} /\ UNCHANGED <<pc, cur, confirms, outcome, scheduled, ghl, lost>>
      /\ reply' = IF Awaited(m) THEN [reply EXCEPT ![m.from] = "refused"] ELSE reply
  BY DEF GhlRefuses, Answer, session
<1>3. /\ \A d \in Callers \ {m.from} : reply'[d] = reply[d]
      /\ Awaited(m) => reply'[m.from] = "refused"
      /\ ~Awaited(m) => reply' = reply
  BY <1>1, <1>2 DEF Typed, TypeOK
<1>4. \A s \in Slots : AnswerLost(s)' = AnswerLost(s)
  BY <1>2 DEF AnswerLost
<1>5. PostsAreCurrent'
  <2>1. SUFFICES ASSUME NEW k \in wire', k \notin lost
                 PROVE  /\ k = CurrentPost(k.from) /\ pc[k.from] \in {"posting", "ended"}
                        /\ reply'[k.from] = "none"
    BY <1>2 DEF PostsAreCurrent, CurrentPost
  <2>2. /\ k \in wire /\ k # m /\ k.from \in Callers
        /\ k = CurrentPost(k.from) /\ pc[k.from] \in {"posting", "ended"}
        /\ reply[k.from] = "none"
    BY <1>2, <2>1 DEF OnceInv, PostsAreCurrent, Typed, TypeOK, Posts
  <2>3. k.from = m.from => ~Awaited(m)
    BY <2>2 DEF Awaited
  <2>. QED
    BY <1>3, <2>2, <2>3
<1>6. PostsAreNew'
  BY <1>2, <1>4 DEF OnceInv, PostsAreNew
<1>7. StraysAreLost'
  <2>1. SUFFICES ASSUME NEW d \in Callers, NEW s \in Slots, Stray(d, s)', ghl[s] = Attempt(d)
                 PROVE  AnswerLost(s)
    BY <1>2, <1>4 DEF StraysAreLost, Attempt
  <2>2. CASE reply'[d] = reply[d]
    <3>1. Stray(d, s)
      BY <1>2, <2>1, <2>2 DEF Stray, Open, Answered
    <3>. QED
      BY <2>1, <3>1 DEF OnceInv, StraysAreLost
  <2>3. CASE reply'[d] # reply[d]
    <3>1. d = m.from /\ Awaited(m) /\ pc[d] = "posting"
      BY <1>3, <2>3 DEF Awaited
    <3>2. CASE reply[d] # "booked" \/ s # cur[d]
      <4>1. Stray(d, s)
        BY <3>1, <3>2 DEF Stray, Open, Answered
      <4>. QED
        BY <2>1, <4>1 DEF OnceInv, StraysAreLost
    <3>3. CASE reply[d] = "booked" /\ s = cur[d]
      <4>1. m \in lost
        BY <3>1, <3>3 DEF OnceInv, PostsAreCurrent
      <4>2. [from |-> ghl[s].from, slot |-> s, n |-> ghl[s].n] = m
        BY <2>1, <3>1, <3>3 DEF Awaited, CurrentPost, Attempt
      <4>. QED
        BY <4>1, <4>2 DEF AnswerLost
    <3>. QED
      BY <3>2, <3>3
  <2>. QED
    BY <2>2, <2>3
<1>8. NoLaterAttempt' /\ SecondAppointmentWasLost' /\ BookedIsRecorded'
  BY <1>2, <1>4 DEF OnceInv, NoLaterAttempt, SecondAppointmentWasLost, BookedIsRecorded
<1>. QED
  BY <1>5, <1>6, <1>7, <1>8 DEF OnceInv

\* The office books for itself, under no caller's name.
LEMMA OfficeKeeps ==
  ASSUME Typed, OnceInv, NEW s \in Slots, OfficeBooks(s)
  PROVE  OnceInv'
<1>1. /\ ghl' = [ghl EXCEPT ![s] = ByOffice] /\ UNCHANGED <<wire, reply, lost>>
      /\ UNCHANGED <<pc, cur, confirms, outcome, scheduled>>
  BY DEF OfficeBooks, session
<1>2. /\ ghl'[s].from \notin Callers
      /\ \A t \in Slots \ {s} : ghl'[t] = ghl[t]
  BY <1>1, CallersAssumption DEF ByOffice, Typed, TypeOK
<1>3. \A t \in Slots : ghl'[t].from \in Callers =>
        t # s /\ ghl'[t] = ghl[t] /\ AnswerLost(t)' = AnswerLost(t)
  BY <1>1, <1>2 DEF AnswerLost
<1>4. \A c \in Callers : Attempt(c).from \in Callers /\ \A n : [from |-> c, n |-> n].from \in Callers
  BY DEF Attempt
<1>5. PostsAreCurrent'
  BY <1>1 DEF OnceInv, PostsAreCurrent, CurrentPost
<1>6. PostsAreNew'
  <2>1. SUFFICES ASSUME NEW m \in wire, NEW t \in Slots, m \notin lost,
                        ghl'[t] = [from |-> m.from, n |-> m.n]
                 PROVE  AnswerLost(t)'
    BY <1>1 DEF PostsAreNew
  <2>2. ghl'[t].from = m.from /\ m.from \in Callers
    BY <2>1 DEF Typed, TypeOK, Posts
  <2>. QED
    BY <1>3, <2>1, <2>2 DEF OnceInv, PostsAreNew
<1>7. StraysAreLost'
  BY <1>1, <1>3, <1>4 DEF OnceInv, StraysAreLost, Stray, Open, Answered, Attempt
<1>8. NoLaterAttempt' /\ SecondAppointmentWasLost'
  BY <1>1, <1>3 DEF OnceInv, NoLaterAttempt, SecondAppointmentWasLost
<1>9. BookedIsRecorded'
  BY <1>1, <1>3, <1>4 DEF OnceInv, BookedIsRecorded
<1>. QED
  BY <1>5, <1>6, <1>7, <1>8, <1>9 DEF OnceInv

LEMMA StepOnce == Typed /\ BookedInv /\ OnceInv /\ [Next]_vars => OnceInv'
<1>. SUFFICES ASSUME Typed, BookedInv, OnceInv, [Next]_vars
              PROVE  OnceInv'
  OBVIOUS
<1>1. CASE \E c \in Callers : CallerStep(c)
  BY <1>1, CallerOnce
<1>2. CASE Crash
  <2>1. /\ \A c \in Callers : pc'[c] = "ended"
        /\ UNCHANGED <<wire, ghl, reply, cur, confirms, lost>>
    BY <1>2 DEF Crash, external
  <2>2. \A m \in wire : m.from \in Callers
    BY DEF Typed, TypeOK, Posts
  <2>3. \A c \in Callers : \A s : ~Stray(c, s)'
    BY <2>1 DEF Stray, Open, Answered
  <2>. QED
    BY <2>1, <2>2, <2>3 DEF OnceInv, PostsAreCurrent, PostsAreNew, StraysAreLost, NoLaterAttempt,
         SecondAppointmentWasLost, BookedIsRecorded, AnswerLost, CurrentPost
<1>3. CASE GhlStep
  BY <1>3, AcceptKeeps, RefuseKeeps DEF GhlStep
<1>4. CASE (\E s \in Slots : LockExpires(s)) \/ UNCHANGED vars
  <2>1. UNCHANGED <<session, external>>
    BY <1>4 DEF LockExpires, vars
  <2>. QED
    BY <2>1 DEF session, external, OnceInv, PostsAreCurrent, PostsAreNew, StraysAreLost,
         NoLaterAttempt, SecondAppointmentWasLost, BookedIsRecorded, Stray, Open, Answered,
         AnswerLost, CurrentPost, Attempt
<1>5. ASSUME NEW s \in Slots, OfficeBooks(s) PROVE OnceInv'
  BY <1>5, OfficeKeeps
<1>. QED
  BY <1>1, <1>2, <1>3, <1>4, <1>5 DEF Next

LEMMA OnceHolds == Spec => []OnceInv
<1>1. Init => Typed /\ BookedInv /\ OnceInv
  BY InitTyped, InitBooked, InitOnce
<1>2. (Typed /\ BookedInv /\ OnceInv) /\ [Next]_vars => (Typed /\ BookedInv /\ OnceInv)'
  BY StepTyped, StepBooked, StepOnce
<1>. QED
  BY <1>1, <1>2, PTL DEF Spec

\* However many slots a confirmation goes through, whatever is lost, refused or
\* raced, whoever hangs up or dies: of two appointments GHL has for one confirmation
\* the answer to one was lost.
THEOREM BookedTwiceOnlyIfLost == Spec => []SecondAppointmentWasLost
<1>1. OnceInv => SecondAppointmentWasLost
  BY DEF OnceInv
<1>. QED
  BY <1>1, OnceHolds, PTL

\* A call that has come through its confirmation knows the appointment GHL made,
\* unless the answer to that POST was lost.
THEOREM BookingsAreRecorded == Spec => []BookedIsRecorded
<1>1. OnceInv => BookedIsRecorded
  BY DEF OnceInv
<1>. QED
  BY <1>1, OnceHolds, PTL

-----------------------------------------------------------------------------
(***************************************************************************)
(* The flow implements AppointmentBook: GHL's commit and the office's own  *)
(* booking are Take, recording scheduled_at is Tell, the rest stutters.    *)
(***************************************************************************)

LEMMA InitPromise == Init => Promise!Init
BY DEF Init, Promise!Init, Vacant

LEMMA StepPromise == Typed /\ BookedInv /\ [Next]_vars => [Promise!Next]_(Promise!bookVars)
<1>. SUFFICES ASSUME Typed, BookedInv, [Next]_vars
              PROVE  Promise!Next \/ UNCHANGED Promise!bookVars
  OBVIOUS
<1>. USE DEF Promise!bookVars
<1>1. ASSUME NEW c \in Callers, Release(c), outcome[c]
      PROVE  Promise!Next
  <2>0. ghl[cur[c]] = [from |-> c, n |-> confirms[c]]
    BY <1>1 DEF Release, BookedInv, AnsweredIsBooked, Answered
  <2>1. cur[c] \in Slots /\ ghl[cur[c]].from = c
    BY <1>1, <2>0 DEF Release, Typed, CurIsSlot, Holding
  <2>2. scheduled' = [scheduled EXCEPT ![c] = cur[c]] /\ ghl' = ghl
    BY <1>1 DEF Release, external
  <2>3. Promise!Tell(c, cur[c])
    BY <2>1, <2>2 DEF Promise!Tell
  <2>. QED
    BY <2>1, <2>3 DEF Promise!Next
<1>2. ASSUME NEW c \in Callers, CallerStep(c), ~ (Release(c) /\ outcome[c])
      PROVE  UNCHANGED <<ghl, scheduled>>
  BY <1>2 DEF CallerStep, BookingStep, ScheduleNow, OfferSpoken, ConfirmSlot, EagerContact,
              NothingOffered, MatchSlot, AcquireLock, SkipLocked, GhlUnavailable, SendPost,
              ReadReply, PostTimeout, Mirror, Release, Refetch, RefetchFails, HandlerReturns,
              EndCall, HangUp, HangUpWhileLocking, external
<1>3. ASSUME NEW m \in wire, GhlBooks(m) PROVE Promise!Next
  <2>1. m.slot \in Slots /\ m.from \in Callers
    BY DEF Typed, TypeOK, Posts
  <2>2. ghl[m.slot].from = NoOne /\ scheduled' = scheduled
    BY <1>3 DEF GhlBooks, Vacant, session
  <2>3. [s \in Slots |-> ghl'[s].from]
          = [[s \in Slots |-> ghl[s].from] EXCEPT ![m.slot] = m.from]
    BY <1>3, <2>1 DEF GhlBooks, Typed, TypeOK
  <2>4. Promise!Take(m.from, m.slot)
    BY <2>1, <2>2, <2>3 DEF Promise!Take
  <2>. QED
    BY <2>1, <2>4 DEF Promise!Next, Promise!Holders
<1>4. ASSUME NEW s \in Slots, OfficeBooks(s) PROVE Promise!Next
  <2>1. ghl[s].from = NoOne /\ scheduled' = scheduled
    BY <1>4 DEF OfficeBooks, Vacant, session
  <2>2. [t \in Slots |-> ghl'[t].from]
          = [[t \in Slots |-> ghl[t].from] EXCEPT ![s] = Office]
    BY <1>4 DEF OfficeBooks, ByOffice, Typed, TypeOK
  <2>3. Promise!Take(Office, s)
    BY <2>1, <2>2 DEF Promise!Take
  <2>. QED
    BY <2>3 DEF Promise!Next, Promise!Holders
<1>5. CASE \/ Crash
           \/ \E m \in wire : GhlRefuses(m)
           \/ \E s \in Slots : LockExpires(s)
           \/ UNCHANGED vars
  BY <1>5 DEF Crash, GhlRefuses, LockExpires, vars, session, external
<1>. QED
  BY <1>1, <1>2, <1>3, <1>4, <1>5 DEF Next, GhlStep

\* Booking keeps its promise: one holder per slot, and callers are told the truth.
THEOREM FlowImplementsBook == Spec => KeepsPromise
<1>1. Spec => [](Typed /\ BookedInv)
  BY InitTyped, InitBooked, StepTyped, StepBooked, PTL DEF Spec
<1>. QED
  BY <1>1, InitPromise, StepPromise, PTL DEF Spec, KeepsPromise, Promise!Spec

=============================================================================
