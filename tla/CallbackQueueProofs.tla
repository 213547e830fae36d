------------------------ MODULE CallbackQueueProofs --------------------------
(***************************************************************************)
(* Proofs about CallbackQueue, for any sets of requests and any number of  *)
(* retries.                                                                *)
(***************************************************************************)
EXTENDS CallbackQueue, FiniteSetTheorems, SequenceTheorems, TLAPS

USE DEF Item, redis, calling, Busy, Decides

\* The worker has handed the call to Twilio, and not yet dealt with the outcome.
Attempting == worker \in {"calling", "placed", "failed"}

\* An item that waits carries its request's attempts as retries.
Counts(i) == fate[i.req] = "waiting" /\ attempts[i.req] = i.retries

\* The attempts made for a request are what its item says, and the fates of
\* requests agree with them.
Counted ==
  /\ \A k \in DOMAIN queue : Counts(queue[k])
  /\ \A i \in delayed : Counts(i)
  /\ hand # NoItem =>
       /\ fate[hand.req] = "waiting"
       /\ attempts[hand.req] = IF Attempting THEN hand.retries + 1 ELSE hand.retries
       /\ Attempting => hand.retries < MAX_RETRIES
       /\ worker = "fallback" => hand.retries = MAX_RETRIES
  /\ \A r \in Requests : fate[r] = "none" => attempts[r] = 0
  /\ \A r \in Requests : attempts[r] <= MAX_RETRIES

\* A call that Twilio may still place is the one the worker waits for, or one
\* whose item a stop cut off; and each call it placed was an attempt.
Dialled ==
  /\ \A r \in flight : dials[r] < attempts[r] /\ (Awaits(r) \/ fate[r] = "cut_off")
  /\ \A r \in Requests : dials[r] <= attempts[r]

Inv ==
  /\ TypeOK /\ IsFiniteSet(delayed)
  /\ HeldOnce /\ Counted /\ Dialled /\ GivenUpAfterAllAttempts /\ RequestsAreKept

(***************************************************************************)
(* Types                                                                   *)
(***************************************************************************)

\* Pushing on either side, popping and promoting leave a sequence over S.
LEMMA Queues ==
  ASSUME NEW S, NEW q \in Seq(S)
  PROVE  /\ \A e \in S : Append(q, e) \in Seq(S) /\ <<e>> \o q \in Seq(S)
         /\ q # <<>> => Head(q) \in S /\ Tail(q) \in Seq(S)
         /\ \A s \in Seq(S) : q \o s \in Seq(S)
  BY AppendProperties, HeadTailProperties, ConcatProperties

\* An order of the ready items is a sequence of delayed items.
LEMMA OrdersAreSequences ==
  ASSUME TypeOK, IsFiniteSet(delayed), NEW s \in Orders(ready)
  PROVE  s \in Seq(Items) /\ s \in Seq(ready)
<1>1. Cardinality(ready) \in Nat
  BY FS_Subset, FS_CardinalityType DEF TypeOK
<1>2. s \in Seq(ready)
  BY <1>1 DEF Orders
<1>3. ready \subseteq Items
  BY DEF TypeOK
<1> QED BY <1>1, <1>3, <1>2 DEF Orders

\* The server starts with everything empty.
LEMMA InitInv == Init => Inv
<1> SUFFICES ASSUME Init PROVE Inv
  OBVIOUS
<1>1. TypeOK
  <2>1. queue \in Seq(Items \cup RawItems)
    BY DEF Init
  <2>2. hand \in Items \cup {NoItem} /\ (hand # NoItem <=> worker \in Busy)
    BY DEF Init
  <2>3. attempts \in [Requests -> Nat] /\ dials \in [Requests -> Nat] /\ fate \in [Requests -> Fates]
    BY DEF Init, Fates
  <2> QED BY <2>1, <2>2, <2>3, StopsAssumption DEF Init, TypeOK
<1>2. IsFiniteSet(delayed)
  BY FS_EmptySet DEF Init
<1>3. HeldOnce
  BY DEF Init, HeldOnce
<1>4. Counted
  BY RetriesAssumption DEF Init, Counted
<1>5. Dialled
  BY DEF Init, Dialled
<1>6. GivenUpAfterAllAttempts /\ RequestsAreKept
  BY RequestsAssumption DEF Init, GivenUpAfterAllAttempts, RequestsAreKept, Requests
<1> QED BY <1>1, <1>2, <1>3, <1>4, <1>5, <1>6 DEF Inv

\* The item in the worker's hand, and what can be said of it.
LEMMA HandFacts ==
  ASSUME Inv, worker \in Busy
  PROVE  /\ hand \in Items /\ hand # NoItem
         /\ hand.req \in Presses /\ hand.req \in Requests /\ hand.retries \in 0..MAX_RETRIES
         /\ fate[hand.req] = "waiting"
         /\ Attempting => attempts[hand.req] = hand.retries + 1 /\ hand.retries < MAX_RETRIES
         /\ ~Attempting => attempts[hand.req] = hand.retries
  BY DEF Inv, TypeOK, Counted, Items, Requests

\* One more attempt on an item is an item.
LEMMA Retried ==
  ASSUME Inv, worker = "failed"
  PROVE  LET again == [hand EXCEPT !.retries = @ + 1]
         IN  /\ again \in Items /\ again.req = hand.req
             /\ again.retries = attempts[hand.req]
<1>1. hand \in Items /\ hand.retries < MAX_RETRIES /\ attempts[hand.req] = hand.retries + 1
  BY HandFacts DEF Attempting
<1> QED BY <1>1, RetriesAssumption DEF Items

\* NoItem is no item.
LEMMA NoItemIsNone == NoItem \notin Items /\ NoItem \notin RawItems
  BY NoItemAssumption, RetriesAssumption DEF Items, RawItems

\* Types are kept by every step, and callback_delayed stays finite.
LEMMA StepTyped == Inv /\ [Next]_vars => TypeOK' /\ IsFiniteSet(delayed)'
<1> SUFFICES ASSUME Inv, [Next]_vars PROVE TypeOK' /\ IsFiniteSet(delayed)'
  OBVIOUS
<1> USE StopsAssumption
<1>0. TypeOK /\ IsFiniteSet(delayed)
  BY DEF Inv
<1>1. ASSUME NEW r \in Requests, Enqueue(r) PROVE TypeOK' /\ IsFiniteSet(delayed)'
  <2>1. Item(r, 0) \in Items
    BY <1>1, RetriesAssumption DEF Enqueue, Items
  <2>2. queue' \in Seq(Items \cup RawItems)
    BY <1>0, <1>1, <2>1, Queues DEF Enqueue, TypeOK
  <2> QED BY <1>0, <1>1, <2>2 DEF Enqueue, TypeOK, Fates
<1>2. ASSUME NEW r \in Requests, EnqueueMissed(r) PROVE TypeOK' /\ IsFiniteSet(delayed)'
  <2>1. Item(r, 0) \in RawItems
    BY <1>2 DEF EnqueueMissed, RawItems
  <2>2. queue' \in Seq(Items \cup RawItems)
    BY <1>0, <1>2, <2>1, Queues DEF EnqueueMissed, TypeOK
  <2> QED BY <1>0, <1>2, <2>2 DEF EnqueueMissed, TypeOK, Fates
<1>3. CASE PopItem
  <2>1. Head(queue) \in Items \cup RawItems /\ queue' \in Seq(Items \cup RawItems)
    BY <1>0, <1>3, Queues DEF PopItem, TypeOK
  <2>2. IsJson(Head(queue)) => Head(queue) \in Items /\ Head(queue) # NoItem
    BY <2>1, NoItemIsNone, RequestsAssumption DEF IsJson, Items, RawItems
  <2>3. hand' \in Items \cup {NoItem} /\ (hand' # NoItem <=> worker' \in Busy)
    BY <1>0, <1>3, <2>2 DEF PopItem, TypeOK
  <2>4. worker' \in Busy \cup {"popping", "sleeping", "stopped"}
    BY <1>0, <1>3 DEF PopItem, TypeOK
  <2> QED BY <1>0, <1>3, <2>1, <2>3, <2>4 DEF PopItem, TypeOK
<1>4. ASSUME NEW i \in Items, Requeue(i) PROVE TypeOK' /\ IsFiniteSet(delayed)'
  <2>1. IsFiniteSet(delayed)'
    BY <1>0, <1>4, FS_AddElement DEF Requeue
  <2> QED BY <1>0, <1>4, <2>1 DEF Requeue, TypeOK
<1>5. CASE WaitForOffice \/ Failed
  <2>1. CASE WaitForOffice
    BY <1>4, <2>1, HandFacts DEF WaitForOffice
  <2>2. CASE Failed
    BY <1>4, <2>2, Retried DEF Failed
  <2> QED BY <1>5, <2>1, <2>2
<1>6. CASE TooManyRetries
  BY <1>0, <1>6 DEF TooManyRetries, TypeOK
<1>7. CASE PlaceCall
  <2>1. hand \in Items /\ hand.req \in Presses /\ hand.req \in Requests
    BY <1>7, HandFacts DEF PlaceCall
  <2>2. attempts' \in [Requests -> Nat] /\ flight' \subseteq Presses
    BY <1>0, <1>7, <2>1 DEF PlaceCall, TypeOK
  <2> QED BY <1>0, <1>7, <2>2 DEF PlaceCall, TypeOK
<1>8. ASSUME NEW r \in Requests, TwilioCalls(r) PROVE TypeOK' /\ IsFiniteSet(delayed)'
  <2>1. dials' \in [Requests -> Nat]
    BY <1>0, <1>8 DEF TwilioCalls, TypeOK
  <2>2. worker' \in Busy \cup {"popping", "sleeping", "stopped"} /\ (worker' \in Busy <=> worker \in Busy)
    BY <1>0, <1>8 DEF TwilioCalls, TypeOK, Awaits
  <2> QED BY <1>0, <1>8, <2>1, <2>2 DEF TwilioCalls, TypeOK
<1>9. ASSUME NEW r \in Requests, TwilioRefuses(r) PROVE TypeOK' /\ IsFiniteSet(delayed)'
  <2>1. worker' \in Busy \cup {"popping", "sleeping", "stopped"} /\ (worker' \in Busy <=> worker \in Busy)
    BY <1>0, <1>9 DEF TwilioRefuses, TypeOK, Awaits
  <2> QED BY <1>0, <1>9, <2>1 DEF TwilioRefuses, TypeOK
<1>10. CASE Placed \/ Fallback \/ NoNumber
  <2>1. PICK f \in Fates : Settle(f)
    BY <1>10 DEF Placed, Fallback, NoNumber, Fates
  <2>2. fate' \in [Requests -> Fates]
    BY <1>0, <2>1 DEF Settle, TypeOK
  <2> QED BY <1>0, <2>1, <2>2 DEF Settle, TypeOK
<1>11. CASE Awake \/ Restart
  BY <1>0, <1>11 DEF Awake, Restart, TypeOK
<1>12. ASSUME NEW i \in delayed, FallsDue(i) PROVE TypeOK' /\ IsFiniteSet(delayed)'
  BY <1>0, <1>12 DEF FallsDue, TypeOK
<1>13. CASE ReadReady
  BY <1>0, <1>13 DEF ReadReady, TypeOK
<1>14. CASE PushReady
  <2>1. PICK s \in Orders(ready) : queue' = queue \o s
    BY <1>14 DEF PushReady
  <2>2. s \in Seq(Items \cup RawItems)
    BY <1>0, OrdersAreSequences
  <2>3. queue' \in Seq(Items \cup RawItems)
    BY <1>0, <2>1, <2>2, Queues DEF TypeOK
  <2>4. IsFiniteSet(delayed')
    BY <1>0, <1>14, FS_Difference DEF PushReady
  <2> QED BY <1>0, <1>14, <2>3, <2>4 DEF PushReady, TypeOK
<1>15. CASE OfficeHours
  BY <1>0, <1>15 DEF OfficeHours, TypeOK
<1>16. CASE Stop
  <2>1. fate' \in [Requests -> Fates]
    BY <1>0, <1>16 DEF Stop, TypeOK, Fates
  <2>2. stops' \in 0..MaxStops
    BY <1>0, <1>16 DEF Stop, TypeOK
  <2> QED BY <1>0, <1>16, <2>1, <2>2 DEF Stop, TypeOK
<1>17. CASE UNCHANGED vars
  BY <1>0, <1>17 DEF vars, TypeOK
<1> QED
  BY <1>1, <1>2, <1>3, <1>5, <1>6, <1>7, <1>8, <1>9, <1>10, <1>11, <1>12, <1>13, <1>14, <1>15,
     <1>16, <1>17 DEF Next, Consumer

(***************************************************************************)
(* A request is held once                                                  *)
(***************************************************************************)

\* Whoever has no request yet, or is being tried, is in no other place.
LEMMA NewIsNotHeld ==
  ASSUME Inv, NEW r \in Requests, fate[r] = "none"
  PROVE  /\ \A k \in DOMAIN queue : queue[k].req # r
         /\ \A i \in delayed : i.req # r
         /\ hand # NoItem => hand.req # r
  BY DEF Inv, Counted, Counts

\* The entries of the four sequences that steps make of the queue.
LEMMA Entries ==
  ASSUME NEW S, NEW q \in Seq(S), NEW e \in S
  PROVE  /\ \A k \in DOMAIN Append(q, e) :
              IF k = Len(q) + 1 THEN Append(q, e)[k] = e ELSE k \in DOMAIN q /\ Append(q, e)[k] = q[k]
         /\ \A k \in DOMAIN (<<e>> \o q) :
              IF k = 1 THEN (<<e>> \o q)[k] = e ELSE k - 1 \in DOMAIN q /\ (<<e>> \o q)[k] = q[k - 1]
         /\ q # <<>> => /\ Head(q) = q[1] /\ 1 \in DOMAIN q
                        /\ \A k \in DOMAIN Tail(q) : k + 1 \in DOMAIN q /\ Tail(q)[k] = q[k + 1]
  OBVIOUS

LEMMA ConcatEntries ==
  ASSUME NEW S, NEW q \in Seq(S), NEW s \in Seq(S)
  PROVE  \A k \in DOMAIN (q \o s) :
           IF k <= Len(q) THEN k \in DOMAIN q /\ (q \o s)[k] = q[k]
           ELSE k - Len(q) \in DOMAIN s /\ (q \o s)[k] = s[k - Len(q)]
  OBVIOUS

\* No step makes a second copy of a request.
LEMMA StepHeldOnce == Inv /\ [Next]_vars => HeldOnce'
<1> SUFFICES ASSUME Inv, [Next]_vars PROVE HeldOnce'
  OBVIOUS
<1>0. TypeOK /\ HeldOnce /\ queue \in Seq(Items \cup RawItems)
  BY DEF Inv, TypeOK
<1>1. ASSUME NEW r \in Requests, Enqueue(r) PROVE HeldOnce'
  <2>1. Item(r, 0) \in Items \cup RawItems
    BY <1>1, RetriesAssumption DEF Enqueue, Items
  <2>2. queue' = Append(queue, Item(r, 0)) /\ UNCHANGED <<delayed, hand>>
    BY <1>1 DEF Enqueue
  <2>3. \A k \in DOMAIN queue' :
          IF k = Len(queue) + 1 THEN queue'[k] = Item(r, 0) ELSE k \in DOMAIN queue /\ queue'[k] = queue[k]
    BY <1>0, <2>1, <2>2, Entries
  <2>4. /\ \A k \in DOMAIN queue : queue[k].req # r
        /\ \A i \in delayed : i.req # r
        /\ hand # NoItem => hand.req # r
    BY <1>1, NewIsNotHeld DEF Enqueue
  <2> QED BY <1>0, <2>2, <2>3, <2>4 DEF HeldOnce
<1>2. ASSUME NEW r \in Requests, EnqueueMissed(r) PROVE HeldOnce'
  <2>1. Item(r, 0) \in Items \cup RawItems
    BY <1>2 DEF EnqueueMissed, RawItems
  <2>2. queue' = <<Item(r, 0)>> \o queue /\ UNCHANGED <<delayed, hand>>
    BY <1>2 DEF EnqueueMissed
  <2>3. \A k \in DOMAIN queue' :
          IF k = 1 THEN queue'[k] = Item(r, 0) ELSE k - 1 \in DOMAIN queue /\ queue'[k] = queue[k - 1]
    BY <1>0, <2>1, <2>2, Entries
  <2>4. /\ \A k \in DOMAIN queue : queue[k].req # r
        /\ \A i \in delayed : i.req # r
        /\ hand # NoItem => hand.req # r
    BY <1>2, NewIsNotHeld DEF EnqueueMissed
  <2>5. DOMAIN queue' \subseteq Nat
    BY <1>0, <2>1, <2>2
  <2> QED BY <1>0, <2>2, <2>3, <2>4, <2>5 DEF HeldOnce
<1>3. CASE PopItem
  <2>1. queue # <<>> /\ queue' = Tail(queue) /\ delayed' = delayed
    BY <1>3 DEF PopItem
  <2>2. /\ Head(queue) = queue[1] /\ 1 \in DOMAIN queue
        /\ \A k \in DOMAIN queue' : k + 1 \in DOMAIN queue /\ queue'[k] = queue[k + 1]
    BY <1>0, <2>1, Entries
  <2>3. DOMAIN queue' \subseteq Nat \ {0}
    BY <1>0, <2>1
  <2>4. hand' = hand \/ hand' = queue[1]
    BY <1>3, <2>2 DEF PopItem
  <2>5. /\ \A j, k \in DOMAIN queue' : queue'[j].req = queue'[k].req => j = k
        /\ \A i, j \in delayed' : i.req = j.req => i = j
        /\ \A j \in DOMAIN queue', i \in delayed' : queue'[j].req # i.req
    BY <1>0, <2>1, <2>2, <2>3 DEF HeldOnce
  <2>6. ASSUME hand' # NoItem
        PROVE  /\ \A j \in DOMAIN queue' : queue'[j].req # hand'.req
               /\ \A i \in delayed' : i.req # hand'.req
    <3>1. CASE hand' = hand
      BY <1>0, <2>1, <2>2, <2>6, <3>1 DEF HeldOnce
    <3>2. CASE hand' = queue[1]
      <4>1. \A k \in DOMAIN queue' : k + 1 # 1
        BY <2>3
      <4> QED BY <1>0, <2>1, <2>2, <3>2, <4>1 DEF HeldOnce
    <3> QED BY <2>4, <3>1, <3>2
  <2> QED BY <2>5, <2>6 DEF HeldOnce
<1>4. ASSUME NEW i, hand # NoItem, i.req = hand.req, Requeue(i) PROVE HeldOnce'
  BY <1>0, <1>4 DEF Requeue, HeldOnce
<1>5. CASE WaitForOffice \/ Failed
  <2>1. CASE WaitForOffice
    BY <1>4, <2>1, HandFacts DEF WaitForOffice
  <2>2. CASE Failed
    BY <1>4, <2>2, HandFacts, Retried DEF Failed
  <2> QED BY <1>5, <2>1, <2>2
<1>6. CASE Placed \/ Fallback \/ NoNumber
  <2>1. UNCHANGED <<queue, delayed>> /\ hand' = NoItem
    BY <1>6 DEF Placed, Fallback, NoNumber, Settle
  <2> QED BY <1>0, <2>1 DEF HeldOnce
<1>7. CASE PushReady
  <2>1. PICK s \in Orders(ready) : queue' = queue \o s
    BY <1>7 DEF PushReady
  <2>2. s \in Seq(Items \cup RawItems) /\ s \in Seq(ready)
    BY <1>0, OrdersAreSequences DEF Inv
  <2>3. ready \subseteq delayed /\ delayed' = delayed \ ready /\ hand' = hand
    BY <1>0, <1>7 DEF PushReady, TypeOK
  <2>4. \A k \in DOMAIN queue' :
          IF k <= Len(queue) THEN k \in DOMAIN queue /\ queue'[k] = queue[k]
          ELSE k - Len(queue) \in DOMAIN s /\ queue'[k] = s[k - Len(queue)]
    BY <1>0, <2>1, <2>2, ConcatEntries
  <2>5. \A k \in DOMAIN s : s[k] \in ready
    BY <2>2
  <2>6. \A j, k \in DOMAIN s : s[j].req = s[k].req => j = k
    BY <1>0, <2>3, <2>5 DEF HeldOnce, Orders
  <2>7. Len(queue) \in Nat /\ DOMAIN queue' \subseteq Nat
    BY <1>0, <2>1, <2>2
  <2>8. \A j, k \in DOMAIN queue' : queue'[j].req = queue'[k].req => j = k
    <3> SUFFICES ASSUME NEW j \in DOMAIN queue', NEW k \in DOMAIN queue', queue'[j].req = queue'[k].req
                 PROVE  j = k
      OBVIOUS
    <3>1. CASE j <= Len(queue) /\ k <= Len(queue)
      BY <1>0, <2>4, <3>1 DEF HeldOnce
    <3>2. CASE j > Len(queue) /\ k > Len(queue)
      <4>1. j - Len(queue) = k - Len(queue)
        BY <2>4, <2>6, <2>7, <3>2
      <4> QED BY <2>7, <4>1
    <3>3. CASE j <= Len(queue) /\ k > Len(queue)
      BY <1>0, <2>3, <2>4, <2>5, <2>7, <3>3 DEF HeldOnce
    <3>4. CASE j > Len(queue) /\ k <= Len(queue)
      BY <1>0, <2>3, <2>4, <2>5, <2>7, <3>4 DEF HeldOnce
    <3> QED BY <2>7, <3>1, <3>2, <3>3, <3>4
  <2>9. \A j \in DOMAIN queue', i \in delayed' : queue'[j].req # i.req
    BY <1>0, <2>3, <2>4, <2>5 DEF HeldOnce
  <2>10. hand' # NoItem => \A j \in DOMAIN queue' : queue'[j].req # hand'.req
    BY <1>0, <2>3, <2>4, <2>5 DEF HeldOnce
  <2> QED BY <1>0, <2>3, <2>8, <2>9, <2>10 DEF HeldOnce
<1>8. CASE Stop
  <2>1. UNCHANGED <<queue, delayed>> /\ hand' = NoItem
    BY <1>8 DEF Stop
  <2> QED BY <1>0, <2>1 DEF HeldOnce
<1>9. ASSUME UNCHANGED <<queue, delayed, hand>> PROVE HeldOnce'
  BY <1>0, <1>9 DEF HeldOnce
<1>10. CASE TooManyRetries \/ PlaceCall \/ Awake \/ ReadReady \/ OfficeHours \/ Restart \/ UNCHANGED vars
  BY <1>9, <1>10 DEF TooManyRetries, PlaceCall, Awake, ReadReady, OfficeHours, Restart, vars
<1>11. ASSUME NEW r \in Requests, TwilioCalls(r) \/ TwilioRefuses(r) PROVE HeldOnce'
  BY <1>9, <1>11 DEF TwilioCalls, TwilioRefuses
<1>12. ASSUME NEW i \in delayed, FallsDue(i) PROVE HeldOnce'
  BY <1>9, <1>12 DEF FallsDue
<1> QED
  BY <1>1, <1>2, <1>3, <1>5, <1>6, <1>7, <1>8, <1>10, <1>11, <1>12 DEF Next, Consumer

(***************************************************************************)
(* Retries count attempts                                                  *)
(***************************************************************************)

\* The requests in hand and in the two lists are different ones.
LEMMA HandIsElsewhere ==
  ASSUME Inv, hand # NoItem
  PROVE  /\ \A k \in DOMAIN queue : queue[k].req # hand.req
         /\ \A i \in delayed : i.req # hand.req
  BY DEF Inv, HeldOnce

\* All that is held is of requests with attempts and a fate of their own.
LEMMA HeldAreRequests ==
  ASSUME Inv
  PROVE  /\ \A k \in DOMAIN queue : queue[k] \in Items \cup RawItems /\ queue[k].req \in Requests
         /\ \A i \in delayed : i \in Items /\ i.req \in Requests
<1>1. \A i \in Items \cup RawItems : i.req \in Requests
  BY DEF Items, RawItems, Requests
<1>2. \A k \in DOMAIN queue : queue[k] \in Items \cup RawItems
  BY DEF Inv, TypeOK
<1> QED BY <1>1, <1>2 DEF Inv, TypeOK

\* Counts, after a step.
CountsThen(i) == fate'[i.req] = "waiting" /\ attempts'[i.req] = i.retries

\* The counts stay right whatever becomes of an item.
LEMMA StepCounted == Inv /\ [Next]_vars => Counted'
<1> SUFFICES ASSUME Inv, [Next]_vars PROVE Counted'
  OBVIOUS
<1> USE RetriesAssumption
<1>0. TypeOK /\ Counted /\ queue \in Seq(Items \cup RawItems)
  BY DEF Inv, TypeOK
<1>1. ASSUME NEW r \in Requests, Enqueue(r) PROVE Counted'
  <2>1. Item(r, 0) \in Items \cup RawItems
    BY <1>1 DEF Enqueue, Items
  <2>2. queue' = Append(queue, Item(r, 0)) /\ UNCHANGED <<delayed, hand, worker, attempts>>
    BY <1>1 DEF Enqueue
  <2>3. \A k \in DOMAIN queue' :
          IF k = Len(queue) + 1 THEN queue'[k] = Item(r, 0) ELSE k \in DOMAIN queue /\ queue'[k] = queue[k]
    BY <1>0, <2>1, <2>2, Entries
  <2>4. fate[r] = "none" /\ attempts[r] = 0 /\ fate' = [fate EXCEPT ![r] = "waiting"]
    BY <1>0, <1>1 DEF Enqueue, Counted
  <2>5. fate'[r] = "waiting" /\ \A q \in Requests : q # r => fate'[q] = fate[q]
    BY <1>0, <2>4 DEF TypeOK
  <2>6. /\ \A k \in DOMAIN queue : queue[k].req # r
        /\ \A i \in delayed : i.req # r
        /\ hand # NoItem => hand.req # r
    BY <2>4, NewIsNotHeld
  <2>7. \A k \in DOMAIN queue' : CountsThen(queue'[k])
    BY <1>0, <2>2, <2>3, <2>4, <2>5, HeldAreRequests DEF Counted, Counts, CountsThen
  <2>8. \A i \in delayed' : CountsThen(i)
    BY <1>0, <2>2, <2>5, HeldAreRequests DEF Counted, Counts, CountsThen
  <2>9. hand # NoItem => hand.req \in Requests
    BY <1>0 DEF TypeOK, Items, Requests
  <2> QED BY <1>0, <2>2, <2>4, <2>5, <2>7, <2>8, <2>9 DEF Counted, Counts, CountsThen, Attempting
<1>2. ASSUME NEW r \in Requests, EnqueueMissed(r) PROVE Counted'
  <2>1. Item(r, 0) \in Items \cup RawItems
    BY <1>2 DEF EnqueueMissed, RawItems
  <2>2. queue' = <<Item(r, 0)>> \o queue /\ UNCHANGED <<delayed, hand, worker, attempts>>
    BY <1>2 DEF EnqueueMissed
  <2>3. \A k \in DOMAIN queue' :
          IF k = 1 THEN queue'[k] = Item(r, 0) ELSE k - 1 \in DOMAIN queue /\ queue'[k] = queue[k - 1]
    BY <1>0, <2>1, <2>2, Entries
  <2>4. fate[r] = "none" /\ attempts[r] = 0 /\ fate' = [fate EXCEPT ![r] = "waiting"]
    BY <1>0, <1>2 DEF EnqueueMissed, Counted
  <2>5. fate'[r] = "waiting" /\ \A q \in Requests : q # r => fate'[q] = fate[q]
    BY <1>0, <2>4 DEF TypeOK
  <2>6. hand # NoItem => hand.req \in Requests
    BY <1>0 DEF TypeOK, Items, Requests
  <2>7. \A k \in DOMAIN queue' : CountsThen(queue'[k])
    BY <1>0, <2>2, <2>3, <2>4, <2>5, HeldAreRequests DEF Counted, Counts, CountsThen
  <2>8. \A i \in delayed' : CountsThen(i)
    BY <1>0, <2>2, <2>5, HeldAreRequests DEF Counted, Counts, CountsThen
  <2> QED BY <1>0, <2>2, <2>4, <2>5, <2>6, <2>7, <2>8 DEF Counted, Counts, CountsThen, Attempting
<1>3. CASE PopItem
  <2>1. queue # <<>> /\ queue' = Tail(queue) /\ UNCHANGED <<delayed, attempts, fate>>
    BY <1>3 DEF PopItem
  <2>2. /\ Head(queue) = queue[1] /\ 1 \in DOMAIN queue
        /\ \A k \in DOMAIN queue' : k + 1 \in DOMAIN queue /\ queue'[k] = queue[k + 1]
    BY <1>0, <2>1, Entries
  <2>3. Counts(Head(queue))
    BY <1>0, <2>2 DEF Counted
  <2>4. \A k \in DOMAIN queue' : CountsThen(queue'[k])
    BY <1>0, <2>1, <2>2 DEF Counted, Counts, CountsThen
  <2>5. \A i \in delayed' : CountsThen(i)
    BY <1>0, <2>1 DEF Counted, Counts, CountsThen
  <2>6. worker = "popping"
    BY <1>3 DEF PopItem
  <2>7. \/ worker' = worker /\ hand' = hand
        \/ worker' = "deciding" /\ hand' = Head(queue)
    BY <1>3 DEF PopItem
  <2> QED BY <1>0, <2>1, <2>3, <2>4, <2>5, <2>6, <2>7 DEF Counted, Counts, CountsThen, Attempting
<1>4. ASSUME NEW i, Counts(i), Requeue(i), attempts' = attempts PROVE Counted'
  <2>1. UNCHANGED <<queue, attempts, fate>> /\ delayed' = delayed \cup {i} /\ hand' = NoItem
    BY <1>4 DEF Requeue
  <2> QED BY <1>0, <1>4, <2>1 DEF Counted, Counts, CountsThen
<1>5. CASE WaitForOffice
  <2>1. Counts(hand)
    BY <1>5, HandFacts DEF WaitForOffice, Counts, Attempting
  <2> QED BY <1>4, <1>5, <2>1 DEF WaitForOffice, Requeue
<1>6. CASE Failed
  <2>1. Counts([hand EXCEPT !.retries = @ + 1])
    BY <1>6, HandFacts, Retried DEF Failed, Counts
  <2> QED BY <1>4, <1>6, <2>1 DEF Failed, Requeue
<1>7. CASE TooManyRetries
  <2>1. UNCHANGED <<queue, delayed, hand, attempts, fate>> /\ worker = "deciding" /\ worker' = "fallback"
    BY <1>7 DEF TooManyRetries
  <2>2. hand.retries = MAX_RETRIES
    BY <1>7, HandFacts DEF TooManyRetries
  <2> QED BY <1>0, <2>1, <2>2 DEF Counted, Counts, CountsThen, Attempting
<1>8. CASE PlaceCall
  <2>1. UNCHANGED <<queue, delayed, hand, fate>> /\ worker = "deciding" /\ worker' = "calling"
    BY <1>8 DEF PlaceCall
  <2>2. /\ hand # NoItem /\ hand.req \in Requests /\ hand.retries \in 0..MAX_RETRIES
        /\ hand.retries < MAX_RETRIES
        /\ fate[hand.req] = "waiting" /\ attempts[hand.req] = hand.retries
    BY <1>8, HandFacts DEF PlaceCall, Attempting
  <2>3. attempts'[hand.req] = hand.retries + 1 /\ \A r \in Requests : r # hand.req => attempts'[r] = attempts[r]
    BY <1>0, <1>8, <2>2 DEF PlaceCall, TypeOK
  <2>4. \A k \in DOMAIN queue' : CountsThen(queue'[k])
    BY <1>0, <2>1, <2>2, <2>3, HandIsElsewhere, HeldAreRequests DEF Counted, Counts, CountsThen
  <2>5. \A i \in delayed' : CountsThen(i)
    BY <1>0, <2>1, <2>2, <2>3, HandIsElsewhere, HeldAreRequests DEF Counted, Counts, CountsThen
  <2> QED BY <1>0, <2>1, <2>2, <2>3, <2>4, <2>5 DEF Counted, Counts, CountsThen, Attempting
<1>9. ASSUME NEW r \in Requests, TwilioCalls(r) \/ TwilioRefuses(r) PROVE Counted'
  <2>1. UNCHANGED <<queue, delayed, hand, attempts, fate>>
    BY <1>9 DEF TwilioCalls, TwilioRefuses
  <2>2. worker' = worker \/ (worker = "calling" /\ worker' \in {"placed", "failed"})
    BY <1>9 DEF TwilioCalls, TwilioRefuses, Awaits
  <2> QED BY <1>0, <2>1, <2>2 DEF Counted, Counts, CountsThen, Attempting
<1>10. CASE Placed \/ Fallback \/ NoNumber
  <2>1. PICK f \in Fates \ {"none"} : Settle(f)
    BY <1>10 DEF Placed, Fallback, NoNumber, Fates
  <2>2. UNCHANGED <<queue, delayed, attempts>> /\ hand' = NoItem /\ fate' = [fate EXCEPT ![hand.req] = f]
    BY <2>1 DEF Settle
  <2>3. hand # NoItem /\ hand.req \in Requests
    BY <1>10, HandFacts DEF Placed, Fallback, NoNumber
  <2>4. fate'[hand.req] # "none" /\ \A r \in Requests : r # hand.req => fate'[r] = fate[r]
    BY <1>0, <2>2, <2>3 DEF TypeOK
  <2> QED BY <1>0, <2>2, <2>3, <2>4, HandIsElsewhere, HeldAreRequests DEF Counted, Counts, CountsThen
<1>11. CASE PushReady
  <2>1. PICK s \in Orders(ready) : queue' = queue \o s
    BY <1>11 DEF PushReady
  <2>2. s \in Seq(Items \cup RawItems) /\ s \in Seq(ready)
    BY <1>0, OrdersAreSequences DEF Inv
  <2>3. ready \subseteq delayed /\ delayed' = delayed \ ready /\ UNCHANGED <<worker, hand, attempts, fate>>
    BY <1>0, <1>11 DEF PushReady, TypeOK
  <2>4. \A k \in DOMAIN queue' :
          IF k <= Len(queue) THEN k \in DOMAIN queue /\ queue'[k] = queue[k]
          ELSE k - Len(queue) \in DOMAIN s /\ queue'[k] = s[k - Len(queue)]
    BY <1>0, <2>1, <2>2, ConcatEntries
  <2>5. \A k \in DOMAIN s : s[k] \in ready
    BY <2>2
  <2>6. \A k \in DOMAIN queue' : CountsThen(queue'[k])
    BY <1>0, <2>3, <2>4, <2>5 DEF Counted, Counts, CountsThen
  <2> QED BY <1>0, <2>3, <2>6 DEF Counted, Counts, CountsThen, Attempting
<1>12. CASE Stop
  <2>1. UNCHANGED <<queue, delayed, attempts>> /\ hand' = NoItem
    BY <1>12 DEF Stop
  <2>2. CASE worker \in Busy
    <3>1. hand # NoItem /\ hand.req \in Requests
      BY <2>2, HandFacts
    <3>2. fate'[hand.req] = "cut_off" /\ \A r \in Requests : r # hand.req => fate'[r] = fate[r]
      BY <1>0, <1>12, <2>2, <3>1 DEF Stop, TypeOK
    <3> QED BY <1>0, <2>1, <3>1, <3>2, HandIsElsewhere, HeldAreRequests DEF Counted, Counts, CountsThen
  <2>3. CASE worker \notin Busy
    <3>1. fate' = fate
      BY <1>12, <2>3 DEF Stop
    <3> QED BY <1>0, <2>1, <3>1 DEF Counted, Counts, CountsThen
  <2> QED BY <2>2, <2>3
<1>13. CASE Awake \/ Restart
  <2>1. UNCHANGED <<queue, delayed, hand, attempts, fate>> /\ worker \in {"sleeping", "stopped"} /\ worker' = "popping"
    BY <1>13 DEF Awake, Restart
  <2>2. hand = NoItem
    BY <1>0, <2>1 DEF TypeOK
  <2> QED BY <1>0, <2>1, <2>2 DEF Counted, Counts, CountsThen
<1>14. ASSUME UNCHANGED <<queue, delayed, worker, hand, attempts, fate>> PROVE Counted'
  BY <1>0, <1>14 DEF Counted, Counts, CountsThen, Attempting
<1>15. CASE ReadReady \/ OfficeHours \/ UNCHANGED vars
  BY <1>14, <1>15 DEF ReadReady, OfficeHours, vars
<1>16. ASSUME NEW i \in delayed, FallsDue(i) PROVE Counted'
  BY <1>14, <1>16 DEF FallsDue
<1> QED
  BY <1>1, <1>2, <1>3, <1>5, <1>6, <1>7, <1>8, <1>9, <1>10, <1>11, <1>12, <1>13, <1>15, <1>16
     DEF Next, Consumer

(***************************************************************************)
(* Calls, fates, and what is kept                                          *)
(***************************************************************************)

\* Each call was an attempt, also one that Twilio places after a stop.
LEMMA StepDialled == Inv /\ [Next]_vars => Dialled'
<1> SUFFICES ASSUME Inv, [Next]_vars PROVE Dialled'
  OBVIOUS
<1>0. TypeOK /\ Dialled
  BY DEF Inv
<1>1. ASSUME NEW r \in Requests, Enqueue(r) \/ EnqueueMissed(r) PROVE Dialled'
  <2>1. UNCHANGED <<flight, dials, attempts, worker, hand>> /\ fate[r] = "none" /\ fate' = [fate EXCEPT ![r] = "waiting"]
    BY <1>1 DEF Enqueue, EnqueueMissed
  <2>2. \A q \in Requests : fate[q] = "cut_off" => fate'[q] = "cut_off"
    BY <1>0, <2>1 DEF TypeOK
  <2>3. flight \subseteq Requests
    BY <1>0 DEF TypeOK, Requests
  <2> QED BY <1>0, <2>1, <2>2, <2>3 DEF Dialled, Awaits
<1>2. CASE PlaceCall
  <2>1. /\ UNCHANGED <<hand, dials, fate>> /\ worker = "deciding" /\ worker' = "calling"
        /\ flight' = flight \cup {hand.req}
    BY <1>2 DEF PlaceCall
  <2>2. hand.req \in Requests /\ fate[hand.req] = "waiting"
    BY <1>2, HandFacts DEF PlaceCall
  <2>3. /\ attempts'[hand.req] = attempts[hand.req] + 1
        /\ \A r \in Requests : r # hand.req => attempts'[r] = attempts[r]
        /\ \A r \in Requests : attempts[r] \in Nat /\ dials[r] \in Nat
    BY <1>0, <1>2, <2>2 DEF PlaceCall, TypeOK
  <2>4. hand.req \notin flight /\ flight \subseteq Requests
    BY <1>0, <2>1, <2>2 DEF Dialled, Awaits, TypeOK, Requests
  <2> QED BY <1>0, <2>1, <2>2, <2>3, <2>4 DEF Dialled, Awaits
<1>3. ASSUME NEW r \in Requests, TwilioCalls(r) PROVE Dialled'
  <2>1. /\ UNCHANGED <<hand, attempts, fate>> /\ r \in flight /\ flight' = flight \ {r}
        /\ (~Awaits(r) => worker' = worker)
    BY <1>3 DEF TwilioCalls
  <2>2. /\ dials'[r] = dials[r] + 1
        /\ \A q \in Requests : q # r => dials'[q] = dials[q]
        /\ \A q \in Requests : attempts[q] \in Nat /\ dials[q] \in Nat
    BY <1>0, <1>3 DEF TwilioCalls, TypeOK
  <2>3. \A q \in flight' : q \in flight /\ q \in Requests /\ q # r
    BY <1>0, <2>1 DEF TypeOK, Requests
  <2>4. \A q \in flight' : Awaits(q) => worker' = worker
    BY <2>1, <2>3 DEF Awaits
  <2> QED BY <1>0, <2>1, <2>2, <2>3, <2>4 DEF Dialled, Awaits
<1>4. ASSUME NEW r \in Requests, TwilioRefuses(r) PROVE Dialled'
  <2>1. /\ UNCHANGED <<hand, attempts, dials, fate>> /\ r \in flight /\ flight' = flight \ {r}
        /\ (~Awaits(r) => worker' = worker)
    BY <1>4 DEF TwilioRefuses
  <2>2. \A q \in flight' : q \in flight /\ (Awaits(q) => worker' = worker)
    BY <2>1 DEF Awaits
  <2> QED BY <1>0, <2>1, <2>2 DEF Dialled, Awaits
<1>5. CASE Placed \/ Fallback \/ NoNumber
  <2>1. worker # "calling" /\ UNCHANGED <<flight, attempts, dials>>
    BY <1>5 DEF Placed, Fallback, NoNumber, Settle
  <2>2. PICK f : fate' = [fate EXCEPT ![hand.req] = f]
    BY <1>5 DEF Placed, Fallback, NoNumber, Settle
  <2>3. hand.req \in Requests /\ fate[hand.req] = "waiting"
    BY <1>5, HandFacts DEF Placed, Fallback, NoNumber
  <2>4. \A q \in Requests : fate[q] = "cut_off" => fate'[q] = "cut_off"
    BY <1>0, <2>2, <2>3 DEF TypeOK
  <2>5. flight \subseteq Requests
    BY <1>0 DEF TypeOK, Requests
  <2> QED BY <1>0, <2>1, <2>4, <2>5 DEF Dialled, Awaits
<1>6. CASE Stop
  <2>1. UNCHANGED <<flight, attempts, dials>> /\ flight \subseteq Requests
    BY <1>0, <1>6 DEF Stop, TypeOK, Requests
  <2>2. CASE worker \in Busy
    <3>1. hand.req \in Requests
      BY <2>2, HandFacts
    <3>2. fate'[hand.req] = "cut_off" /\ \A r \in Requests : r # hand.req => fate'[r] = fate[r]
      BY <1>0, <1>6, <2>2, <3>1 DEF Stop, TypeOK
    <3> QED BY <1>0, <2>1, <3>2 DEF Dialled, Awaits
  <2>3. CASE worker \notin Busy
    <3>1. fate' = fate /\ worker # "calling"
      BY <1>6, <2>3 DEF Stop
    <3> QED BY <1>0, <2>1, <3>1 DEF Dialled, Awaits
  <2> QED BY <2>2, <2>3
<1>7. ASSUME UNCHANGED <<flight, attempts, dials, fate>>, worker # "calling" PROVE Dialled'
  BY <1>0, <1>7 DEF Dialled, Awaits
<1>8. CASE PopItem \/ WaitForOffice \/ Failed \/ TooManyRetries \/ Awake \/ Restart
  BY <1>7, <1>8 DEF PopItem, WaitForOffice, Failed, Requeue, TooManyRetries, Awake, Restart
<1>9. ASSUME UNCHANGED <<flight, attempts, dials, fate, worker, hand>> PROVE Dialled'
  BY <1>0, <1>9 DEF Dialled, Awaits
<1>10. CASE ReadReady \/ PushReady \/ OfficeHours \/ UNCHANGED vars
  BY <1>9, <1>10 DEF ReadReady, PushReady, OfficeHours, vars
<1>11. ASSUME NEW i \in delayed, FallsDue(i) PROVE Dialled'
  BY <1>9, <1>11 DEF FallsDue
<1> QED
  BY <1>1, <1>2, <1>3, <1>4, <1>5, <1>6, <1>8, <1>10, <1>11 DEF Next, Consumer

\* Only the fallback, after the last attempt, gives a request up; and no attempt
\* is made for one that was.
LEMMA StepGivenUp == Inv /\ [Next]_vars => GivenUpAfterAllAttempts'
<1> SUFFICES ASSUME Inv, [Next]_vars PROVE GivenUpAfterAllAttempts'
  OBVIOUS
<1>0. TypeOK /\ GivenUpAfterAllAttempts
  BY DEF Inv
<1>1. ASSUME NEW r \in Requests, Enqueue(r) \/ EnqueueMissed(r) PROVE GivenUpAfterAllAttempts'
  <2>1. attempts' = attempts /\ fate' = [fate EXCEPT ![r] = "waiting"]
    BY <1>1 DEF Enqueue, EnqueueMissed
  <2> QED BY <1>0, <2>1 DEF GivenUpAfterAllAttempts, TypeOK
<1>2. CASE PlaceCall
  <2>1. hand.req \in Requests /\ fate[hand.req] = "waiting"
    BY <1>2, HandFacts DEF PlaceCall
  <2> QED BY <1>0, <1>2, <2>1 DEF PlaceCall, GivenUpAfterAllAttempts, TypeOK
<1>3. CASE Placed \/ NoNumber
  BY <1>0, <1>3 DEF Placed, NoNumber, Settle, GivenUpAfterAllAttempts, TypeOK
<1>4. CASE Fallback
  <2>1. attempts[hand.req] = MAX_RETRIES /\ hand.req \in Requests
    BY <1>4, HandFacts DEF Fallback, Attempting, Inv, Counted
  <2>2. attempts' = attempts /\ \A r \in Requests : r # hand.req => fate'[r] = fate[r]
    BY <1>0, <1>4 DEF Fallback, Settle, TypeOK
  <2> QED BY <1>0, <2>1, <2>2 DEF GivenUpAfterAllAttempts
<1>5. CASE Stop
  <2>1. attempts' = attempts /\ \A r \in Requests : fate'[r] = fate[r] \/ fate'[r] = "cut_off"
    BY <1>0, <1>5 DEF Stop, TypeOK
  <2> QED BY <1>0, <2>1 DEF GivenUpAfterAllAttempts
<1>6. ASSUME UNCHANGED <<attempts, fate>> PROVE GivenUpAfterAllAttempts'
  BY <1>0, <1>6 DEF GivenUpAfterAllAttempts
<1>7. CASE \/ PopItem \/ WaitForOffice \/ Failed \/ TooManyRetries \/ Awake \/ Restart
           \/ ReadReady \/ PushReady \/ OfficeHours \/ UNCHANGED vars
  BY <1>6, <1>7 DEF PopItem, WaitForOffice, Failed, Requeue, TooManyRetries, Awake, Restart,
                    ReadReady, PushReady, OfficeHours, vars
<1>8. ASSUME NEW r \in Requests, TwilioCalls(r) \/ TwilioRefuses(r) PROVE GivenUpAfterAllAttempts'
  BY <1>6, <1>8 DEF TwilioCalls, TwilioRefuses
<1>9. ASSUME NEW i \in delayed, FallsDue(i) PROVE GivenUpAfterAllAttempts'
  BY <1>6, <1>9 DEF FallsDue
<1> QED
  BY <1>1, <1>2, <1>3, <1>4, <1>5, <1>7, <1>8, <1>9 DEF Next, Consumer

\* Where the entries of a queue are after a push, a pop or a promotion.
LEMMA EntriesStay ==
  ASSUME NEW S, NEW q \in Seq(S), NEW e \in S, NEW s \in Seq(S)
  PROVE  /\ \A k \in DOMAIN q : k \in DOMAIN Append(q, e) /\ Append(q, e)[k] = q[k]
         /\ Len(q) + 1 \in DOMAIN Append(q, e) /\ Append(q, e)[Len(q) + 1] = e
         /\ \A k \in DOMAIN q : k + 1 \in DOMAIN (<<e>> \o q) /\ (<<e>> \o q)[k + 1] = q[k]
         /\ q # <<>> => \A k \in DOMAIN q : k # 1 => k - 1 \in DOMAIN Tail(q) /\ Tail(q)[k - 1] = q[k]
         /\ \A k \in DOMAIN q : k \in DOMAIN (q \o s) /\ (q \o s)[k] = q[k]
         /\ \A k \in DOMAIN s : Len(q) + k \in DOMAIN (q \o s) /\ (q \o s)[Len(q) + k] = s[k]
  OBVIOUS

\* No step loses a request that waits.
LEMMA StepKept == Inv /\ [Next]_vars => RequestsAreKept'
<1> SUFFICES ASSUME Inv, [Next]_vars, NEW p \in Presses, fate'[p] = "waiting"
             PROVE  Held(p)'
  BY DEF RequestsAreKept
<1> DEFINE Waits == fate[p] = "waiting"
<1>0. /\ TypeOK /\ queue \in Seq(Items \cup RawItems)
      /\ (Waits => Held(p))
      /\ p \in Requests /\ p \notin Missed
  BY RequestsAssumption DEF Inv, TypeOK, RequestsAreKept, Requests
<1>1. ASSUME NEW r \in Requests, Enqueue(r) PROVE Held(p)'
  <2>1. Item(r, 0) \in Items \cup RawItems
    BY <1>1, RetriesAssumption DEF Enqueue, Items
  <2>2. queue' = Append(queue, Item(r, 0)) /\ UNCHANGED <<delayed, hand>> /\ fate' = [fate EXCEPT ![r] = "waiting"]
    BY <1>1 DEF Enqueue
  <2>3. CASE p = r
    BY <1>0, <2>1, <2>2, <2>3, EntriesStay DEF Held
  <2>4. CASE p # r
    <3>1. Held(p)
      BY <1>0, <2>2, <2>4 DEF TypeOK
    <3>2. \A k \in DOMAIN queue : k \in DOMAIN queue' /\ queue'[k] = queue[k]
      BY <1>0, <2>1, <2>2, EntriesStay
    <3> QED BY <2>2, <3>1, <3>2 DEF Held
  <2> QED BY <2>3, <2>4
<1>2. ASSUME NEW r \in Requests, EnqueueMissed(r) PROVE Held(p)'
  <2>1. Item(r, 0) \in Items \cup RawItems /\ p # r
    BY <1>0, <1>2 DEF EnqueueMissed, RawItems
  <2>2. queue' = <<Item(r, 0)>> \o queue /\ UNCHANGED <<delayed, hand>> /\ fate' = [fate EXCEPT ![r] = "waiting"]
    BY <1>2 DEF EnqueueMissed
  <2>3. Held(p)
    BY <1>0, <2>1, <2>2 DEF TypeOK
  <2>4. \A k \in DOMAIN queue : k + 1 \in DOMAIN queue' /\ queue'[k + 1] = queue[k]
    BY <1>0, <2>1, <2>2, EntriesStay
  <2> QED BY <2>2, <2>3, <2>4 DEF Held
<1>3. CASE PopItem
  <2>1. /\ queue # <<>> /\ queue' = Tail(queue) /\ UNCHANGED <<delayed, fate>> /\ worker = "popping"
        /\ IsJson(Head(queue)) => hand' = Head(queue)
        /\ ~IsJson(Head(queue)) => hand' = hand
    BY <1>3 DEF PopItem
  <2>2. Held(p) /\ hand = NoItem
    BY <1>0, <2>1 DEF TypeOK
  <2>3. Head(queue) = queue[1] /\ Head(queue) \in Items \cup RawItems
    BY <1>0, <2>1, Queues
  <2>4. CASE \E i \in delayed : i.req = p
    BY <2>1, <2>4 DEF Held
  <2>5. CASE \E k \in DOMAIN queue : queue[k].req = p
    <3>1. PICK k \in DOMAIN queue : queue[k].req = p
      BY <2>5
    <3>2. CASE k = 1
      <4>1. IsJson(Head(queue)) /\ Head(queue) # NoItem
        BY <2>3, <3>1, <3>2, NoItemIsNone DEF IsJson
      <4> QED BY <2>1, <2>3, <3>1, <3>2, <4>1 DEF Held
    <3>3. CASE k # 1
      <4>1. k - 1 \in DOMAIN queue' /\ queue'[k - 1] = queue[k]
        BY <1>0, <2>1, <2>3, <3>3, EntriesStay
      <4> QED BY <3>1, <4>1 DEF Held
    <3> QED BY <3>2, <3>3
  <2> QED BY <2>2, <2>4, <2>5 DEF Held
<1>4. ASSUME NEW i, i.req = hand.req, Requeue(i) PROVE Held(p)'
  <2>1. UNCHANGED <<queue, fate>> /\ delayed' = delayed \cup {i}
    BY <1>4 DEF Requeue
  <2> QED BY <1>0, <1>4, <2>1 DEF Held
<1>5. CASE WaitForOffice \/ Failed
  <2>1. CASE WaitForOffice
    BY <1>4, <2>1 DEF WaitForOffice
  <2>2. CASE Failed
    BY <1>4, <2>2, Retried DEF Failed
  <2> QED BY <1>5, <2>1, <2>2
<1>6. CASE Placed \/ Fallback \/ NoNumber
  <2>1. PICK f \in Fates \ {"waiting"} : fate' = [fate EXCEPT ![hand.req] = f]
    BY <1>6 DEF Placed, Fallback, NoNumber, Settle, Fates
  <2>2. UNCHANGED <<queue, delayed>>
    BY <1>6 DEF Placed, Fallback, NoNumber, Settle
  <2>3. hand.req \in Requests
    BY <1>6, HandFacts DEF Placed, Fallback, NoNumber
  <2>4. p # hand.req /\ Held(p)
    BY <1>0, <2>1, <2>3 DEF TypeOK
  <2> QED BY <2>2, <2>4 DEF Held
<1>7. CASE PushReady
  <2>1. PICK s \in Orders(ready) : queue' = queue \o s
    BY <1>7 DEF PushReady
  <2>2. s \in Seq(Items \cup RawItems)
    BY <1>0, OrdersAreSequences DEF Inv
  <2>3. delayed' = delayed \ ready /\ UNCHANGED <<hand, fate>>
    BY <1>7 DEF PushReady
  <2>4. Held(p)
    BY <1>0, <2>3
  <2>5. CASE \E k \in DOMAIN queue : queue[k].req = p
    <3>1. PICK k \in DOMAIN queue : queue[k].req = p
      BY <2>5
    <3>2. k \in DOMAIN queue' /\ queue'[k] = queue[k]
      BY <1>0, <2>1, <2>2, <3>1, ConcatProperties
    <3> QED BY <3>1, <3>2 DEF Held
  <2>6. CASE \E i \in ready : i.req = p
    <3>1. PICK k \in DOMAIN s : s[k].req = p
      BY <2>6 DEF Orders
    <3>2. Len(queue) + k \in DOMAIN queue' /\ queue'[Len(queue) + k] = s[k]
      BY <1>0, <2>1, <2>2, <3>1
    <3> QED BY <3>1, <3>2 DEF Held
  <2>7. CASE (\E i \in delayed' : i.req = p) \/ (hand # NoItem /\ hand.req = p)
    BY <2>3, <2>7 DEF Held
  <2> QED BY <2>3, <2>4, <2>5, <2>6, <2>7 DEF Held
<1>8. CASE Stop
  <2>1. UNCHANGED <<queue, delayed>>
    BY <1>8 DEF Stop
  <2>2. CASE worker \in Busy
    <3>1. hand.req \in Requests
      BY <2>2, HandFacts
    <3>2. p # hand.req /\ Waits
      BY <1>0, <1>8, <2>2, <3>1 DEF Stop, TypeOK
    <3> QED BY <1>0, <2>1, <3>2 DEF Held
  <2>3. CASE worker \notin Busy
    <3>1. Waits /\ hand = NoItem
      BY <1>0, <1>8, <2>3 DEF Stop, TypeOK
    <3> QED BY <1>0, <2>1, <3>1 DEF Held
  <2> QED BY <2>2, <2>3
<1>9. ASSUME UNCHANGED <<queue, delayed, hand, fate>> PROVE Held(p)'
  BY <1>0, <1>9 DEF Held
<1>10. CASE TooManyRetries \/ PlaceCall \/ Awake \/ ReadReady \/ OfficeHours \/ Restart \/ UNCHANGED vars
  BY <1>9, <1>10 DEF TooManyRetries, PlaceCall, Awake, ReadReady, OfficeHours, Restart, vars
<1>11. ASSUME NEW r \in Requests, TwilioCalls(r) \/ TwilioRefuses(r) PROVE Held(p)'
  BY <1>9, <1>11 DEF TwilioCalls, TwilioRefuses
<1>12. ASSUME NEW i \in delayed, FallsDue(i) PROVE Held(p)'
  BY <1>9, <1>12 DEF FallsDue
<1> QED
  BY <1>1, <1>2, <1>3, <1>5, <1>6, <1>7, <1>8, <1>10, <1>11, <1>12 DEF Next, Consumer

(***************************************************************************)
(* The theorems                                                            *)
(***************************************************************************)

\* All the parts of the invariant at once.
THEOREM Invariant == Spec => []Inv
<1>1. Inv /\ [Next]_vars => Inv'
  BY StepTyped, StepHeldOnce, StepCounted, StepDialled, StepGivenUp, StepKept DEF Inv
<1> QED BY InitInv, <1>1, PTL DEF Spec

\* Every variable keeps its type.
THEOREM TypeCorrect == Spec => []TypeOK
<1>1. Inv => TypeOK
  BY DEF Inv
<1> QED BY Invariant, <1>1, PTL

\* A request is never in two places, whatever is promoted or stopped.
THEOREM HeldAtMostOnce == Spec => []HeldOnce
<1>1. Inv => HeldOnce
  BY DEF Inv
<1> QED BY Invariant, <1>1, PTL

\* At most MAX_RETRIES calls for one request, lost answers and stops included.
THEOREM NobodyCalledTooOften == Spec => []NobodyIsPestered
<1>1. Inv => NobodyIsPestered
  <2> SUFFICES ASSUME Inv, NEW r \in Requests PROVE dials[r] <= MAX_RETRIES
    BY DEF NobodyIsPestered
  <2>1. dials[r] \in Nat /\ attempts[r] \in Nat
    BY DEF Inv, TypeOK
  <2>2. dials[r] <= attempts[r] /\ attempts[r] <= MAX_RETRIES
    BY DEF Inv, Dialled, Counted
  <2> QED BY <2>1, <2>2, RetriesAssumption
<1> QED BY Invariant, <1>1, PTL

\* A request is given up only after all its attempts.
THEOREM GivenUpLast == Spec => []GivenUpAfterAllAttempts
<1>1. Inv => GivenUpAfterAllAttempts
  BY DEF Inv
<1> QED BY Invariant, <1>1, PTL

\* A request of the IVR menu is held until its fate is known.
THEOREM RequestsStay == Spec => []RequestsAreKept
<1>1. Inv => RequestsAreKept
  BY DEF Inv
<1> QED BY Invariant, <1>1, PTL

=============================================================================
