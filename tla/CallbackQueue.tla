---------------------------- MODULE CallbackQueue ----------------------------
(***************************************************************************)
(* Calls back to people who asked for one: telephony/outbound_callback.py  *)
(* and the webhooks that fill its Redis list (webhooks/twilio_webhooks.py). *)
(* The consumer pops a request, asks Twilio to call, and puts a request    *)
(* that failed, or came out of office hours, into callback_delayed, from   *)
(* which promote_delayed_callbacks takes it back.  Nothing in the server   *)
(* calls that function: here it may run or not.  Redis does not fail, its  *)
(* transactions are atomic, and its data outlive the server.               *)
(***************************************************************************)
EXTENDS Naturals, Sequences, FiniteSets

CONSTANTS
  Presses,       \* requests made with the callback key of the IVR menu
  Numberless,    \* those of them whose webhook names no number to call
  Missed,        \* calls that Twilio reports busy or not answered
  MAX_RETRIES,   \* _MAX_RETRIES, 3 in the code
  NoItem,        \* the consumer's empty hand
  MaxStops       \* bound: how often the server is stopped

ASSUME RetriesAssumption == MAX_RETRIES \in Nat \ {0}
ASSUME StopsAssumption == MaxStops \in Nat
ASSUME RequestsAssumption == Presses \cap Missed = {} /\ Numberless \subseteq Presses
ASSUME NoItemAssumption == \A r \in Presses \cup Missed, n \in 0..MAX_RETRIES :
                             NoItem # [req |-> r, retries |-> n]

Requests == Presses \cup Missed

VARIABLES
  queue,         \* callback_queue: BRPOP takes its first item, LPUSH adds behind the last
  delayed,       \* callback_delayed
  due,           \* those of its items whose time has come
  ready,         \* what promote_delayed_callbacks has read
  worker,        \* where the consumer is
  hand,          \* the item it popped
  open,          \* is_office_open()
  flight,        \* requests whose call Twilio is being asked to place
  attempts,      \* how often it was asked to, by request
  dials,         \* how often it did, by request
  fate,          \* what became of a request
  stops

vars == <<queue, delayed, due, ready, worker, hand, open, flight, attempts, dials, fate, stops>>
redis == <<queue, delayed, due, ready>>
calling == <<flight, attempts, dials>>

Item(r, n) == [req |-> r, retries |-> n]

\* "waiting": asked for.  "placed": Twilio answered that it calls.  "given_up":
\* no more attempts.  "no_number": dropped, for want of a number to call.
\* "cut_off": in the consumer's hand when the server was stopped.
Fates == {"none", "waiting", "placed", "given_up", "no_number", "cut_off"}
Busy == {"deciding", "calling", "placed", "failed", "fallback"}

\* Is request r in the list, in the sorted set, or in the consumer's hand?
Held(r) ==
  \/ \E k \in DOMAIN queue : queue[k].req = r
  \/ \E i \in delayed : i.req = r
  \/ hand # NoItem /\ hand.req = r

Init ==
  /\ queue = <<>> /\ delayed = {} /\ due = {} /\ ready = {}
  /\ worker = "popping" /\ hand = NoItem
  /\ open \in BOOLEAN
  /\ flight = {}
  /\ attempts = [r \in Requests |-> 0] /\ dials = [r \in Requests |-> 0]
  /\ fate = [r \in Requests |-> "none"]
  /\ stops = 0

-----------------------------------------------------------------------------
(* The webhooks.                                                            *)

\* enqueue_callback: a JSON payload, pushed on the left.
Enqueue(r) ==
  /\ r \in Presses /\ fate[r] = "none"
  /\ queue' = Append(queue, Item(r, 0))
  /\ fate' = [fate EXCEPT ![r] = "waiting"]
  /\ UNCHANGED <<delayed, due, ready, worker, hand, open, calling, stops>>

\* call_status_callback pushes "number:sid:status", which is not JSON, on the
\* right, ahead of all who wait.  (What it does to the call's hash is in CallRecord.)
EnqueueMissed(r) ==
  /\ r \in Missed /\ fate[r] = "none"
  /\ queue' = <<Item(r, 0)>> \o queue
  /\ fate' = [fate EXCEPT ![r] = "waiting"]
  /\ UNCHANGED <<delayed, due, ready, worker, hand, open, calling, stops>>

-----------------------------------------------------------------------------
(* The consumer, callback_queue_loop.                                       *)

IsJson(i) == i.req \in Presses

\* _pop_item: what json.loads rejects is logged, and gone.
PopItem ==
  /\ worker = "popping" /\ queue # <<>>
  /\ queue' = Tail(queue)
  /\ IF IsJson(Head(queue))
       THEN worker' = "deciding" /\ hand' = Head(queue)
       ELSE UNCHANGED <<worker, hand>>
  /\ UNCHANGED <<delayed, due, ready, open, calling, fate, stops>>

\* _requeue, and the pause before the next item.
Requeue(i) ==
  /\ delayed' = delayed \cup {i}
  /\ worker' = "sleeping" /\ hand' = NoItem
  /\ UNCHANGED <<queue, due, ready, open, calling, fate, stops>>

\* Done with the item: its fate, and the pause before the next one.
Settle(f) ==
  /\ fate' = [fate EXCEPT ![hand.req] = f]
  /\ worker' = "sleeping" /\ hand' = NoItem
  /\ UNCHANGED <<redis, open, calling, stops>>

\* An item without caller_number is logged, and gone.
NoNumber == worker = "deciding" /\ hand.req \in Numberless /\ Settle("no_number")

\* _process_item, for an item with a number.
Decides == worker = "deciding" /\ hand.req \notin Numberless

\* Faulty variant: the closed office counts as an attempt.
WaitForOfficeAsRetry ==
  Decides /\ ~open /\ Requeue([hand EXCEPT !.retries = @ + 1])

\* Faulty variant: the item is forgotten.
WaitForOfficeInVain ==
  /\ Decides /\ ~open
  /\ worker' = "sleeping" /\ hand' = NoItem
  /\ UNCHANGED <<redis, open, calling, fate, stops>>

\* Outside office hours the item waits for the next opening.
WaitForOffice == Decides /\ ~open /\ Requeue(hand)

TooManyRetries ==
  /\ Decides /\ open /\ hand.retries >= MAX_RETRIES
  /\ worker' = "fallback"
  /\ UNCHANGED <<redis, hand, open, calling, fate, stops>>

\* _place_outbound_call hands the POST to a thread, which goes on when the
\* consumer is cancelled.
PlaceCall ==
  /\ Decides /\ open /\ hand.retries < MAX_RETRIES
  /\ worker' = "calling"
  /\ flight' = flight \cup {hand.req}
  /\ attempts' = [attempts EXCEPT ![hand.req] = @ + 1]
  /\ UNCHANGED <<redis, hand, open, dials, fate, stops>>

\* Does the consumer wait for Twilio's answer about r?
Awaits(r) == worker = "calling" /\ hand.req = r

\* Twilio places the call; the answer arrives, or is lost.
TwilioCalls(r) ==
  /\ r \in flight
  /\ flight' = flight \ {r}
  /\ dials' = [dials EXCEPT ![r] = @ + 1]
  /\ IF Awaits(r) THEN worker' \in {"placed", "failed"} ELSE UNCHANGED worker
  /\ UNCHANGED <<redis, hand, open, attempts, fate, stops>>

\* Twilio refuses, or is not reached.
TwilioRefuses(r) ==
  /\ r \in flight
  /\ flight' = flight \ {r}
  /\ worker' = IF Awaits(r) THEN "failed" ELSE worker
  /\ UNCHANGED <<redis, hand, open, attempts, dials, fate, stops>>

\* A call that was placed is done with, answered by the callee or not.
Placed == worker = "placed" /\ Settle("placed")

Failed == worker = "failed" /\ Requeue([hand EXCEPT !.retries = @ + 1])

\* _create_ghl_fallback_task always fails, and only logs it: no item carries a
\* GHL contact, and GHLClient has neither search_contacts nor create_task.
Fallback == worker = "fallback" /\ Settle("given_up")

\* The sleep of _BETWEEN_CALLS_SLEEP is over.
Awake ==
  /\ worker = "sleeping" /\ worker' = "popping"
  /\ UNCHANGED <<redis, hand, open, calling, fate, stops>>

-----------------------------------------------------------------------------
(* callback_delayed.                                                        *)

FallsDue(i) ==
  /\ i \in delayed \ due
  /\ due' = due \cup {i}
  /\ UNCHANGED <<queue, delayed, ready, worker, hand, open, calling, fate, stops>>

\* promote_delayed_callbacks reads the items that are due ...
ReadReady ==
  /\ ready = {} /\ due # {}
  /\ ready' = due
  /\ UNCHANGED <<queue, delayed, due, worker, hand, open, calling, fate, stops>>

\* The orders in which the elements of a set can be listed.
Orders(S) ==
  {s \in [1..Cardinality(S) -> S] :
     (\A j, k \in DOMAIN s : s[j] = s[k] => j = k) /\ \A e \in S : \E k \in DOMAIN s : s[k] = e}

\* Faulty variant: what was read is pushed, and not removed.
PushReadyOnly ==
  /\ ready # {}
  /\ \E s \in Orders(ready) : queue' = queue \o s
  /\ ready' = {}
  /\ UNCHANGED <<delayed, due, worker, hand, open, calling, fate, stops>>

\* ... and pushes them, in the order of their times, and removes them, in one
\* transaction.
PushReady ==
  /\ ready # {}
  /\ \E s \in Orders(ready) : queue' = queue \o s
  /\ delayed' = delayed \ ready /\ due' = due \ ready /\ ready' = {}
  /\ UNCHANGED <<worker, hand, open, calling, fate, stops>>

-----------------------------------------------------------------------------
OfficeHours ==
  /\ open' = ~open
  /\ UNCHANGED <<redis, worker, hand, calling, fate, stops>>

\* Faulty variant: the item in hand is put back, whatever was done about it.
StopAndPutBack ==
  /\ stops < MaxStops /\ stops' = stops + 1
  /\ worker # "stopped" /\ worker' = "stopped"
  /\ queue' = IF worker \in Busy THEN <<hand>> \o queue ELSE queue
  /\ hand' = NoItem /\ ready' = {}
  /\ UNCHANGED <<delayed, due, open, calling, fate>>

\* The server's lifespan cancels the consumer; a promotion under way ends too.
Stop ==
  /\ stops < MaxStops /\ stops' = stops + 1
  /\ worker # "stopped" /\ worker' = "stopped"
  /\ fate' = IF worker \in Busy THEN [fate EXCEPT ![hand.req] = "cut_off"] ELSE fate
  /\ hand' = NoItem /\ ready' = {}
  /\ UNCHANGED <<queue, delayed, due, open, calling>>

Restart ==
  /\ worker = "stopped" /\ worker' = "popping"
  /\ UNCHANGED <<redis, hand, open, calling, fate, stops>>

Consumer == PopItem \/ NoNumber \/ WaitForOffice \/ TooManyRetries \/ PlaceCall \/ Placed \/ Failed \/ Fallback \/ Awake

Next ==
  \/ Consumer
  \/ \E r \in Requests : Enqueue(r) \/ EnqueueMissed(r) \/ TwilioCalls(r) \/ TwilioRefuses(r)
  \/ \E i \in delayed : FallsDue(i)
  \/ ReadReady \/ PushReady \/ OfficeHours \/ Stop \/ Restart

Spec == Init /\ [][Next]_vars

-----------------------------------------------------------------------------
Items == [req : Presses, retries : 0..MAX_RETRIES]
RawItems == [req : Missed, retries : {0}]

\* Types: items carry no more retries than are allowed, a ready item is still
\* delayed, and the consumer holds an item exactly when it works on one.
TypeOK ==
  /\ queue \in Seq(Items \cup RawItems)
  /\ delayed \subseteq Items /\ due \subseteq delayed /\ ready \subseteq due
  /\ worker \in Busy \cup {"popping", "sleeping", "stopped"}
  /\ hand \in Items \cup {NoItem} /\ (hand # NoItem <=> worker \in Busy)
  /\ open \in BOOLEAN
  /\ flight \subseteq Presses
  /\ attempts \in [Requests -> Nat] /\ dials \in [Requests -> Nat]
  /\ fate \in [Requests -> Fates]
  /\ stops \in 0..MaxStops

\* A request is held once: in the list, in the sorted set or in the consumer's
\* hand.  Two copies of it would be two series of calls to the same person.
HeldOnce ==
  /\ \A j, k \in DOMAIN queue : queue[j].req = queue[k].req => j = k
  /\ \A i, j \in delayed : i.req = j.req => i = j
  /\ \A j \in DOMAIN queue, i \in delayed : queue[j].req # i.req
  /\ hand # NoItem => /\ \A j \in DOMAIN queue : queue[j].req # hand.req
                      /\ \A i \in delayed : i.req # hand.req

\* Nobody is called more than MAX_RETRIES times for one request, answers of
\* Twilio that are lost and restarts of the server included.
NobodyIsPestered == \A r \in Requests : dials[r] <= MAX_RETRIES

\* A request is given up only after all its attempts: what waits for the office
\* to open uses up none of them (telephony/outbound_callback.py:108-130).
GivenUpAfterAllAttempts ==
  \A r \in Requests : fate[r] = "given_up" => attempts[r] = MAX_RETRIES

\* Nobody is forgotten for good: after the last attempt a human is left a task
\* (telephony/outbound_callback.py:20).
\* Expected of the code, and refuted by TLC: see section 5 of the README.
HumansTakeOver == \A r \in Requests : fate[r] # "given_up"

\* A request made in the IVR menu, where the caller is told "we will call you
\* back", is held until its fate is known; a stop of the server, which forgets
\* what the consumer has in hand, and a missing number are such fates.
RequestsAreKept ==
  \A r \in Presses : fate[r] = "waiting" => Held(r)

\* The same of calls that were missed, of which the status callback logs
\* "Queuing callback".
\* Expected of the code, and refuted by TLC: see section 5 of the README.
MissedCallsAreKept ==
  \A r \in Missed : fate[r] = "waiting" => Held(r)
=============================================================================
