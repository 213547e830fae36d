------------------------------- MODULE GhlClient ---------------------------------
(***************************************************************************)
(* Everything the server asks of the CRM, GoHighLevel, passes through one  *)
(* client (crm/ghl_client.py): a circuit that opens when the credentials   *)
(* are rejected and closes by itself, and a token bucket whose lock a      *)
(* request keeps while it sleeps.  Over it run the jobs that share a       *)
(* contact and the calendar: the CRM sync at the end of a call             *)
(* (contact_manager.py); confirmation, voicemail and no-show messages with *)
(* their tags (scheduling/reminders.py); the worker's Twilio fallback and  *)
(* follow-up (logging_analytics/db_worker.py); the fetch of free slots     *)
(* with the slot cache (calendar_service.py, slot_cache.py); a booking.    *)
(*                                                                         *)
(* Time is in ticks, and the bucket holds ticks too: a request takes       *)
(* Interval of them, and one comes back with each tick.                    *)
(***************************************************************************)
EXTENDS Integers

CONSTANTS
  Clients,      \* coroutines that use the client, each with one job
  Slots,        \* times of one day's calendar
  Nobody,       \* the bucket's lock is free
  Burst,        \* capacity of the bucket
  Interval,     \* what one request takes: _MIN_INTERVAL
  RetryAfter,   \* _CRED_RETRY_AFTER
  ReadTimeout,  \* the HTTP client's read timeout
  SlotTTL,      \* _SLOT_TTL
  MaxNow        \* bound on the clock

ASSUME TimesAssumption ==
  /\ Interval \in Nat \ {0} /\ Burst \in Nat /\ Burst >= Interval
  /\ RetryAfter \in Nat /\ ReadTimeout \in Nat /\ SlotTTL \in Nat \ {0} /\ MaxNow \in Nat
ASSUME NobodyAssumption == Nobody \notin Clients
ASSUME NamesAssumption == Clients \cap Slots = {}

Never == -1     \* of an event that has not happened

Jobs     == {"sync", "firstSync", "confirm", "voicemail", "noShow", "followUp", "fallback", "slots", "book"}
Requests == {"create", "fields", "readTags", "writeTags", "note", "readConsent", "sms",
             "readStatus", "readPhone", "freeSlots", "appointment"}

VARIABLES
  now,         \* time.monotonic()
  failedAt,    \* _creds_failed_at, Never while _creds_ok
  tokens,      \* _tokens
  lastRefill,  \* _last_refill
  sleeper,     \* who sleeps inside the bucket's lock
  spent,       \* history: Interval for each request sent
  job,         \* job of each client, once it has begun
  req,         \* its current or next request
  mode,        \* where that request is
  sentAt,      \* when it was sent
  status,      \* what GHL answered
  seen,        \* what the client holds: tags or slots it read, its slot, its text
  there,       \* has GHL the contact?
  tags,        \* tags of the contact, each named by the client that adds it
  consent,     \* the contact's sms_consent
  taken,       \* when each slot was booked
  cache,       \* the day's slots in Redis and when they expire
  byGhl,       \* clients whose text GHL delivered
  fallback,    \* twilio_sms_queue
  byTwilio,    \* clients whose text Twilio delivered
  kept         \* history: tags written while nobody else was about to write

bucket  == <<tokens, lastRefill, sleeper, spent>>
clients == <<job, req, mode, sentAt, status, seen>>
contact == <<there, tags, consent, kept>>
texts   == <<byGhl, fallback, byTwilio>>
vars == <<now, failedAt, bucket, clients, contact, taken, cache, texts>>

NoSlots == [slots |-> {}, until |-> Never]

TypeOK ==
  /\ now \in Nat /\ failedAt \in Int
  /\ tokens \in Nat /\ lastRefill \in Nat /\ spent \in Nat
  /\ sleeper \in Clients \cup {Nobody}
  /\ job \in [Clients -> Jobs \cup {"none"}]
  /\ req \in [Clients -> Requests \cup {"none"}]
  /\ mode \in [Clients -> {"idle", "queued", "asleep", "flight", "answered", "done"}]
  /\ sentAt \in [Clients -> Nat]
  /\ status \in [Clients -> {"none", "ok", "refused", "unauthorized"}]
  /\ seen \in [Clients -> SUBSET (Clients \cup Slots)]
  /\ there \in BOOLEAN
  /\ tags \subseteq Clients /\ consent \in BOOLEAN /\ kept \subseteq Clients
  /\ taken \in [Slots -> Int]
  /\ cache \in [slots : SUBSET Slots, until : Int]
  /\ byGhl \subseteq Clients /\ fallback \subseteq Clients /\ byTwilio \subseteq Clients

Init ==
  /\ now = 0 /\ failedAt = Never
  /\ tokens = Burst /\ lastRefill = 0 /\ sleeper = Nobody /\ spent = 0
  /\ job = [c \in Clients |-> "none"]
  /\ req = [c \in Clients |-> "none"]
  /\ mode = [c \in Clients |-> "idle"]
  /\ sentAt = [c \in Clients |-> 0]
  /\ status = [c \in Clients |-> "none"]
  /\ seen = [c \in Clients |-> {}]
  /\ there \in BOOLEAN /\ consent \in BOOLEAN /\ (consent => there)
  /\ tags = {} /\ kept = {}
  /\ taken = [s \in Slots |-> Never]
  /\ cache = NoSlots
  /\ byGhl = {} /\ fallback = {} /\ byTwilio = {}

-----------------------------------------------------------------------------
(* The jobs, as the requests they make one after the other. *)

\* Where a job begins.
FirstRequest(j) ==
  CASE j = "sync"     -> "fields"         \* update_contact, add_tags, add_note
    [] j = "firstSync" -> "create"       \* create_contact, add_note
    [] j \in {"confirm", "voicemail"} -> "readConsent"   \* then send_sms, add_tags
    [] j = "noShow"   -> "readTags"       \* add_tags
    [] j = "followUp" -> "readStatus"     \* get_appointment, get_contact, Twilio
    [] j = "fallback" -> "readPhone"      \* get_contact, Twilio
    [] j = "slots"    -> "freeSlots"
    [] j = "book"     -> "appointment"

\* What follows an answer: the methods turn a refusal into None or False, which
\* the sync of a known contact ignores, while the other jobs end.
NextRequest(j, r, ok) ==
  CASE r = "fields"                        -> "readTags"
    [] r = "readTags" /\ ok                -> "writeTags"
    [] r = "readTags" /\ ~ok /\ j = "sync" -> "note"
    [] r = "writeTags" /\ j = "sync"       -> "note"
    [] r = "create" /\ ok                  -> "note"
    [] r = "readConsent" /\ ok             -> "sms"
    [] r = "sms" /\ ok /\ j = "confirm"    -> "readTags"
    [] r = "readStatus"                    -> "readPhone"
    [] OTHER                               -> "none"

\* _creds_available: may a request go, when the credentials failed at time f?
CredsAvailable(f) == f = Never \/ now - f >= RetryAfter

\* _get, _post and _put up to the bucket.  An open circuit raises an exception
\* that none of the jobs survives: the handlers in between read the status of
\* a response that is not there.
Request(c, r, f) ==
  IF r # "none" /\ CredsAvailable(f)
  THEN /\ mode' = [mode EXCEPT ![c] = "queued"]
       /\ req' = [req EXCEPT ![c] = r]
       /\ failedAt' = Never
  ELSE /\ mode' = [mode EXCEPT ![c] = "done"]
       /\ req' = [req EXCEPT ![c] = "none"]
       /\ failedAt' = f

Begin(c, j, holds) ==
  /\ mode[c] = "idle"
  /\ job' = [job EXCEPT ![c] = j]
  /\ seen' = [seen EXCEPT ![c] = holds]
  /\ Request(c, FirstRequest(j), failedAt)
  /\ UNCHANGED <<now, bucket, sentAt, status, contact, taken, cache, byGhl, byTwilio>>

\* A call books or ends: its contact is updated, or created when the lookup at
\* the start of the call found none, there or not; then its confirmation is sent.
EndOfCall(c, j) ==
  /\ j = "firstSync" \/ (j \in {"sync", "confirm"} /\ there)
  /\ Begin(c, j, {}) /\ UNCHANGED fallback
\* A voicemail is answered by a text; somebody who did not come is tagged, and
\* the worker later writes to them.
Follow(c, j) ==
  /\ j \in {"voicemail", "noShow", "followUp"} /\ there
  /\ Begin(c, j, {}) /\ UNCHANGED fallback
\* The times for a live caller are always fetched (force_fresh).
FetchSlots(c) == Begin(c, "slots", {}) /\ UNCHANGED fallback
BookSlot(c, s) == Begin(c, "book", {s}) /\ UNCHANGED fallback
\* The worker pops a text that GHL would not send.
PopText(c, d) ==
  /\ d \in fallback
  /\ fallback' = fallback \ {d}
  /\ Begin(c, "fallback", {d})

-----------------------------------------------------------------------------
(* The token bucket.  Who waits for the lock is served in any order here,  *)
(* first come, first served in asyncio.                                    *)

Refilled == IF tokens + (now - lastRefill) < Burst
            THEN tokens + (now - lastRefill) ELSE Burst

Send(c) ==
  /\ mode' = [mode EXCEPT ![c] = "flight"]
  /\ sentAt' = [sentAt EXCEPT ![c] = now]
  /\ spent' = spent + Interval

\* Faulty variant: the refill does not note when it was made.
AcquireUnnoted(c) ==
  /\ mode[c] = "queued" /\ sleeper = Nobody
  /\ Refilled >= Interval
  /\ tokens' = Refilled - Interval
  /\ Send(c)
  /\ UNCHANGED <<now, failedAt, lastRefill, sleeper, job, req, status, seen, contact, taken, cache, texts>>

AcquireAtOnce(c) ==
  /\ mode[c] = "queued" /\ sleeper = Nobody
  /\ Refilled >= Interval
  /\ tokens' = Refilled - Interval
  /\ lastRefill' = now
  /\ Send(c)
  /\ UNCHANGED <<now, failedAt, sleeper, job, req, status, seen, contact, taken, cache, texts>>

\* Not enough: sleep, in the lock, for what is missing.
SleepInLock(c) ==
  /\ mode[c] = "queued" /\ sleeper = Nobody
  /\ Refilled < Interval
  /\ tokens' = Refilled
  /\ lastRefill' = now
  /\ sleeper' = c
  /\ mode' = [mode EXCEPT ![c] = "asleep"]
  /\ UNCHANGED <<now, failedAt, spent, job, req, sentAt, status, seen, contact, taken, cache, texts>>

\* The time slept is spent on this request, and because _last_refill stays
\* where it was the next refill grants it again.
WakeUp(c) ==
  /\ sleeper = c
  /\ now >= lastRefill + (Interval - tokens)
  /\ tokens' = 0
  /\ sleeper' = Nobody
  /\ Send(c)
  /\ UNCHANGED <<now, failedAt, lastRefill, job, req, status, seen, contact, taken, cache, texts>>

-----------------------------------------------------------------------------
(* GHL. *)

\* A client between its reading of the tags and its writing of them.
HoldsTags(d) ==
  \/ req[d] = "readTags" /\ mode[d] = "answered" /\ status[d] = "ok"
  \/ req[d] = "writeTags" /\ mode[d] \in {"queued", "asleep", "flight"}

FreeSlots == {s \in Slots : taken[s] = Never}

Answer(c, st) ==
  /\ mode[c] = "flight"
  /\ mode' = [mode EXCEPT ![c] = "answered"]
  /\ status' = [status EXCEPT ![c] = st]
  /\ UNCHANGED <<now, failedAt, bucket, job, req, sentAt, cache, fallback, byTwilio>>

Refuses(c, st) ==
  /\ st \in {"refused", "unauthorized"}
  /\ Answer(c, st)
  /\ UNCHANGED <<seen, contact, taken, byGhl>>

Reads(c) ==
  /\ \/ req[c] = "readTags" /\ seen' = [seen EXCEPT ![c] = tags]
     \/ req[c] = "freeSlots" /\ seen' = [seen EXCEPT ![c] = FreeSlots]
     \/ req[c] \in {"readStatus", "readPhone"} /\ UNCHANGED seen
     \/ req[c] = "readConsent" /\ consent /\ UNCHANGED seen
  /\ Answer(c, "ok")
  /\ UNCHANGED <<contact, taken, byGhl>>

\* update_contact with the custom fields, sms_consent "yes" among them.
WritesFields(c) ==
  /\ req[c] = "fields" /\ there
  /\ consent' = TRUE
  /\ Answer(c, "ok")
  /\ UNCHANGED <<seen, there, tags, kept, taken, byGhl>>

NowKept(c) == IF \E d \in Clients \ {c} : HoldsTags(d) THEN kept ELSE kept \cup {c}

\* A new contact has the fields and the tags from the start.  If there is one
\* for the same person, this is a second, which no other job here uses.
Creates(c) ==
  /\ req[c] = "create"
  /\ IF there THEN UNCHANGED contact
     ELSE there' = TRUE /\ consent' = TRUE /\ tags' = {c} /\ kept' = NowKept(c)
  /\ Answer(c, "ok")
  /\ UNCHANGED <<seen, taken, byGhl>>

\* Faulty variant: the new tag replaces the old ones.
MergedNothing(c) == {c}

\* What add_tags writes over the contact's tags.
Merged(c) == seen[c] \cup {c}

WritesTags(c) ==
  /\ req[c] = "writeTags" /\ there
  /\ tags' = Merged(c) /\ kept' = NowKept(c)
  /\ Answer(c, "ok")
  /\ UNCHANGED <<seen, there, consent, taken, byGhl>>

Delivers(c) ==
  /\ req[c] \in {"sms", "note"}
  /\ byGhl' = IF req[c] = "sms" THEN byGhl \cup {c} ELSE byGhl
  /\ Answer(c, "ok")
  /\ UNCHANGED <<seen, contact, taken>>

Books(c) ==
  /\ req[c] = "appointment"
  /\ \E s \in seen[c] \cap FreeSlots : taken' = [taken EXCEPT ![s] = now]
  /\ Answer(c, "ok")
  /\ UNCHANGED <<seen, contact, byGhl>>

\* The contact answers STOP.
StopReply ==
  /\ consent
  /\ consent' = FALSE
  /\ UNCHANGED <<now, failedAt, bucket, clients, there, tags, kept, taken, cache, texts>>

-----------------------------------------------------------------------------
(* The clients go on. *)

\* Faulty variant: the entry never expires.
CacheForGood(c) ==
  IF seen[c] = {} THEN cache ELSE [slots |-> seen[c], until |-> MaxNow + SlotTTL + ReadTimeout]

\* cache_slots: the day's entry is replaced and expires anew; nothing is stored
\* when nothing was found.
CacheSlots(c) ==
  IF seen[c] = {} THEN cache ELSE [slots |-> seen[c], until |-> now + SlotTTL]

\* _send_twilio_sms_sync, for the text popped, if any; a failure is logged.
TwilioSends(c) == byTwilio' \in {byTwilio, byTwilio \cup seen[c]}

\* What a client does with its answer before it asks for more.
Used(c, ok) ==
  /\ \/ ok /\ req[c] = "freeSlots" /\ cache' = CacheSlots(c)
     \/ ok /\ req[c] = "appointment" /\ cache' \in {cache, NoSlots}  \* a failed DELETE is logged
     \/ ~(ok /\ req[c] \in {"freeSlots", "appointment"}) /\ UNCHANGED cache
  /\ fallback' = IF req[c] = "sms" /\ ~ok THEN fallback \cup {c} ELSE fallback
  /\ IF req[c] = "readPhone" /\ ok THEN TwilioSends(c) ELSE UNCHANGED byTwilio

\* _mark_creds_failed keeps the time of the first failure.
MarkedFailed(c) ==
  IF status[c] = "unauthorized" /\ failedAt = Never THEN now ELSE failedAt

Resume(c) ==
  /\ mode[c] = "answered"
  /\ Used(c, status[c] = "ok")
  /\ Request(c, NextRequest(job[c], req[c], status[c] = "ok"), MarkedFailed(c))
  /\ UNCHANGED <<now, bucket, job, sentAt, status, seen, contact, taken, byGhl>>

\* Faulty variant: a lost answer counts as a refusal of the text.
LostIsRefused(c) ==
  /\ mode[c] \in {"flight", "answered"}
  /\ mode' = [mode EXCEPT ![c] = "done"]
  /\ fallback' = IF req[c] = "sms" THEN fallback \cup {c} ELSE fallback
  /\ UNCHANGED <<now, failedAt, bucket, job, req, sentAt, status, seen, contact, taken, cache, byGhl, byTwilio>>

\* A timeout or a broken connection, whether GHL did what it was asked to or
\* not, is an exception that ends the job.
Lost(c) ==
  /\ mode[c] \in {"flight", "answered"}
  /\ mode' = [mode EXCEPT ![c] = "done"]
  /\ UNCHANGED <<now, failedAt, bucket, job, req, sentAt, status, seen, contact, taken, cache, texts>>

\* The follow-up finds that the appointment was kept after all.
AppointmentKept(c) ==
  /\ mode[c] = "answered" /\ req[c] = "readStatus" /\ status[c] = "ok"
  /\ mode' = [mode EXCEPT ![c] = "done"]
  /\ UNCHANGED <<now, failedAt, bucket, job, req, sentAt, status, seen, contact, taken, cache, texts>>

\* Time passes; what has expired is gone, and no request outlives the timeout.
Expired(t) == IF cache.until <= t THEN NoSlots ELSE cache
Tick ==
  /\ now < MaxNow
  /\ \A c \in Clients : mode[c] \in {"flight", "answered"} => now < sentAt[c] + ReadTimeout
  /\ now' = now + 1
  /\ cache' = Expired(now + 1)
  /\ UNCHANGED <<failedAt, bucket, clients, contact, taken, texts>>

GhlStep(c) ==
  \/ (\E st \in {"refused", "unauthorized"} : Refuses(c, st))
  \/ Reads(c) \/ WritesFields(c) \/ Creates(c) \/ WritesTags(c) \/ Delivers(c) \/ Books(c)

ClientStep(c) ==
  \/ (\E j \in {"sync", "firstSync", "confirm"} : EndOfCall(c, j))
  \/ (\E j \in {"voicemail", "noShow", "followUp"} : Follow(c, j))
  \/ FetchSlots(c) \/ (\E s \in Slots : BookSlot(c, s)) \/ (\E d \in Clients : PopText(c, d))
  \/ AcquireAtOnce(c) \/ SleepInLock(c) \/ WakeUp(c)
  \/ Resume(c) \/ AppointmentKept(c) \/ Lost(c)

Next == Tick \/ StopReply \/ \E c \in Clients : ClientStep(c) \/ GhlStep(c)

Spec == Init /\ [][Next]_vars

-----------------------------------------------------------------------------
(* Properties. *)

\* The bucket's promise, as far as it goes: beyond the burst the server sends
\* at most two requests per interval.  The comment on the bucket, and GHL's
\* limit, say one: the sleep of a request counts twice (WakeUp).
RateBound == spent <= Burst + 2 * now

\* A booked slot leaves the cache at the latest when the fetch that could still
\* have seen it free has timed out and its entry has expired, whatever fills and
\* invalidations overtake each other.
StaleSlotsExpire ==
  \A s \in cache.slots : taken[s] # Never => now < taken[s] + ReadTimeout + SlotTTL

\* add_tags reads, merges and writes.  Whatever the jobs do at the same time, a
\* tag is lost only if another job had read the tags before it was written.
LoneTagsSurvive == kept \subseteq tags

\* No text is sent by GHL and by Twilio both, though answers get lost: only an
\* answer that refuses makes the fallback send it.
TextedOnce == byGhl \cap (fallback \cup byTwilio) = {}
=============================================================================
