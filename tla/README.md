# Aria, the AI receptionist: a TLA+ verification project

Aria is a Python server (FastAPI, one asyncio process) that answers the phone of
an immigration law office. Twilio streams the audio of a call to a WebSocket, Deepgram
transcribes it, a language model answers, ElevenLabs speaks the answer. During
the call it books consultations in GoHighLevel (GHL); afterwards it records the
call in Supabase through queues in Redis. People also write, in a chat widget and on
social channels, and get answers from a knowledge base. This directory holds TLA+ models of
its state machines, the TLC runs that check them on small instances, and proofs
of their central properties for instances of any size. All paths below are
under `src/`.

## 1. Inventory

| Component | Code | State it keeps | What is hard about it |
|---|---|---|---|
| Call session | `app/voice/websocket_handler.py`, `stt_deepgram.py` | flags of one call (`_call_active`, `_is_speaking`, `_barge_in_flag`, `_silence_warned`), transcript queue, timers | three tasks, callbacks of Deepgram and several streams of speech interleave at every `await` and share the flags; anything may be cancelled |
| Slot booking | `websocket_handler.py:637-831`, `app/scheduling/calendar_service.py`, `google_calendar.py`, `app/crm/ghl_client.py` | offered slots and booked slot of a call; `slot_lock:*` in Redis with a lease; appointments in GHL; mirror in Google Calendar | two callers and one slot; lost answers; a lease that lapses; hang-up at each `await` |
| Finalisation and persistence worker | `websocket_handler.py:834-953`, `app/logging_analytics/{call_logger,db_worker,cost_tracker,structured_logger}.py`, `app/crm/contact_manager.py`, `app/webhooks/twilio_webhooks.py` | the call's Redis hash, `db_sync_queue`, `analytics_events`, dead-letter lists, Supabase rows | three writers of one row in two queues, a status callback at any moment, failing writes, death of the process |
| Callback queue | `app/telephony/outbound_callback.py`, `twilio_webhooks.py` | `callback_queue`, `callback_delayed`, retries | two producers, a delay set, calls whose answer is lost, restarts |
| LLM agent, signals, phases | `app/agent/*.py` | phase, language, intake answers, scores | signals are cut out of streamed text; phase of the agent and phase of the state differ |
| Conversation state and context | `app/voice/conversation_state.py`, `context_manager.py` | phase, window of turns, summary | compression by a background task while turns are added; cancellation in the middle |
| Resilience | `app/crm/ghl_client.py`, `app/voice/resilience.py` | credentials circuit, token bucket | a request sleeps inside the bucket's lock; rejected credentials stop everybody for a while. `CircuitBreaker` is used by no code |
| Speech services | `app/voice/tts_*.py`, `audio_utils.py` | caches | external services |
| Routing, admission, lifecycle | `app/telephony/call_router.py`, `twiml_responses.py`, `app/main.py` | accepting flag, semaphore, active calls, background tasks | shutdown races with calls that arrive and calls that end |
| Transfers and voicemail | `app/telephony/{call_transfer,voicemail}.py` | a row per voicemail | one of several steps fails |
| CRM | `app/crm/*.py`, `app/webhooks/ghl_webhooks.py` | contacts and tags in GHL, contact cache in Redis | tags are read, merged and written back; requests are limited, refused or lose their answer |
| Slot cache and reminders | `app/scheduling/{slot_cache,reminders}.py`, `db_worker.py` | `slots:*` in Redis, `twilio_sms_queue` | a fill that races with an invalidation; a text sent two ways |
| Text chat | `app/chat/*.py` | `chat_session:*`: token, phase, turns | several WebSockets read, change and write back one value |
| Social channels | `app/social/*.py` | `social_ctx:*`: history, language | one task for each message, over one value |
| Knowledge base (RAG) | `app/rag/*.py`, `scripts/backfill_rag.py` | documents, chunks, vectors, caches | ingestions by the application, by administrators and by a script that may be run again; parents and children of chunks |
| Post-call analytics | `app/logging_analytics/{call_logger,structured_data,sentiment_scorer}.py` | none | parsing of model output; what it ingests belongs to the knowledge base |
| Dashboard, compliance | `app/dashboard/router.py`, `app/compliance/middleware.py` | login sessions | mostly read-only |
| Schema, configuration | `app/database/`, `app/config.py`, `app/dependencies.py` | shared clients | none |

How they interact. A Twilio webhook answers a call with the address of the
WebSocket; its handler takes a place in a semaphore and runs the call session.
The session calls the agent, which calls RAG and OpenAI, and speaks through the
speech services. A signal in the agent's reply starts booking, transfer or the
end of the call. Finalisation writes to GHL and queues payloads in Redis, from which one
background worker fills Supabase; the status webhook queues payloads
too. The pipeline after a call, a nightly task, the administrator and a script fill the knowledge
base, from which calls and chats retrieve. The callback consumer and the worker are tasks of the same process, which
shutdown cancels. Everything shares one Redis, and that is how tasks and
processes see each other's state.

What makes each part correct:

- *Session*: it listens whenever it is silent; every call ends, is finalised
  once, and nothing changes under finalisation; it hangs up for silence only on the
  silent; signals of the model have their effect.
- *Booking*: what is recorded is booked and what is booked is recorded, a confirmation makes one appointment as long as answers
  arrive, whose offered slots all fail is offered others, the lock excludes and is always freed.
- *Records*: every call leaves its full record, no claim in it is false, real data is
  never overwritten by placeholders, no payload disappears.
- *Callbacks*: no request is lost, nobody is called too often, none is given up before its last attempt.
- *CRM*: requests keep to a rate, tags are not lost, a text is sent once, a booked slot does not stay
  in the cache.
- *Context*: what the agent is told is the latest part of the call, whole and in order; no words answer two questions.
- *Front door*: every place is given back, shutdown ends and cuts off nobody it could have waited for,
  a message left is queued.
- *Knowledge*: what is searched is what was written, a pass covers everything and repeats nothing, old versions go.
- *Chat, social*: an acceptance spends the token, turns stay in order with their replies, no passage is quoted twice.

`PROJECT.json` lists the components with their status, every hazard with its line
and the properties that cover it, and for each definition the lines it models.

## 2. The modules

### AppointmentBook, BookingFlow, MCBookingFlow, BookingProofs

`AppointmentBook` is what booking promises: GHL holds appointments (slot, caller),
a caller is told only of appointments that GHL holds, and a slot never has two callers.

`BookingFlow` is the code. One process per call goes through `pc`: a slot is offered
(`OfferSpoken`), confirmed (`ConfirmSlot`), matched and looked up, and then for each candidate
`SET NX EX` (`AcquireLock`), `POST` (`SendPost`), GHL's answer (`ReadReply`, `PostTimeout`), the
Google mirror (`Mirror`), and in one uninterrupted stretch the `finally: DELETE` with the recording of
the slot (`Release`). When no candidate is left, `Refetch` searches the times that are free now and speaks, of other slots or of none;
a search that raises (`RefetchFails`) leaves the handler without a word, as do a caller without a contact (`EagerContact`) and a confirmation
of nothing (`NothingOffered`). `lost`, for the properties only, has the POSTs whose answer never came. The other parties are
GHL, which books or refuses a POST at any later moment and whose answer may be lost
(`GhlBooks`, `GhlRefuses`), the office that books by hand (`OfficeBooks`), Redis which expires
leases (`LockExpires`), the caller who hangs up (`HangUp`), and the process (`Crash`). Faults are
switched by constants: lost answers, drops, and whether a lease outlives a booking.

### CallSession, CallSessionProofs

One call. `main` is the coroutine `_run_call`, `audio`, `llm` and `guard` its three
tasks, `streams` the streams of speech in flight, each with its reason. The callbacks of
Deepgram (`CallerSpeaks`, `Transcript`, `EchoHeard`, `UtteranceEnds`) run between
them; the SDK awaits one handler at a time, so a transcript that waits for "please repeat" to be
spoken delays the next (`Delivering`). A stream of speech starts by setting `_is_speaking` and
clearing `_barge_in_flag`, goes on until the audio is sent, the caller interrupts or it is cancelled, and clears
`_is_speaking` on all these paths. `Wake` is `asyncio.wait(FIRST_COMPLETED)` with the cancellation of
the rest; `ServerCancels` is the shutdown of the server, which cancels only the handler's task and so
leaves the three sub-tasks running (`cut` notes that it happened). A booking handler says something (`SpeakResult`) or returns
silently (`ServedSilently`).

### CallRecord, CallRecordProofs

What is kept of calls. Per call the pipeline of `_finalize_call` with its order of
queueing (`SyncCallToCrm`, `LaunchPipeline`, `PersistCost`, `MarkEnded`, `LogCallEnded`), the status
callback (`StoreStatus`, `CheckEnded`, `QueueSkeleton`), the two queues that concern a call's rows, and the worker with
its pop and its write (`PopDb`, `HandleDbSync`, `UpdateCallLog`, `PopEvent`, `WriteFails`). A row is
abstracted to whether its scores are real, whether it has an appointment, and its outcome. The outcome "transferred_to_staff"
(`db_worker.py:153-154`) never occurs: nothing sets `transferred_at`.

### CallbackQueue, CallbackQueueProofs

The list of callback requests: the two webhooks that push (`Enqueue`, `EnqueueMissed`),
the consumer (`PopItem`, `WaitForOffice`, `TooManyRetries`, `PlaceCall`, `Placed`, `Failed`, `Fallback`),
Twilio, which places a call and whose answer may be lost, office hours, shutdown, and the promotion of delayed
items. Requests in `Numberless` name no number; the consumer drops them (`NoNumber`). No code of the repository calls `promote_delayed_callbacks`; it is
an action without fairness, so the properties hold whether or not somebody runs it.

### Conversation, ConversationProofs

What a call remembers, along the reply loop: the caller's words (`CallerTurn`) go to the window of
`ContextManager`, which may have to be compressed first (`Compressed`, `CompressionFails`), and to the agent's history;
the agent puts the next question of the intake (`Ask`), its reply is read, cut or withheld (`ReplyRead`, `ReplyCut`), the words
are tried as an answer (`NoteAnswer`), the state is saved, and the extraction after the call computes the score (`Finalize`).
`HangUp` may come at every await. A turn is who spoke in which round, so what is asked is which turns are where.

### GhlClient, GhlClientProofs

Everything that is asked of GHL passes one client: a credentials circuit and a token bucket whose lock a request keeps while
it sleeps. A client of the model is a coroutine with one job (CRM sync, confirmation, voicemail and no-show messages, the
worker's follow-up and Twilio fallback, the fetch of free slots with its cache, a booking), and a job is the sequence of
requests it makes (`NextRequest`). All jobs are about one person, whose contact may be `there` or be created by the sync of a
first call (`Creates`). GHL answers, refuses, rejects the credentials or does what it is asked and loses the answer. Time is
in ticks; the bucket counts them, caches expire by them.

### FrontDoor, FrontDoorProofs

How calls come in and how the server goes down: webhooks and the keypad menu (`InboundVoice`, `IvrMenu`, `PressDigit`, ...), the
WebSocket's admission with semaphore and `_active_calls` (`Admit`, `Refuse`, `CallEnds`, `Return`), the voicemail from
recording to row, and the lifespan coroutine (`Shutdown`, `DrainDone`, `DrainTimeout`, `StopWorkers`, `Exit`). A call itself is
`CallSession`; here it talks, finalises and returns, or is cut.

### Knowledge, MCKnowledge

How the knowledge base is filled. A job is a call of `ingest_document`: look for a duplicate (`FindsDuplicate`), cut, enrich and embed
(`Prepares`), read the versions of the title (`SelectsVersions`), replace them (`Inserts`), each step with its awaits
between. Jobs are begun by the application (`AggregateIntakePatterns`, `IngestTranscript`, `IngestCallerProfile`,
`AdminIngests`, `SyncPrompts`) and by passes of the backfill script over its eight sources (`PassStarts`, `Takes`, `NextSource`), which
may be killed. A transcript has one content but possibly two titles: the application dates it by `started_at` and leaves out a missing
outcome (`ingestion.py:199-203`), the script dates it by `created_at` and writes "unknown" (`backfill_rag.py:182-186`). Cutting is a recursive function over the sizes of sentences
(`Cut`, `CutStep`), parents and children are listed as `ingest_document` lists them (`Chunks`), and a vector is the text it stands for.

### Retrieval, Turns, Chat, Social, MCWritten, WrittenProofs

`Retrieval` holds operators only: which rows a retrieval may return when ranks and scores are free - fusion of the
searches, the other language's rows when there are few, reranking, the gate, MMR, parents in the place of their children - and what of them gets
into a prompt. `Turns` has the turns of a written conversation. `Chat` is the widget: WebSockets of one session that connect with
its token (`Connects`, `Accepts`), append the question (`ReadsForQuestion`, `WritesQuestion`), retrieve, answer, append the
answer and perhaps change the phase, each time reading and writing the whole session. `Social` is one task for each message:
`Loads`, `Replies`, `SavesContext`. `MCWritten` puts `Chat` and `Social` side by side; as they share no variable and no property is about both, its
constraint lets one of them move at a time. `WrittenProofs` holds the proofs about them and about `Knowledge`. What it
reasons about by induction (`Resolved`, `Cut`, `Chunks`) is written as a recursive function.

## 3. The runs

| Run | Bounds | What it shows |
|---|---|---|
| `BookingReliable` | 2 callers, 2 slots, 2 confirmations each, drops and crashes, no lost answers, lease outlives booking | the lock excludes and is always freed, GHL's appointments are the recorded ones, and a caller whose offered slots all fail gets another search and its result, unless the search raises or the call ends |
| `BookingFaults` | 2 callers, 2 slots, 1 confirmation each, every fault, the lease lapses | nothing is recorded that GHL does not hold; of two appointments for one confirmation the answer to one was lost; BookingFlow implements AppointmentBook |
| `BookingLapsedLock` (violation) | 2 callers, 1 slot, 1 confirmation, nothing lost, the lease lapses | a lease that lapses lets two callers book one slot at a time, against the docstring of `_handle_booking_confirmed` |
| `Session` | 3 utterances, both duration limits, the server may stop | the agent is never left deaf, nothing moves under finalisation unless the server cancelled the call, nobody is hung up on for silence unasked, an ended call is finalised, every call ends |
| `RecordFaults` | 1 call, failing writes, a dying process | the record tells the truth, real data survives, no payload vanishes, every call is recorded |
| `Callbacks` | 3 requests, one of them without a number, 1 missed call, 3 retries, 2 stops | a request is held once and kept, nobody is called more than 3 times, a request is given up only after all attempts |
| `Conversation` | 4 rounds, window of 3 turns, blocks of 2, 3 questions | the context is the latest part of the call, only a hang-up loses turns and one block of them, the agent's history knows what the context knows, answers come in the order of the questions |
| `GhlClient` | 2 clients with any jobs, 2 slots, 4 ticks | the rate is bounded, a stale slot leaves the cache, a lone tag survives, a text goes out once |
| `FrontDoor` | 3 calls, 2 places, hours before, in and after office hours | no place is lost, only late calls are cut, shutdown ends, a message left is queued |
| `Knowledge` | a prompt file, a call, a case type, two callers with one name, 2 passes, one event of the application, one failure | chunks and vectors fit their text, an undisturbed pass covers every source, a re-run adds nothing, a lone ingestion removes every older version |
| `Written` | 2 WebSockets, 2 questions, 2 faults; 3 messages of a social conversation, 2 faults; 2 passages of two rows | nobody who reads the session after an acceptance is accepted with its token, turns without overlap are kept in order, replies follow their messages under any overlap, the model reads no passage twice |
| `ChatToken` (violation) | the same, with one message | two WebSockets that overlap are both accepted with one token, against "single-use" (`chat/router.py:1012`, :1063) and "one-time" (:12) |

Why the bounds are enough. Bookings of different slots meet only in a caller's list of candidates, so two
slots and two callers have every collision, and the office is a third party. Three utterances are what the low-confidence handoff takes
(`stt_deepgram` asks twice and hands over the third time). Calls share nothing in `CallRecord` but the
FIFO queues and the worker, so one call with its five payloads has the races of its row; the theorems cover any
number. In `CallbackQueue` two requests with a number are enough for the list's order to matter, and two stops for
a restart to meet what an earlier one left. `Conversation` fills its window twice and compresses between two rounds and at the last.
In `GhlClient` two jobs are what an interleaving of a read and a write takes, and the clock is long enough for a bucket to run dry and refill, a
circuit to close and a cache to expire. In `FrontDoor` the third call is the one for which there is no place. `Knowledge` has one document of each shape of
source - with and without a count in its title, gathered and sequential, shared titles, two titles for one content - and the second pass meets what the first left. In `Written`
two WebSockets give every overlap of two openings and two handlers, histories are longer than what is kept, and a passage with one child is
the smallest that may be quoted twice. Every cfg disables the deadlock check: calls
end, bounded numbers of confirmations and utterances run out, and the system rightly comes to rest.

`BookingLapsedLock` and `ChatToken` are disagreements between comments and the code; `PROJECT.json` quotes both sides. Section 5 lists the others, with
the formula that TLC refutes.

### Fairness

Only `BookingReliable`, `Session`, `RecordFaults` and `FrontDoor` state any, and all of it is weak.

- *asyncio's tasks*: a task that can run is run, as the event loop is a FIFO of ready callbacks. No fairness is assumed of
  the caller (speaking, hanging up), of the office, of crashes.
- *GHL and Redis expiry* (booking): a POST is answered or times out (`app/dependencies.py:36`), a lease is 30 s.
- *the duration guard* (`CallIsBounded`): `asyncio.sleep` returns. It is the premise of the property, not part of the
  specification, as `EndedCallIsFinalized` holds without it.
- *the lifespan coroutine and the voicemail tasks* (front door): the event loop runs them, the drain has a timeout of 30 s, and
  so has every request of the pipeline. Calls may talk for ever.
- *the worker* (records): it pops and sleeps in a loop; an exception only makes it sleep a second longer.

## 4. The proofs

TLAPS checks all of these for every value of the constants; the assumptions on the constants are the `ASSUME`s of the
modules, which TLC evaluates in the runs.

- **Booking** (`BookingProofs`). `TypeCorrect`; `LockExcludes` and `LockIsReturned`, under the switch that the lease outlives a booking;
  `RecordedAreBooked`, `MirrorsAreBooked`, and `FlowImplementsBook`, with every fault. Mutual exclusion is not inductive
  as it stands: two callers inside `book_appointment` is excluded only since each holds the lock. The invariant therefore says
  that a call between `SET` and `DELETE` owns the lock of the slot it posts, from which exclusion follows, a lock
  having one owner. "Recorded is booked" needs that whoever is past the answer of GHL, mirroring or releasing with success, has an appointment
  there; refinement follows by mapping every step to `Take`, `Tell` or a stutter.
  `BookedTwiceOnlyIfLost` and `BookingsAreRecorded` hold with every fault, lost answers included: they except the appointments whose
  answer was lost, and TLC refutes both without the exception.
  Their common invariant, `OnceInv`, numbers attempts by caller and confirmation: a POST that is on its way belongs to the
  confirmation its caller is at and was not booked, nor was one still to be sent, so what GHL books is the first of its number;
  and no appointment has a number the caller has not reached, so that the next confirmation starts with none. An appointment of a caller
  who is still looking, or who has recorded another, is one whose answer was lost (`StraysAreLost`). Whoever is back at
  "idle" or "offering" went through `Release`, which recorded what was booked.
- **Session** (`CallSessionProofs`). `NeverDeaf`: `_is_speaking` implies a stream in flight; the induction needs that a stream that ends
  clears the flag on each path. `FinalizesAlone`: past `asyncio.wait`, the tasks are done; the property itself excepts the call that the server cancelled.
  `SilenceIsAnnounced`: a call that says goodbye for silence has asked since it last took words from the queue. `TypeCorrect`.
- **Records** (`CallRecordProofs`). `RealDataSurvives`: an action property, from the type invariant and the definition of an upsert.
  `RecordTellsTruth`: the invariant says of every payload, wherever it is, that a full one of a booked call is the
  only one with an appointment. `PayloadsAreKept`: what finalisation queued is in a queue, in hand, dead-lettered or
  in its row. `TypeCorrect`.
- **Callbacks** (`CallbackQueueProofs`). `TypeCorrect`, `HeldAtMostOnce`, `NobodyCalledTooOften`, `GivenUpLast` and
  `RequestsStay`. That the number of calls is bounded is not inductive: the invariant counts, for each held item, its retries as the
  attempts made (one less while an attempt is under way), needs for that that a request is held once, and that
  a call that Twilio may still place is the one the consumer waits for or one that a stop cut off.

- **Conversation** (`ConversationProofs`). The context is the latest part of the call: the invariant splits what was said at the compression under
  way, and lemmas about suffixes carry it through adding, compressing, restoring and hanging up. `AgentKnowsTheCall` needs where the loop is;
  `OneAnswerPerUtterance` needs that the questions answered are the first ones, the last of them before this round.
- **GHL client** (`GhlClientProofs`). `RateIsBounded` is about what the bucket holds plus what was spent plus twice the time of
  its last refill; `StaleSlotsGo` follows a slot from GHL's answer through the fetch in flight into the cache; `TagsSurvive` and `TextsGoOnce` from who
  holds what between reading and writing, and between a text and its fallback.
- **Front door** (`FrontDoorProofs`). `PlacesAreKept` with the cardinality of the active calls; `OnlyLateAreCut` from where a call may be at each
  stage of the shutdown.
- **Knowledge** (`WrittenProofs`, sections 1 and 2). `LoneIngestsHeal`: what a job has selected while nobody overlapped it is every version of its
  title, until it inserts. `PassCovers`: of a pass that nothing disturbs the invariant says that each document of the sources behind it is
  kept, and each of the source it is at is kept, in an ingestion, or still to be taken. An ingestion replaces documents of its own title, so the others
  stay; a duplicate found by content need not have the title of the script, but only a transcript may have another (`Titled`), which is
  the title of no document of a source (`ContentGivesTitle`); and only callers share titles (`SourcesApart`). `RerunIsSafe`: besides, such a pass ingests each title once at a time, so its transactions have seen every
  version; and after a complete pass there is one with the title, since titles do not depend on the order in which sets are listed (`TitlesAgree`), or
  one with the content, which the check for duplicates finds. Nothing
  is assumed of the batch, the limits or the documents.
- **A document and its chunks** (`WrittenProofs`, section 3). `ChunksFitTheirText`: the spans done so far fill the sentences up to the one at
  which the open chunk begins, whose tokens are the difference of two sums (`Cutting`); so a cut is a partition (`CutFills`,
  `FillsPartition`). The chunks of a text are the families of its parents, each known by parent and span, and families have no chunk in common (`ChunksAre`).
  An index that is not cached has a place of its own in OpenAI's answer (`NthIs`), so each text gets its own vector, whatever was in
  the cache (`VectorsAre`). The invariant then only says that what a job carries to `_persist` fits its text. The inductions over
  sentences and over parents are made by a least one at which they would fail, and so is the existence of each recursive function.
- **What a prompt holds** (`WrittenProofs`, section 5). `PromptsAreDistinct`: each stage of a retrieval keeps rows distinct, as a list of a set, a
  part of it, or the rearrangement of `LostInMiddle`. Parents in the place of children take an induction over `Resolved`, which
  is made here by a least row at which it would fail; the recursive function exists by the same argument (`TakenExists`).
- **The widget** (`WrittenProofs`, sections 4 and 6). `AcceptedSpendsToken`: once somebody was accepted, neither the session nor any copy of it that an
  accepted handler is about to write has a token. `SessionKeepsTurns`: what the one accepted handler is about to write continues what was written last, for
  which `LastTurnsOfAppend` says that cutting before or after an append is one.
- **Social channels** (`WrittenProofs`, section 7). `ThreadKeepsPairs`: contexts and the copies tasks hold are made of pairs, an even number of
  turns is kept, and so no pair is cut.

Only model-checked: liveness (`OfferedSlotsAnswered`, `SlotLockFreed`, `EndedCallIsFinalized`, `CallIsBounded`,
`EveryCallIsRecorded`, `ShutdownEnds`, `LeftMessageIsQueued`), as the prover handles neither fairness nor `ENABLED`. Every safety
property that a passing run checks, invariant, action property or refinement, is also a theorem.

## 5. Assumptions and abstractions

- Redis does not fail; a single command or `MULTI` is atomic. asyncio switches tasks only at an `await`.
- Cancellation of a task takes effect at its `await`, without delay: between `cancel()` and the `CancelledError` no other
  step of that task runs.
- Times are nondeterministic choices ("15 s of silence have passed"); only their order matters, except in `GhlClient`, where the clock that
  refills the bucket counts.
- What the caller or the model says is a set of signals and the fact that words were said.
- The web server itself (uvicorn) is outside `src/`: shutdown is modelled as `lifespan` writes it, and `FrontDoor` lets it
  begin while calls run.
- `CallRecord` leaves out busy and unanswered calls and the payload that an eager contact sync queues during
  the call (`websocket_handler.py:693`), which carries a lead score of 0.
- Properties that hold only while the process lives say so: `LPOP` and `BRPOP` take an item away before it is dealt with.
- `Knowledge`: documents differ in content wherever they differ in version, as an identical transcript is skipped by its hash; a version
  that is deleted and written again, unchanged, between another job's `SELECT` and `DELETE` is not told apart; quality
  scores, metadata and expiry are left out.
- `Retrieval`: what a search returns, its ranks and its scores are free; the cache of embeddings expires all at once.
- `Chat`: the rate limit, the wording and the read-only queries of staff are left out; a cached result yields no context (see below), and
  prefetching does nothing but fill that cache.

### Disagreements TLC finds

`BookingLapsedLock` and `ChatToken` are kept as runs. The formulas below are in the modules too, each marked as refuted; add one as an
`INVARIANT` or `PROPERTY` to the configuration named and TLC shows the behaviour.

| Formula | Configuration | The code | What the repository says |
|---|---|---|---|
| `RejectedIsNotBooked` | `BookingFaults` | a booking whose answer is lost is taken for a rejection (`websocket_handler.py:778`) and the next slot is tried, so that one confirmation makes two appointments | "GHL rejected booking for slot … - trying next" (:798) |
| `SignalsReachCheckSignals` | `Session` | a line that is only a signal is withheld (`llm_agent.py:209`), together with its signal | "Pipeline picks this up via check_signals()" (:398) |
| `BookingOutcomeIsKept` | `RecordFaults` | Twilio's status may be handled before the session's end is, and then writes a row without the outcome (`twilio_webhooks.py:148`) | "Skip if _finalize_call already ran and set status="ended" in Redis - in that case the real full-data row is already written." (:144-145) |
| `CostReachesLog` | `RecordFaults` | the cost is queued where the row it updates may not exist yet (`websocket_handler.py:926`) | "writes a total cost estimate to the `call_logs.cost_usd` column at call end" (`cost_tracker.py:4-5`) |
| `MissedCallsAreKept` | `Callbacks` | a missed call is pushed as `number:sid:status` (`twilio_webhooks.py:140`), and the consumer discards what is not JSON | the queue of missed calls is there to be called back |
| `HumansTakeOver` | `Callbacks` | after the last attempt the fallback looks for a contact with `search_contacts` and would leave a task with `create_task` (`outbound_callback.py:234`, :247); `GHLClient` has neither, so it only logs an error | "After 3 failures: create a GHL task for manual follow-up, stop retrying" (`outbound_callback.py:20`) |
| `StreamsAreServed` | `FrontDoor` | an answered callback is sent to `/ws/media-stream`, and the only route is `/ws/call` (`websocket_handler.py:75`) | "Connects them to the AI WebSocket with context pre-loaded." (`twilio_webhooks.py:299`) |

### Seen while modelling, and not kept as properties

Speech and turns:

- A second stream of speech clears the barge-in flag of the first, so the words that interrupted are discarded as echo
  (`websocket_handler.py:534`, against the comment at :186-187); and of two overlapping streams the first to end clears
  `_is_speaking`, so the echo of the other is taken for the caller's words (:562, against :184-185).
- Speech that is discarded, or understood with low confidence, does not reset the silence timer (:339, against
  `docs/IMPLEMENTATION.md:205-206`).
- `ContextManager.build_messages` has no caller. `state.phase` never leaves GREETING, so the urgency classifier is never
  launched (comment at `websocket_handler.py:437`). What the fast path answers is extracted after the reply (comment at
  :421-424), and matched with words spoken before the question. The languages of the agent and of the session can disagree; the lead score counts private keys.
- Passages retrieved for a turn stay in `runtime_context` for the rest of the call.

Booking, the CRM and the record:

- A slot is not looked up again before it is booked (`calendar_service.py:186`, against `docs/IMPLEMENTATION.md:303`). The
  slot cache is written and never read; `remove_slot`, `schedule_no_show_follow_up` and `send_voicemail_follow_up_sms` have no caller;
  the no-show message meant for 4 hours later is sent at once.
- The token bucket grants up to twice the documented rate in a window (`ghl_client.py:100-103`, against :4-6), which is the bound that `RateIsBounded`
  states. An open credentials circuit raises `AttributeError` (:36-37). `add_tags` called by two tasks can lose tags.
- `sync_call_to_crm` sets `sms_consent` to "yes" whatever the caller said (against `reminders.py:10-13`). `search_contacts` and
  `create_task` are called and do not exist in `GHLClient`; the errors are swallowed.
- The worker derives the outcome of a call from a turn count that finalisation has not stored yet
  (`db_worker.py:169`), so a long call may be recorded as dropped. Dead-lettered payloads are never read again, against `docs/ARCHITECTURE.md:124`.
- `promote_delayed_callbacks` is "called periodically by the consumer loop" (`outbound_callback.py:207`) but by nothing, so
  a callback that failed once, or came out of hours, waits for ever; and a callback nobody answers is not retried (:119), against :19.
- A request for a callback whose webhook names no number is confirmed with "We have noted your number" (`twilio_webhooks.py:281`), and the
  consumer drops it (`outbound_callback.py:104-106`).

The front door:

- A caller refused at capacity (close code 1013) is not offered voicemail (against `call_router.py:6-13`). A call routed before the signal
  that connects after the snapshot of the drain is cut.
- The text that Twilio would say instead is dropped when a lookup fails. The menu repeats without end (`twiml_responses.py:59` speaks of voicemail
  after 2 retries). The texts about office hours disagree; an urgent voicemail is not recognised when its transcription fails.

Retrieval and the written channels:

- A cached result is a list of dicts ("caller tolerates", `retrieval.py:157`); building the context from it raises `AttributeError`, which is
  swallowed: a question repeated within 300 s gets no context. Ingesting or deleting does not invalidate that cache.
- The fast path never reranks, so its gate always returns nothing.
- Fusion "across multiple query vectors" (`retrieval.py:16`) adds the ranks before it inverts the sum, so a passage found by every
  search can rank behind one found once. The keyword search reaches parents too, not only child chunks.
- Failed embeddings are stored as zero vectors, and the hash check then prevents a repair. Titles carry counts, so a title changes with its
  contents and the stale version stays (`ingestion.py:481-482`). Two concurrent ingests of one title both survive: `LoneIngestsHeal` is about those that do not overlap.
- `backfill_rag.py`: "one RAG document per unique caller" (:761), but two callers of one name and count overwrite each other; a failed
  ingest ends the sources after it; `--min-messages` is 1 where its help says 4; the query of :670 does not join the alias that `--since` uses.
- Ingestion after a call reads messages that the worker may not have written yet. `await` on the accessor of the pool, which is not a coroutine.
- Chat: a token is used up by the first connection, so a widget cannot reconnect; two openings that overlap may both be accepted (`ChatToken`)
  and overwrite turns (`ChatIsKept` is about one accepted handler); prefetched results match no question.
- Social: a webhook delivered twice is answered twice; once Spanish, a thread stays Spanish, and detection never runs as the default is "en"; an SMS is cut at 140
  characters and announces a next message that does not come.

## 6. Done, and not modelled

Done: booking, the call session, the call's record, the callback queue, conversation state and context, the GHL client with reminders and slot
cache, the front door with its shutdown, the knowledge base, and the written channels with retrieval.

Not modelled:

- Dashboard (`dashboard/router.py`) and the staff queries of `chat/router.py` (lines 56-970): they only read. Its HTML and JavaScript
  run in the browser.
- Speech services, structured extraction, sentiment: each is one call of an external service and the parsing of its answer.
- `database/models.py` and the migrations: declarations. The columns that the migrations create differ from those used (`call_sid`, `turn_index`).
- `compliance/middleware.py`: it queues an audit entry for each request that changes something, and keeps no state of its own.
- Transfers, cold and warm: nothing calls them. `CircuitBreaker`: nothing uses it.
- The cache of `lookup_caller` (`contact_manager.py:48-96`) and `ghl_webhooks.py`: what the webhooks write (`ghl:contacts`, the queue
  of appointment events) is never read, though `slot_cache.py:12` counts on it.

What could follow: the other queues of the worker and the eager contact sync in `CallRecord`.
