---------------------------- MODULE CallRecord -------------------------------
(***************************************************************************)
(* What is kept of a call when it is over.  _finalize_call (voice/         *)
(* websocket_handler.py) and the post-call pipeline (logging_analytics/    *)
(* call_logger.py) push payloads on Redis lists; so does Twilio's status   *)
(* callback (webhooks/twilio_webhooks.py), as a safety net, for calls it   *)
(* believes were never finalised.  The persistence worker                  *)
(* (logging_analytics/db_worker.py) pops them and writes the rows of       *)
(* conversations and call_logs.  Redis itself does not fail.               *)
(***************************************************************************)
EXTENDS Naturals, Sequences

CONSTANTS
  Calls,              \* calls answered by the server
  Nothing,            \* the worker's empty hand
  WritesMayFail,      \* may a write to Supabase fail?
  ProcessMayDie       \* may the process die, or shutdown cancel its tasks?

ASSUME SwitchesAssumption == WritesMayFail \in BOOLEAN /\ ProcessMayDie \in BOOLEAN
ASSUME NothingAssumption == \A c \in Calls, k \in {"full", "skeleton", "cost", "summary"} :
                              Nothing # [call |-> c, kind |-> k]

VARIABLES
  booked,     \* state.scheduled_at is set when the call ends
  long,       \* more than two turns were taken
  fin,        \* where _finalize_call is
  pipeline,   \* where the post-call pipeline is
  callback,   \* where the status callback is
  ended,      \* "status" of the hash call:{sid} is "ended", with the turn count
  completed,  \* "call_status" of the hash is "completed"
  dbq,        \* db_sync_queue
  events,     \* analytics_events
  turn,       \* which queue the worker looks at next
  hand,       \* what it popped and has not dealt with
  dlq,        \* dlq:db_sync_queue
  row,        \* the conversations row of the call
  log,        \* the call_logs row of the call exists
  extra,      \* what became of the updates of that row
  died        \* history: the process died at least once

calls  == <<booked, long, fin, pipeline>>
redis  == <<ended, completed, dbq, events, dlq>>
worker == <<turn, hand>>
tables == <<row, log, extra>>
vars   == <<calls, callback, redis, worker, tables, died>>

Payloads == {"full", "skeleton"}     \* upserts of conversations
Updates  == {"cost", "summary"}      \* updates of call_logs
Items    == [call : Calls, kind : Payloads \cup Updates]
Outcomes == {"none", "booking_made", "info_only", "dropped"}
Rows     == [exists : BOOLEAN, scored : BOOLEAN, booked : BOOLEAN, outcome : Outcomes]
NoRow    == [exists |-> FALSE, scored |-> FALSE, booked |-> FALSE, outcome |-> "none"]

Item(c, k) == [call |-> c, kind |-> k]

TypeOK ==
  /\ booked \in [Calls -> BOOLEAN]
  /\ long \in [Calls -> BOOLEAN]
  /\ fin \in [Calls -> {"talking", "syncing", "confirming", "costing", "marking",
                        "reporting", "done", "killed"}]
  /\ pipeline \in [Calls -> {"off", "running", "done", "killed"}]
  /\ callback \in [Calls -> {"expected", "stored", "queuing", "done"}]
  /\ ended \in [Calls -> BOOLEAN]
  /\ completed \in [Calls -> BOOLEAN]
  /\ dbq \in Seq(Items)
  /\ events \in Seq(Calls)
  /\ turn \in {"db", "events"}
  /\ hand \in Items \cup {Nothing}
  /\ dlq \in SUBSET Items
  /\ row \in [Calls -> Rows]
  /\ log \in [Calls -> BOOLEAN]
  /\ extra \in [Calls -> [Updates -> {"none", "written", "missed"}]]
  /\ died \in BOOLEAN

Init ==
  /\ booked \in [Calls -> BOOLEAN]
  /\ long \in [Calls -> BOOLEAN]
  /\ \A c \in Calls : booked[c] => long[c]      \* offer, choice, confirmation
  /\ fin = [c \in Calls |-> "talking"]
  /\ pipeline = [c \in Calls |-> "off"]
  /\ callback = [c \in Calls |-> "expected"]
  /\ ended = [c \in Calls |-> FALSE]
  /\ completed = [c \in Calls |-> FALSE]
  /\ dbq = <<>> /\ events = <<>>
  /\ turn = "db" /\ hand = Nothing
  /\ dlq = {}
  /\ row = [c \in Calls |-> NoRow]
  /\ log = [c \in Calls |-> FALSE]
  /\ extra = [c \in Calls |-> [u \in Updates |-> "none"]]
  /\ died = FALSE

-----------------------------------------------------------------------------
(***************************************************************************)
(* _finalize_call, from one await to the next                              *)
(***************************************************************************)

FinGoes(c, from, to) ==
  /\ fin[c] = from
  /\ fin' = [fin EXCEPT ![c] = to]

Push(item) == dbq' = Append(dbq, item)

\* The call ends; intake extraction and lead scoring run.
EndCall(c) ==
  /\ FinGoes(c, "talking", "syncing")
  /\ UNCHANGED <<booked, long, pipeline, callback, redis, worker, tables, died>>

\* Faulty variant: an error of GHL leaves sync_call_to_crm.
SyncUnlessGhlFails(c) ==
  /\ FinGoes(c, "syncing", "confirming")
  /\ \/ Push(Item(c, "full"))
     \/ UNCHANGED dbq
  /\ UNCHANGED <<booked, long, pipeline, callback, ended, completed, events, dlq,
                 worker, tables, died>>

\* sync_call_to_crm: whatever GHL does, the payload is queued for the worker.
SyncCallToCrm(c) ==
  /\ FinGoes(c, "syncing", "confirming")
  /\ Push(Item(c, "full"))
  /\ UNCHANGED <<booked, long, pipeline, callback, ended, completed, events, dlq,
                 worker, tables, died>>

\* The confirmation SMS has been sent; the pipeline starts in the background.
LaunchPipeline(c) ==
  /\ FinGoes(c, "confirming", "costing")
  /\ pipeline' = [pipeline EXCEPT ![c] = "running"]
  /\ UNCHANGED <<booked, long, callback, redis, worker, tables, died>>

PersistCost(c) ==
  /\ FinGoes(c, "costing", "marking")
  /\ Push(Item(c, "cost"))
  /\ UNCHANGED <<booked, long, pipeline, callback, ended, completed, events, dlq,
                 worker, tables, died>>

\* hset call:{sid} status, duration and turn count.
MarkEnded(c) ==
  /\ FinGoes(c, "marking", "reporting")
  /\ ended' = [ended EXCEPT ![c] = TRUE]
  /\ UNCHANGED <<booked, long, pipeline, callback, completed, dbq, events, dlq,
                 worker, tables, died>>

LogCallEnded(c) ==
  /\ FinGoes(c, "reporting", "done")
  /\ events' = Append(events, c)
  /\ UNCHANGED <<booked, long, pipeline, callback, ended, completed, dbq, dlq,
                 worker, tables, died>>

\* run_post_call_pipeline, up to _write_call_summary_row.
WriteCallSummary(c) ==
  /\ pipeline[c] = "running"
  /\ pipeline' = [pipeline EXCEPT ![c] = "done"]
  /\ Push(Item(c, "summary"))
  /\ UNCHANGED <<booked, long, fin, callback, ended, completed, events, dlq,
                 worker, tables, died>>

(***************************************************************************)
(* call_status_callback, CallStatus = completed                            *)
(***************************************************************************)

\* Twilio may report the end of the call before the server has noticed it.
StoreStatus(c) ==
  /\ callback[c] = "expected"
  /\ callback' = [callback EXCEPT ![c] = "stored"]
  /\ completed' = [completed EXCEPT ![c] = TRUE]
  /\ UNCHANGED <<calls, ended, dbq, events, dlq, worker, tables, died>>

CheckEnded(c) ==
  /\ callback[c] = "stored"
  /\ callback' = [callback EXCEPT ![c] = IF ended[c] THEN "done" ELSE "queuing"]
  /\ UNCHANGED <<calls, redis, worker, tables, died>>

QueueSkeleton(c) ==
  /\ callback[c] = "queuing"
  /\ callback' = [callback EXCEPT ![c] = "done"]
  /\ Push(Item(c, "skeleton"))
  /\ UNCHANGED <<calls, ended, completed, events, dlq, worker, tables, died>>

(***************************************************************************)
(* db_worker_loop                                                          *)
(***************************************************************************)

PopDb ==
  /\ turn = "db" /\ hand = Nothing
  /\ IF dbq = <<>>
     THEN UNCHANGED <<dbq, hand>>
     ELSE hand' = Head(dbq) /\ dbq' = Tail(dbq)
  /\ turn' = "events"
  /\ UNCHANGED <<calls, callback, ended, completed, events, dlq, tables, died>>

\* Faulty variant: without the call's hash, the call had turns enough.
DerivedOptimistic(c) ==
  IF booked[c] THEN "booking_made"
  ELSE IF completed[c] THEN (IF ended[c] /\ ~long[c] THEN "dropped" ELSE "info_only")
  ELSE "none"

\* call_outcome of a payload that carries none: from the call's hash.  (That of
\* transferred_at never applies: nothing sets it, and a skeleton carries None.)
Derived(c) ==
  IF booked[c] THEN "booking_made"
  ELSE IF completed[c] THEN (IF ended[c] /\ long[c] THEN "info_only" ELSE "dropped")
  ELSE "none"

OutcomeOf(i) == IF i.kind = "skeleton" THEN "dropped" ELSE Derived(i.call)

\* Faulty variant: the sentinel score of a skeleton is written like any other.
UpsertedBlindly(r, i) ==
  [exists  |-> TRUE,
   scored  |-> i.kind = "full",
   booked  |-> r.booked \/ (i.kind = "full" /\ booked[i.call]),
   outcome |-> IF OutcomeOf(i) = "none" THEN r.outcome ELSE OutcomeOf(i)]

\* The upsert writes the score of a full payload only, and of the other columns
\* those that have a value.
Upserted(r, i) ==
  [exists  |-> TRUE,
   scored  |-> r.scored \/ i.kind = "full",
   booked  |-> r.booked \/ (i.kind = "full" /\ booked[i.call]),
   outcome |-> IF OutcomeOf(i) = "none" THEN r.outcome ELSE OutcomeOf(i)]

\* _handle_db_sync.
HandleDbSync ==
  /\ hand # Nothing /\ hand.kind \in Payloads
  /\ row' = [row EXCEPT ![hand.call] = Upserted(@, hand)]
  /\ hand' = Nothing
  /\ UNCHANGED <<calls, callback, redis, turn, log, extra, died>>

\* _handle_call_cost, _handle_call_summary: UPDATE ... WHERE call_sid matches
\* the call_logs row if there is one.
UpdateCallLog ==
  /\ hand # Nothing /\ hand.kind \in Updates
  /\ extra' = [extra EXCEPT ![hand.call][hand.kind] =
                 IF log[hand.call] THEN "written" ELSE "missed"]
  /\ hand' = Nothing
  /\ UNCHANGED <<calls, callback, redis, turn, row, log, died>>

\* Faulty variant: no handler raises, so nothing is dead-lettered.
WriteFailureSwallowed ==
  /\ WritesMayFail
  /\ hand # Nothing
  /\ hand' = Nothing
  /\ UNCHANGED <<calls, callback, redis, turn, tables, died>>

\* A write fails, possibly the second of the two of _handle_db_sync.  The handler
\* of a cost swallows the error; for the others _dispatch moves the payload to
\* the dead-letter list.
WriteFails ==
  /\ WritesMayFail
  /\ hand # Nothing
  /\ dlq' = IF hand.kind = "cost" THEN dlq ELSE dlq \cup {hand}
  /\ hand' = Nothing
  /\ \/ UNCHANGED row
     \/ /\ hand.kind \in Payloads
        /\ row' = [row EXCEPT ![hand.call] = Upserted(@, hand)]
  /\ UNCHANGED <<calls, callback, ended, completed, dbq, events, turn, log, extra, died>>

\* _handle_analytics_event: a call_logs row, or a warning.
PopEvent ==
  /\ turn = "events" /\ hand = Nothing
  /\ IF events = <<>>
     THEN UNCHANGED <<events, log>>
     ELSE /\ events' = Tail(events)
          /\ \/ log' = [log EXCEPT ![Head(events)] = TRUE]
             \/ WritesMayFail /\ UNCHANGED log
  /\ turn' = "db"
  /\ UNCHANGED <<calls, callback, ended, completed, dbq, dlq, hand, row, extra, died>>

(***************************************************************************)
(* The process dies, or is stopped and cancels what is still running; it   *)
(* is started again, and Redis has kept its lists.                         *)
(***************************************************************************)
Restart ==
  /\ ProcessMayDie
  /\ fin' = [c \in Calls |-> IF fin[c] = "done" THEN "done" ELSE "killed"]
  /\ pipeline' = [c \in Calls |-> IF pipeline[c] = "running" THEN "killed" ELSE pipeline[c]]
  /\ callback' = [c \in Calls |-> IF callback[c] = "expected" THEN "expected" ELSE "done"]
  /\ turn' = "db"
  /\ hand' = Nothing
  /\ died' = TRUE
  /\ UNCHANGED <<booked, long, redis, tables>>

-----------------------------------------------------------------------------
FinalizeStep(c) ==
  \/ EndCall(c) \/ SyncCallToCrm(c) \/ LaunchPipeline(c) \/ PersistCost(c)
  \/ MarkEnded(c) \/ LogCallEnded(c) \/ WriteCallSummary(c)

CallbackStep(c) == StoreStatus(c) \/ CheckEnded(c) \/ QueueSkeleton(c)

WorkerStep == PopDb \/ HandleDbSync \/ UpdateCallLog \/ WriteFails \/ PopEvent

Next ==
  \/ \E c \in Calls : FinalizeStep(c) \/ CallbackStep(c)
  \/ WorkerStep
  \/ Restart

Spec == Init /\ [][Next]_vars

Fairness ==
  /\ \A c \in Calls : WF_vars(FinalizeStep(c)) /\ WF_vars(CallbackStep(c))
  /\ WF_vars(WorkerStep)

\* Calls end, tasks run, Twilio reports the end of each call, and the worker
\* keeps draining its queues.
FairSpec == Spec /\ Fairness

-----------------------------------------------------------------------------
(***************************************************************************)
(* Properties                                                              *)
(***************************************************************************)

\* Scores and appointments that _finalize_call has saved are never lost to a
\* skeleton payload, in whatever order the two are queued and processed.
RealDataIsKept ==
  [][\A c \in Calls : /\ row[c].scored => row'[c].scored
                      /\ row[c].booked => row'[c].booked]_vars

\* The record claims nothing that did not happen: an appointment only for a call
\* that booked one, an informative call only for one with more than two turns.
RecordIsTrue ==
  \A c \in Calls :
    /\ row[c].booked => booked[c]
    /\ row[c].outcome = "booking_made" => booked[c]
    /\ row[c].outcome = "info_only" => long[c]

Kept(i) == i = hand \/ i \in dlq \/ \E n \in DOMAIN dbq : dbq[n] = i

\* As long as the process lives, a call whose data _finalize_call has handed
\* over is on its way, in its row, or on the dead-letter list.
NoPayloadVanishes ==
  \A c \in Calls :
    fin[c] \notin {"talking", "syncing", "killed"} /\ ~died =>
      Kept(Item(c, "full")) \/ row[c].scored

\* Every call ends up with its full record, unless the process died or the write
\* failed and the payload is left for manual inspection.
EveryCallIsRecorded ==
  \A c \in Calls :
    <>[](\/ row[c].scored /\ (booked[c] => row[c].booked)
         \/ died
         \/ Item(c, "full") \in dlq)

\* The safety net is for calls that were never finalised: it does not turn a
\* booking into a dropped call.
\* Expected of the code, and refuted by TLC: see section 5 of the README.
BookingOutcomeIsKept ==
  [][\A c \in Calls : row[c].outcome = "booking_made" =>
                        row'[c].outcome = "booking_made"]_vars

\* The cost of a call is written to its call_logs row.
\* Expected of the code, and refuted by TLC: see section 5 of the README.
CostReachesLog == \A c \in Calls : extra[c]["cost"] # "missed"
=============================================================================
