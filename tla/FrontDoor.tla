------------------------------- MODULE FrontDoor -------------------------------
(***************************************************************************)
(* How callers come in and how the server goes down: the Twilio webhooks   *)
(* and the TwiML they answer, admission to the agent's websocket, the      *)
(* voicemail pipeline, and the lifespan of the server with its drain.      *)
(*                                                                         *)
(* Twilio is outside: a caller's leg is where Twilio's last instructions   *)
(* have left the caller.  The call itself is CallSession; here it talks,   *)
(* finalises and returns.                                                  *)
(***************************************************************************)
EXTENDS Integers, FiniteSets

CONSTANTS
    Calls,       \* calls, one Twilio call SID each
    Places,      \* settings.max_concurrent_calls
    Hours,       \* hours of the day at which somebody may call
    OpenHour,    \* settings.office_hours_start
    CloseHour    \* settings.office_hours_end

ASSUME CallsAreFinite == IsFiniteSet(Calls)
ASSUME PlacesIsNat == Places \in Nat

VARIABLES
    server,      \* the lifespan coroutine: up, draining, stopping, closing, down
    accepting,   \* main._accepting_connections
    places,      \* value of the call semaphore
    active,      \* main._active_calls
    waited,      \* the set the drain waits for
    cancelled,   \* calls the drain cancelled at its timeout
    handler,     \* the websocket handler of each call
    leg,         \* where Twilio has the caller
    stream,      \* path of the websocket Twilio was told to open
    vm,          \* process_voicemail of each call's message
    alert,       \* the attorney's SMS about that message
    invited      \* history: calls sent to the agent while the server was up

shutdownVars == <<server, accepting, waited, cancelled>>
admissionVars == <<places, active, handler>>
legVars == <<leg, stream, invited>>
voicemailVars == <<vm, alert>>
vars == <<shutdownVars, admissionVars, legVars, voicemailVars>>

ServerStates == {"up", "draining", "stopping", "closing", "down"}
HandlerStates == {"none", "talking", "finalising", "aborted", "returned", "cut"}
Legs == {"new", "connecting", "agent", "menu", "offer", "dialing", "recording",
         "promised", "ended"}
Streams == {"none", "/ws/call", "/ws/media-stream"}
MessageStates == {"none", "recorded", "downloaded", "calm", "urgent", "failed",
                  "logging", "queued", "refused", "stored", "dropped"}
AlertStates == {"none", "launched", "sent", "failed"}

TypeOK ==
    /\ server \in ServerStates /\ accepting \in BOOLEAN /\ places \in 0..Places
    /\ active \subseteq Calls /\ waited \subseteq Calls
    /\ cancelled \subseteq Calls /\ invited \subseteq Calls
    /\ handler \in [Calls -> HandlerStates]
    /\ leg \in [Calls -> Legs] /\ stream \in [Calls -> Streams]
    /\ vm \in [Calls -> MessageStates] /\ alert \in [Calls -> AlertStates]

Init ==
    /\ server = "up" /\ accepting = TRUE /\ places = Places
    /\ active = {} /\ waited = {} /\ cancelled = {} /\ invited = {}
    /\ handler = [c \in Calls |-> "none"]
    /\ leg = [c \in Calls |-> "new"] /\ stream = [c \in Calls |-> "none"]
    /\ vm = [c \in Calls |-> "none"] /\ alert = [c \in Calls |-> "none"]

Serving == server # "down"

---------------------------------------------------------------------------
(* Webhooks and the TwiML they answer.                                     *)

Days == {"weekday", "weekend", "holiday"}

IsOfficeOpen(day, hour) ==
    day = "weekday" /\ OpenHour <= hour /\ hour < CloseHour

\* Faulty variant: the flag that shutdown lowers is not looked at.
RouteAlways(day, hour) ==
    IF IsOfficeOpen(day, hour) THEN "connecting" ELSE "recording"

\* The three TwiML answers are two legs: the agent's stream, or a message
\* (after hours, at capacity) followed by a recording.
RouteInboundCall(day, hour) ==
    IF IsOfficeOpen(day, hour) /\ accepting THEN "connecting" ELSE "recording"

Goes(c, where) ==
    /\ leg' = [leg EXCEPT ![c] = where]
    /\ UNCHANGED <<shutdownVars, admissionVars, voicemailVars>>

InboundVoice(c) ==
    /\ Serving /\ leg[c] = "new"
    /\ \E day \in Days, hour \in Hours :
         LET where == RouteInboundCall(day, hour) IN
         /\ Goes(c, where)
         /\ stream' = [stream EXCEPT ![c] =
                         IF where = "connecting" THEN "/ws/call" ELSE "none"]
         /\ invited' = IF where = "connecting" /\ server = "up"
                       THEN invited \cup {c} ELSE invited

\* The number's fallback webhook: the keypad menu.
IvrMenu(c) ==
    /\ Serving /\ leg[c] = "new"
    /\ Goes(c, "menu")
    /\ UNCHANGED <<stream, invited>>

\* No digit or an unknown one: the menu again, as often as it takes.
IvrDigit(digit) ==
    CASE digit = "1" -> "offer"
      [] digit = "2" -> "recording"
      [] digit = "0" -> "dialing"
      [] OTHER -> "menu"

PressDigit(c) ==
    /\ Serving /\ leg[c] = "menu"
    /\ \E digit \in {"none", "0", "1", "2", "9"} : Goes(c, IvrDigit(digit))
    /\ UNCHANGED <<stream, invited>>

\* The offer's own default, when no key is pressed, is the recording.
CallbackRequest(c) ==
    /\ Serving /\ leg[c] = "offer"
    /\ \E digit \in {"1", "2", "9"} :
         Goes(c, IF digit = "2" THEN "promised" ELSE "recording")
    /\ UNCHANGED <<stream, invited>>

OfferTimesOut(c) ==
    /\ leg[c] = "offer"
    /\ Goes(c, "recording")
    /\ UNCHANGED <<stream, invited>>

\* The front desk or the attorney does not answer within 30 s.
TransferFallback(c) ==
    /\ Serving /\ leg[c] = "dialing"
    /\ Goes(c, "recording")
    /\ UNCHANGED <<stream, invited>>

\* The caller who was promised a callback answers it.
CallbackConnect(c) ==
    /\ Serving /\ leg[c] = "promised"
    /\ Goes(c, "connecting")
    /\ stream' = [stream EXCEPT ![c] = "/ws/media-stream"]
    /\ UNCHANGED invited

\* A message with sound starts the pipeline; the answer says goodbye.
VoicemailCallback(c) ==
    /\ Serving /\ leg[c] = "recording"
    /\ leg' = [leg EXCEPT ![c] = "ended"]
    /\ \E seconds \in 0..1 :
         vm' = IF seconds > 0 THEN [vm EXCEPT ![c] = "recorded"] ELSE vm
    /\ UNCHANGED <<shutdownVars, admissionVars, stream, invited, alert>>

\* The caller hangs up, the desk answers, or the server is not there.
LegEnds(c) ==
    /\ leg[c] \in {"connecting", "menu", "offer", "dialing", "recording"}
    /\ Goes(c, "ended")
    /\ UNCHANGED <<stream, invited>>

---------------------------------------------------------------------------
(* Admission to the agent.                                                 *)

SocketOpens(c) == Serving /\ leg[c] = "connecting" /\ stream[c] = "/ws/call"

\* No await between the test of the semaphore, its acquisition and the entry
\* of the task in _active_calls.
Admit(c) ==
    /\ SocketOpens(c) /\ places > 0
    /\ places' = places - 1
    /\ active' = active \cup {c}
    /\ handler' = [handler EXCEPT ![c] = "talking"]
    /\ leg' = [leg EXCEPT ![c] = "agent"]
    /\ UNCHANGED <<shutdownVars, voicemailVars, stream, invited>>

\* The socket is closed with code 1013, and the TwiML has nothing after it.
Refuse(c) ==
    /\ SocketOpens(c) /\ places = 0
    /\ Goes(c, "ended")
    /\ UNCHANGED <<stream, invited>>

\* The call is over, on either side: _run_call reaches its finally.
CallEnds(c) ==
    /\ Serving /\ handler[c] = "talking"
    /\ handler' = [handler EXCEPT ![c] = "finalising"]
    /\ leg' = [leg EXCEPT ![c] = "ended"]
    /\ UNCHANGED <<shutdownVars, voicemailVars, places, active, stream, invited>>

\* Faulty variant: the place is released after the handler, not in a finally.
GivesPlaceBackIfDone(c) ==
    /\ places' = IF handler[c] = "aborted" THEN places ELSE places + 1
    /\ active' = active \ {c}

GivesPlaceBack(c) ==
    /\ places' = places + 1
    /\ active' = active \ {c}

\* The handler returns: after its finalisation, or in the middle of it if the
\* cancellation reached it there.
Return(c) ==
    /\ Serving /\ handler[c] \in {"finalising", "aborted"}
    /\ GivesPlaceBack(c)
    /\ handler' = [handler EXCEPT ![c] =
                     IF @ = "aborted" THEN "cut" ELSE "returned"]
    /\ UNCHANGED <<shutdownVars, legVars, voicemailVars>>

---------------------------------------------------------------------------
(* process_voicemail.  The summary is text of the row, and the GHL task is  *)
(* never made: _create_ghl_task calls methods that GHLClient does not have. *)

Message(c, to) ==
    /\ vm' = [vm EXCEPT ![c] = to]
    /\ UNCHANGED <<shutdownVars, admissionVars, legVars>>

Download(c) ==
    /\ Serving /\ vm[c] = "recorded"
    /\ \E result \in {"downloaded", "failed"} : Message(c, result)
    /\ UNCHANGED alert

\* Without a transcript there is nothing in which to see an emergency.
Transcribe(c) ==
    /\ Serving /\ vm[c] = "downloaded"
    /\ \E heard \in {"calm", "urgent"} : Message(c, heard)
    /\ UNCHANGED alert

\* The alert is a task of its own, started before the row is queued.
LaunchAlert(c) ==
    /\ Serving /\ vm[c] = "urgent"
    /\ Message(c, "logging")
    /\ alert' = [alert EXCEPT ![c] = "launched"]

SendAlert(c) ==
    /\ Serving /\ alert[c] = "launched"
    /\ \E result \in {"sent", "failed"} : alert' = [alert EXCEPT ![c] = result]
    /\ UNCHANGED <<shutdownVars, admissionVars, legVars, vm>>

\* Faulty variant: the early return after a failed download queues nothing.
RowIsDueIfFetched(c) == vm[c] \in {"calm", "logging"}

\* A recording that could not be fetched has its row too: "download_failed".
RowIsDue(c) == vm[c] \in {"calm", "failed", "logging"}

QueueVoicemailRow(c) ==
    /\ Serving /\ RowIsDue(c)
    /\ \E result \in {"queued", "refused"} : Message(c, result)
    /\ UNCHANGED alert

\* The persistence worker, until shutdown stops it.
HandleVoicemailLog(c) ==
    /\ server \in {"up", "draining"} /\ vm[c] = "queued"
    /\ \E result \in {"stored", "dropped"} : Message(c, result)
    /\ UNCHANGED alert

VoicemailStep(c) ==
    Download(c) \/ Transcribe(c) \/ LaunchAlert(c) \/ QueueVoicemailRow(c)

---------------------------------------------------------------------------
(* Shutdown.                                                               *)

\* From the flag to asyncio.wait without an await.
Shutdown ==
    /\ server = "up"
    /\ server' = "draining" /\ accepting' = FALSE
    /\ waited' = active
    /\ UNCHANGED <<cancelled, admissionVars, legVars, voicemailVars>>

\* Faulty variant: the wait is over as soon as one call is.
DrainedOne == waited \cap active # waited \/ waited = {}

Drained == waited \cap active = {}

DrainDone ==
    /\ server = "draining" /\ Drained
    /\ server' = "stopping"
    /\ UNCHANGED <<accepting, waited, cancelled, admissionVars, legVars, voicemailVars>>

\* Faulty variant: asyncio.wait without a timeout.
NoTimeout == DrainDone

\* 30 s are over.  A call that talks goes to its finally; one that is being
\* finalised is interrupted in it.  Nobody waits for either.
DrainTimeout ==
    /\ server = "draining" /\ waited \cap active # {}
    /\ server' = "stopping"
    /\ cancelled' = waited \cap active
    /\ handler' = [c \in Calls |->
                     CASE c \in cancelled' /\ handler[c] = "talking" -> "finalising"
                       [] c \in cancelled' /\ handler[c] = "finalising" -> "aborted"
                       [] OTHER -> handler[c]]
    /\ leg' = [c \in Calls |-> IF c \in cancelled' THEN "ended" ELSE leg[c]]
    /\ UNCHANGED <<accepting, waited, places, active, stream, invited, voicemailVars>>

StopWorkers ==
    /\ server = "stopping"
    /\ server' = "closing"
    /\ UNCHANGED <<accepting, waited, cancelled, admissionVars, legVars, voicemailVars>>

\* The clients are closed and the process ends: what still runs is cut off.
Exit ==
    /\ server = "closing"
    /\ server' = "down"
    /\ handler' = [c \in Calls |-> IF c \in active THEN "cut" ELSE handler[c]]
    /\ UNCHANGED <<accepting, waited, cancelled, places, active, legVars, voicemailVars>>

Lifespan == DrainDone \/ DrainTimeout \/ StopWorkers \/ Exit

Next ==
    \/ \E c \in Calls :
         \/ InboundVoice(c) \/ IvrMenu(c) \/ PressDigit(c) \/ CallbackRequest(c)
         \/ OfferTimesOut(c) \/ TransferFallback(c) \/ CallbackConnect(c)
         \/ VoicemailCallback(c) \/ LegEnds(c)
         \/ Admit(c) \/ Refuse(c) \/ CallEnds(c) \/ Return(c)
         \/ Download(c) \/ Transcribe(c) \/ LaunchAlert(c) \/ SendAlert(c)
         \/ QueueVoicemailRow(c) \/ HandleVoicemailLog(c)
    \/ Shutdown \/ DrainDone \/ DrainTimeout \/ StopWorkers \/ Exit

Spec == Init /\ [][Next]_vars

\* The event loop schedules the lifespan coroutine and the voicemail tasks; the
\* drain has its timeout, and so has every request of the pipeline.
FairSpec ==
    /\ Spec
    /\ WF_vars(Lifespan)
    /\ \A c \in Calls : WF_vars(VoicemailStep(c))

---------------------------------------------------------------------------
(* Properties.                                                             *)

\* Every place of the semaphore is free or held by a call in _active_calls,
\* whichever way calls end, cancellation in the middle of their finalisation
\* included (websocket_handler.py:89-98): a caller is refused only because
\* that many calls are running.
PlacesAreHeldByCalls == places + Cardinality(active) = Places

\* Shutdown cuts the finalisation of a call short only if the call was cancelled
\* after 30 s of drain, or had been routed to the agent before the shutdown and
\* connected after the drain took its list (main.py:65-74,
\* twilio_webhooks.py:100-109).  A call that ended in time is never cut.
OnlyLateCallsAreCut ==
    \A c \in Calls : handler[c] = "cut" =>
        c \in cancelled \/ (c \in invited /\ c \notin waited)

\* Shutdown comes to an end, however long the calls talk (main.py:71).
ShutdownEnds == (server = "draining") ~> (server = "down")

\* A message with sound gets its row on voicemail_log_queue, also when the
\* recording cannot be fetched or read, unless Redis refuses it or the server
\* stops first (voicemail.py:56-104).
LeftMessageIsQueued ==
    \A c \in Calls : (vm[c] = "recorded") ~>
        (vm[c] \in {"queued", "stored", "dropped", "refused"} \/ ~Serving)

\* What twilio_webhooks.py:299 says of an answered callback, "Connects them to
\* the AI WebSocket": the path Twilio is told to open is one the server has.
\* Expected of the code, and refuted by TLC: see section 5 of the README.
StreamsAreServed ==
    \A c \in Calls : leg[c] = "connecting" => stream[c] = "/ws/call"
===============================================================================
