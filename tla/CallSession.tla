---------------------------- MODULE CallSession ------------------------------
(***************************************************************************)
(* One phone call, voice/websocket_handler.py: the coroutine _run_call and *)
(* the tasks it starts share the fields of CallSession.  The tasks are the *)
(* audio loop, the LLM/TTS loop, the duration guard, and the Deepgram      *)
(* client that calls on_speech_start and on_transcript (voice/             *)
(* stt_deepgram.py, one event at a time).  A task keeps the event loop     *)
(* from one await to the next, so an action runs between two awaits.       *)
(* Booking, urgency and persistence are modelled elsewhere.                *)
(***************************************************************************)
EXTENDS Naturals, Sequences

CONSTANTS
  MaxUtterances,   \* bound: utterances heard by Deepgram in a call
  LimitsReached,   \* may the call last until its duration limits?
  ServerMayStop    \* may the server cancel the call's coroutine (shutdown)?

ASSUME BoundAssumption == MaxUtterances \in Nat
ASSUME SwitchesAssumption == LimitsReached \in BOOLEAN /\ ServerMayStop \in BOOLEAN

VARIABLES
  main,      \* where _run_call is
  llm,       \* where _llm_tts_loop is
  guard,     \* where _duration_guard is
  audio,     \* is _receive_audio_loop running?
  active,    \* _call_active
  streams,   \* tasks inside _stream_tts_to_twilio
  speaking,  \* _is_speaking
  barge,     \* _barge_in_flag
  queue,     \* _transcript_queue
  streak,    \* _low_conf_streak
  heard,     \* what Deepgram has in its buffer and has not ended
  uttered,   \* utterances begun
  quiet,     \* time since last_speech_time: 0, or 1 and 2 past the two timeouts
  warned,    \* silence_warned
  emitted,   \* signals in the reply the LLM has written
  seen,      \* signals in the text the reply loop got
  (* Consumed by the properties only: *)
  asked,     \* "are you still there?" was said since the last answered words
  cut        \* the server cancelled the call's coroutine

audioOut == <<streams, speaking, barge>>
hearing  == <<streak, heard, uttered>>
timing   == <<quiet, warned, asked>>
signals  == <<emitted, seen>>
tasks    == <<main, llm, guard, audio>>
vars     == <<tasks, active, audioOut, queue, hearing, timing, signals, cut>>

Tasks   == {"main", "llm", "guard", "stt"}
Signals == {"transfer", "book", "end"}
Items   == {"caller", "echo", "handoff"}

TypeOK ==
  /\ main \in {"starting", "greeting", "running", "closing", "flushing",
               "finalizing", "finalized"}
  /\ llm \in {"off", "top", "waiting", "warning", "parting", "handing", "thinking",
              "replying", "acting", "pleading", "serving", "answering", "done"}
  /\ guard \in {"off", "soft", "advising", "hard", "leaving", "done"}
  /\ audio \in {"off", "on", "done"}
  /\ active \in BOOLEAN
  /\ streams \subseteq Tasks
  /\ speaking \in BOOLEAN
  /\ barge \in BOOLEAN
  /\ queue \in Seq(Items)
  /\ streak \in 0..MaxUtterances
  /\ heard \in {"none", "caller", "echo"}
  /\ uttered \in 0..MaxUtterances
  /\ quiet \in 0..2
  /\ warned \in BOOLEAN
  /\ emitted \subseteq Signals
  /\ seen \subseteq Signals
  /\ asked \in BOOLEAN
  /\ cut \in BOOLEAN

Init ==
  /\ main = "starting" /\ llm = "off" /\ guard = "off" /\ audio = "off"
  /\ active = TRUE
  /\ streams = {} /\ speaking = FALSE /\ barge = FALSE
  /\ queue = <<>>
  /\ streak = 0 /\ heard = "none" /\ uttered = 0
  /\ quiet = 0 /\ warned = FALSE /\ asked = FALSE
  /\ emitted = {} /\ seen = {}
  /\ cut = FALSE

-----------------------------------------------------------------------------
(***************************************************************************)
(* _stream_tts_to_twilio                                                   *)
(***************************************************************************)

StreamStarts(t) ==
  /\ streams' = streams \cup {t}
  /\ speaking' = TRUE
  /\ barge' = FALSE

\* Faulty variant: _is_speaking survives a cancelled stream.
StreamsLeftSpeaking(ts) ==
  /\ streams' = streams \ ts
  /\ UNCHANGED <<speaking, barge>>

\* The finally block of every stream in ts.
StreamsStop(ts) ==
  /\ streams' = streams \ ts
  /\ speaking' = (speaking /\ streams \cap ts = {})
  /\ UNCHANGED barge

\* The last chunk was sent, or the caller barged in, or the call is over; or
\* the voice service or the WebSocket failed, which ends the call.
StreamEnds(t) ==
  /\ t \in streams
  /\ StreamsStop({t})

MaybeFailed == active' \in {active, FALSE}

-----------------------------------------------------------------------------
\* The reply and its signals are locals of one turn of _llm_tts_loop.
TurnOver == emitted' = {} /\ seen' = {}

(***************************************************************************)
(* _run_call                                                               *)
(***************************************************************************)

\* The greeting starts, or no start event came within ten seconds.
AwaitStart ==
  /\ main = "starting"
  /\ \/ /\ main' = "greeting"
        /\ StreamStarts("main")
        /\ UNCHANGED active
     \/ /\ main' = "finalizing"
        /\ active' = FALSE
        /\ UNCHANGED audioOut
  /\ UNCHANGED <<llm, guard, audio, queue, hearing, timing, signals, cut>>

GreetingEnds ==
  /\ main = "greeting"
  /\ StreamEnds("main")
  /\ MaybeFailed
  /\ main' = "running" /\ llm' = "top" /\ guard' = "soft" /\ audio' = "on"
  /\ UNCHANGED <<queue, hearing, timing, signals, cut>>

\* Faulty variant: asyncio.wait returns and the other tasks go on.
WakeWithoutCancel ==
  /\ main = "running"
  /\ "done" \in {audio, llm, guard}
  /\ main' = "closing"
  /\ UNCHANGED <<llm, guard, audio, active, audioOut, queue, hearing, timing, signals, cut>>

\* asyncio.wait FIRST_COMPLETED: the other tasks are cancelled where they wait.
Wake ==
  /\ main = "running"
  /\ "done" \in {audio, llm, guard}
  /\ main' = "closing" /\ llm' = "done" /\ guard' = "done" /\ audio' = "done"
  /\ StreamsStop({"llm", "guard"})
  /\ TurnOver
  /\ UNCHANGED <<active, queue, hearing, timing, cut>>

\* The server gives up on the call: the coroutine is cancelled, its tasks are not.
ServerCancels ==
  /\ ServerMayStop
  /\ main \in {"starting", "greeting", "running"}
  /\ main' = IF main = "starting" THEN "finalizing" ELSE "closing"
  /\ active' = (active /\ main # "starting")
  /\ StreamsStop({"main"})
  /\ cut' = TRUE
  /\ UNCHANGED <<llm, guard, audio, queue, hearing, timing, signals>>

FlushSpoken ==
  /\ main = "flushing"
  /\ StreamEnds("main")
  /\ main' = "finalizing"
  /\ active' = FALSE
  /\ UNCHANGED <<llm, guard, audio, queue, hearing, timing, signals, cut>>

Finalize ==
  /\ main = "finalizing"
  /\ main' = "finalized"
  /\ UNCHANGED <<llm, guard, audio, active, audioOut, queue, hearing, timing, signals, cut>>

(***************************************************************************)
(* Twilio: _receive_audio_loop                                             *)
(***************************************************************************)

\* A stop event, or the socket is gone, which does not touch _call_active; or
\* a message finds the call over.
AudioEnds ==
  /\ audio = "on"
  /\ audio' = "done"
  /\ MaybeFailed
  /\ UNCHANGED <<main, llm, guard, audioOut, queue, hearing, timing, signals, cut>>

(***************************************************************************)
(* Deepgram                                                                *)
(***************************************************************************)

\* Events are delivered one at a time, and only once audio is forwarded.
Delivering == main = "running" /\ "stt" \notin streams

\* on_speech_start.
SpeechStarted == barge' = (barge \/ speaking)

CallerSpeaks ==
  /\ Delivering
  /\ heard = "none" /\ uttered < MaxUtterances
  /\ heard' = "caller"
  /\ uttered' = uttered + 1
  /\ SpeechStarted
  /\ UNCHANGED <<tasks, active, streams, speaking, queue, streak, timing, signals, cut>>

\* A pause too short to end the utterance.
CallerGoesOn ==
  /\ Delivering
  /\ heard = "caller"
  /\ SpeechStarted
  /\ UNCHANGED <<tasks, active, streams, speaking, queue, streak, heard, uttered,
                 timing, signals, cut>>

\* The agent's own voice comes back on the caller's line.
EchoHeard ==
  /\ Delivering
  /\ streams # {}
  /\ heard = "none" /\ uttered < MaxUtterances
  /\ heard' = "echo"
  /\ uttered' = uttered + 1
  /\ UNCHANGED <<tasks, active, audioOut, queue, streak, timing, signals, cut>>

Discarded == speaking /\ ~barge

\* on_transcript, run by task t for the buffered utterance.
Transcript(t) ==
  /\ heard # "none"
  /\ heard' = "none"
  /\ \/ /\ Discarded
        /\ UNCHANGED <<queue, streak, audioOut>>
     \/ /\ ~Discarded                                \* confidence >= 0.5
        /\ streak' = 0
        /\ queue' = Append(queue, heard)
        /\ UNCHANGED audioOut
     \/ /\ ~Discarded                                \* confidence < 0.5
        /\ streak' = streak + 1
        /\ queue' = IF streak' = 3 THEN Append(queue, "handoff") ELSE queue
        /\ IF streak' < 3 THEN StreamStarts(t) ELSE UNCHANGED audioOut
  /\ UNCHANGED <<uttered, timing, signals>>

UtteranceEnds ==
  /\ Delivering
  /\ Transcript("stt")
  /\ UNCHANGED <<tasks, active, cut>>

\* "Could you please repeat?" has been said.
RepeatSpoken ==
  /\ StreamEnds("stt")
  /\ MaybeFailed
  /\ UNCHANGED <<tasks, queue, hearing, timing, signals, cut>>

\* stt.close() flushes what Deepgram has buffered; then the finally of _run_call.
CloseStt ==
  /\ main = "closing"
  /\ \/ /\ heard = "none"
        /\ UNCHANGED <<audioOut, queue, hearing, timing, signals>>
     \/ Transcript("main")
  /\ main' = IF "main" \in streams' THEN "flushing" ELSE "finalizing"
  /\ active' = (active /\ main' = "flushing")
  /\ UNCHANGED <<llm, guard, audio, cut>>

(***************************************************************************)
(* _llm_tts_loop                                                           *)
(***************************************************************************)

\* Faulty variant: the loop is left by return and break only.
LoopForever ==
  /\ llm = "top"
  /\ llm' = "waiting"
  /\ UNCHANGED <<main, guard, audio, active, audioOut, queue, hearing, timing, signals, cut>>

LoopTest ==
  /\ llm = "top"
  /\ llm' = IF active THEN "waiting" ELSE "done"
  /\ UNCHANGED <<main, guard, audio, active, audioOut, queue, hearing, timing, signals, cut>>

\* last_speech_time, and silence_warned with it.
TimerReset ==
  /\ quiet' = 0 /\ warned' = FALSE

TimePasses ==
  /\ llm \notin {"off", "done"}
  /\ quiet < 2
  /\ quiet' = quiet + 1
  /\ UNCHANGED <<tasks, active, audioOut, queue, hearing, warned, asked, signals, cut>>

\* One second without a transcript, and neither timeout has passed.
StillQuiet ==
  /\ llm = "waiting" /\ queue = <<>>
  /\ quiet < IF warned THEN 2 ELSE 1
  /\ llm' = "top"
  /\ UNCHANGED <<main, guard, audio, active, audioOut, queue, hearing, timing, signals, cut>>

WarnSilence ==
  /\ llm = "waiting" /\ queue = <<>>
  /\ ~warned /\ quiet >= 1
  /\ warned' = TRUE /\ asked' = TRUE
  /\ llm' = "warning"
  /\ StreamStarts("llm")
  /\ UNCHANGED <<main, guard, audio, active, queue, hearing, quiet, signals, cut>>

SilenceTimeout ==
  /\ llm = "waiting" /\ queue = <<>>
  /\ warned /\ quiet = 2
  /\ llm' = "parting"
  /\ StreamStarts("llm")
  /\ UNCHANGED <<main, guard, audio, active, queue, hearing, timing, signals, cut>>

WarningSpoken ==
  /\ llm = "warning"
  /\ StreamEnds("llm")
  /\ MaybeFailed
  /\ llm' = "top"
  /\ UNCHANGED <<main, guard, audio, queue, hearing, timing, signals, cut>>

\* The last words of the agent, on silence or when it cannot hear the caller.
GoodbyeSpoken ==
  /\ llm \in {"parting", "handing"}
  /\ StreamEnds("llm")
  /\ active' = FALSE
  /\ llm' = "top"
  /\ UNCHANGED <<main, guard, audio, queue, hearing, timing, signals, cut>>

\* Faulty variant: silence_warned is not reset.
DequeueStillWarned ==
  /\ llm = "waiting" /\ queue # <<>>
  /\ queue' = Tail(queue)
  /\ quiet' = 0 /\ asked' = FALSE
  /\ \/ /\ Head(queue) = "handoff"
        /\ llm' = "handing"
        /\ StreamStarts("llm")
     \/ /\ Head(queue) # "handoff"
        /\ llm' = "thinking"
        /\ barge' = FALSE
        /\ UNCHANGED <<streams, speaking>>
  /\ UNCHANGED <<main, guard, audio, active, hearing, warned, signals, cut>>

Dequeue ==
  /\ llm = "waiting" /\ queue # <<>>
  /\ queue' = Tail(queue)
  /\ TimerReset
  /\ asked' = FALSE
  /\ \/ /\ Head(queue) = "handoff"
        /\ llm' = "handing"
        /\ StreamStarts("llm")
     \/ /\ Head(queue) # "handoff"
        /\ llm' = "thinking"
        /\ barge' = FALSE
        /\ UNCHANGED <<streams, speaking>>
  /\ UNCHANGED <<main, guard, audio, active, hearing, signals, cut>>

\* The turn has been recorded, which may wait for the summary of older turns.
StartReply ==
  /\ llm = "thinking"
  /\ llm' = "replying"
  /\ StreamStarts("llm")
  /\ UNCHANGED <<main, guard, audio, active, queue, hearing, timing, signals, cut>>

\* respond_stream withholds a line that holds nothing but a signal.
ReplyEnds ==
  /\ llm = "replying"
  /\ StreamEnds("llm")
  /\ MaybeFailed
  /\ emitted' \in SUBSET Signals
  /\ seen' \in SUBSET emitted'
  /\ TimerReset
  /\ llm' = "acting"
  /\ UNCHANGED <<main, guard, audio, queue, hearing, asked, cut>>

\* check_signals found nothing (more) to do; an empty reply is not even checked.
ReplyHandled ==
  /\ llm = "acting"
  /\ seen = {}
  /\ llm' = "top"
  /\ TurnOver
  /\ UNCHANGED <<main, guard, audio, active, audioOut, queue, hearing, timing, cut>>

\* The call is redirected to the attorney, or that fails or cannot be done.
EmergencyTransfer ==
  /\ llm = "acting"
  /\ "transfer" \in seen
  /\ \/ /\ llm' = "done"
        /\ active' = FALSE
        /\ UNCHANGED audioOut
     \/ /\ llm' = "pleading"
        /\ StreamStarts("llm")
        /\ UNCHANGED active
  /\ TurnOver
  /\ UNCHANGED <<main, guard, audio, queue, hearing, timing, cut>>

PleaSpoken ==
  /\ llm = "pleading"
  /\ StreamEnds("llm")
  /\ active' = FALSE
  /\ llm' = "done"
  /\ UNCHANGED <<main, guard, audio, queue, hearing, timing, signals, cut>>

\* _handle_schedule_now, _handle_booking_confirmed (module BookingFlow).
HandleBooking ==
  /\ llm = "acting"
  /\ "transfer" \notin seen /\ "book" \in seen
  /\ seen' = seen \ {"book"}
  /\ llm' = "serving"
  /\ UNCHANGED <<main, guard, audio, active, audioOut, queue, hearing, timing, emitted, cut>>

\* The handler is through without a word: it found or was offered nothing, has no
\* contact, booked the slot of which the reply told already, or its search failed.
ServedSilently ==
  /\ llm = "serving"
  /\ llm' = "acting"
  /\ UNCHANGED <<main, guard, audio, active, audioOut, queue, hearing, timing, signals, cut>>

\* It has something to say: slots, others instead of them, or that there are none.
SpeakResult ==
  /\ llm = "serving"
  /\ llm' = "answering"
  /\ StreamStarts("llm")
  /\ UNCHANGED <<main, guard, audio, active, queue, hearing, timing, signals, cut>>

ResultSpoken ==
  /\ llm = "answering"
  /\ StreamEnds("llm")
  /\ MaybeFailed
  /\ llm' = "acting"
  /\ UNCHANGED <<main, guard, audio, queue, hearing, timing, signals, cut>>

EndCallSignal ==
  /\ llm = "acting"
  /\ seen = {"end"}
  /\ active' = FALSE
  /\ llm' = "done"
  /\ TurnOver
  /\ UNCHANGED <<main, guard, audio, audioOut, queue, hearing, timing, cut>>

\* Any exception in the body of the loop is logged and the loop goes on.
LoopError ==
  /\ llm \in {"thinking", "acting", "serving"}
  /\ llm' = "top"
  /\ TurnOver
  /\ UNCHANGED <<main, guard, audio, active, audioOut, queue, hearing, timing, cut>>

(***************************************************************************)
(* _duration_guard                                                         *)
(***************************************************************************)

\* The soft limit, then the hard one.
SoftLimit ==
  /\ LimitsReached
  /\ guard = "soft"
  /\ IF active
     THEN guard' = "advising" /\ StreamStarts("guard")
     ELSE guard' = "hard" /\ UNCHANGED audioOut
  /\ UNCHANGED <<main, llm, audio, active, queue, hearing, timing, signals, cut>>

AdviceSpoken ==
  /\ guard = "advising"
  /\ StreamEnds("guard")
  /\ MaybeFailed
  /\ guard' = "hard"
  /\ UNCHANGED <<main, llm, audio, queue, hearing, timing, signals, cut>>

\* Faulty variant: the guard ends with the soft limit's advice repeated.
HardLimitRepeats ==
  /\ guard = "hard"
  /\ guard' = "soft"
  /\ UNCHANGED <<main, llm, audio, active, audioOut, queue, hearing, timing, signals, cut>>

HardLimit ==
  /\ guard = "hard"
  /\ IF active
     THEN guard' = "leaving" /\ StreamStarts("guard")
     ELSE guard' = "done" /\ UNCHANGED audioOut
  /\ UNCHANGED <<main, llm, audio, active, queue, hearing, timing, signals, cut>>

HardLimitSpoken ==
  /\ guard = "leaving"
  /\ StreamEnds("guard")
  /\ active' = FALSE
  /\ guard' = "done"
  /\ UNCHANGED <<main, llm, audio, queue, hearing, timing, signals, cut>>

-----------------------------------------------------------------------------
\* What the program does by itself.
RunStep ==
  AwaitStart \/ GreetingEnds \/ Wake \/ CloseStt \/ FlushSpoken \/ Finalize \/ RepeatSpoken

LoopStep ==
  \/ LoopTest \/ StillQuiet \/ WarnSilence \/ SilenceTimeout \/ WarningSpoken
  \/ GoodbyeSpoken \/ Dequeue \/ StartReply \/ ReplyEnds \/ ReplyHandled
  \/ EmergencyTransfer \/ PleaSpoken \/ HandleBooking \/ ServedSilently \/ SpeakResult
  \/ ResultSpoken \/ EndCallSignal \/ LoopError

GuardStep == SoftLimit \/ AdviceSpoken \/ HardLimit \/ HardLimitSpoken

\* What Twilio, Deepgram, the caller, the clock and the server do to it.
OutsideStep ==
  \/ AudioEnds \/ CallerSpeaks \/ CallerGoesOn \/ EchoHeard \/ UtteranceEnds
  \/ TimePasses \/ ServerCancels

Next == RunStep \/ LoopStep \/ GuardStep \/ OutsideStep

Spec == Init /\ [][Next]_vars

\* Tasks that can run do run, and every stream of speech ends.
Running == Spec /\ WF_vars(RunStep) /\ WF_vars(LoopStep)

-----------------------------------------------------------------------------
(***************************************************************************)
(* Properties                                                              *)
(***************************************************************************)

\* Never deaf: while _is_speaking makes on_transcript discard what it hears,
\* the agent really is speaking, however a stream of speech ended.
SpeakingOnlyWhileStreaming == speaking => streams # {}

\* The caller is never hung up on for silence without having been asked "are
\* you still there?" since the last words that were answered.
SilenceHangUpIsWarned ==
  [][llm # "parting" /\ llm' = "parting" => asked]_vars

\* Finalisation reads the state of the call when no task of the call can
\* change it any more.  (Not after the server cancelled the call's coroutine, which
\* leaves its tasks running.)
FinalizeAlone ==
  main \in {"finalizing", "finalized"} /\ ~cut =>
    llm \in {"off", "done"} /\ guard \in {"off", "done"}
      /\ streams \cap {"llm", "guard"} = {}

\* Once the call is over in any way, it is finalised, and not only by the
\* duration limit: the other tasks notice by themselves.
EndedCallIsFinalized == ~active ~> main = "finalized"

\* No call goes on for ever, whatever the caller does, once the two sleeps of the
\* duration guard end.
CallIsBounded == WF_vars(GuardStep) => <>(main = "finalized")

\* check_signals is given every signal the LLM wrote in the reply.
\* Expected of the code, and refuted by TLC: see section 5 of the README.
SignalsReachCheckSignals ==
  [][llm = "replying" /\ llm' = "acting" => seen' = emitted']_vars
=============================================================================
