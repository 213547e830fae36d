------------------------- MODULE CallSessionProofs ---------------------------
(***************************************************************************)
(* Proofs about CallSession, for any number of utterances, with or without *)
(* duration limits.                                                        *)
(***************************************************************************)
EXTENDS CallSession, SequenceTheorems, TLAPS

USE DEF tasks, audioOut, hearing, timing, signals, MaybeFailed, TurnOver

-----------------------------------------------------------------------------
(***************************************************************************)
(* The two ways a step touches the streams                                 *)
(***************************************************************************)

LEMMA StartSpeaks ==
  ASSUME NEW t, StreamStarts(t)
  PROVE  SpeakingOnlyWhileStreaming'
  BY DEF StreamStarts, SpeakingOnlyWhileStreaming

\* If a stream of another task goes on, speaking is still true only while it does.
LEMMA StopSpeaks ==
  ASSUME NEW ts, SpeakingOnlyWhileStreaming, StreamsStop(ts)
  PROVE  SpeakingOnlyWhileStreaming'
<1>1. ASSUME speaking' PROVE streams' # {}
  <2>1. speaking /\ streams \cap ts = {}
    BY <1>1 DEF StreamsStop
  <2>2. streams # {}
    BY <2>1 DEF SpeakingOnlyWhileStreaming
  <2> QED BY <2>1, <2>2 DEF StreamsStop
<1> QED BY <1>1 DEF SpeakingOnlyWhileStreaming

\* What every step does to the streams.
StreamChange ==
  \/ UNCHANGED <<streams, speaking>> /\ barge' \in {barge, FALSE, barge \/ speaking}
  \/ \E t \in Tasks : StreamStarts(t)
  \/ \E ts \in SUBSET Tasks : StreamsStop(ts)

LEMMA TranscriptChange ==
  ASSUME NEW t \in Tasks, Transcript(t)
  PROVE  StreamChange
  BY DEF Transcript, StreamChange

LEMMA EveryStreamChange ==
  ASSUME [Next]_vars PROVE StreamChange
<1> USE DEF StreamChange, StreamEnds, Tasks
<1>1. CASE RunStep
  <2>1. CASE AwaitStart
    BY <2>1 DEF AwaitStart
  <2>2. CASE GreetingEnds
    BY <2>2 DEF GreetingEnds
  <2>3. CASE Wake
    BY <2>3 DEF Wake
  <2>4. CASE CloseStt
    <3>1. UNCHANGED audioOut \/ Transcript("main")
      BY <2>4 DEF CloseStt
    <3> QED BY <3>1, TranscriptChange
  <2>5. CASE FlushSpoken
    BY <2>5 DEF FlushSpoken
  <2>6. CASE Finalize
    BY <2>6 DEF Finalize
  <2>7. CASE RepeatSpoken
    BY <2>7 DEF RepeatSpoken
  <2> QED BY <1>1, <2>1, <2>2, <2>3, <2>4, <2>5, <2>6, <2>7 DEF RunStep
<1>2. CASE LoopStep
  <2>1. CASE LoopTest \/ StillQuiet \/ ReplyHandled \/ HandleBooking \/ ServedSilently
             \/ EndCallSignal \/ LoopError
    BY <2>1 DEF LoopTest, StillQuiet, ReplyHandled, HandleBooking, ServedSilently,
       EndCallSignal, LoopError
  <2>2. CASE WarnSilence \/ SilenceTimeout \/ StartReply \/ SpeakResult
    BY <2>2 DEF WarnSilence, SilenceTimeout, StartReply, SpeakResult
  <2>3. CASE WarningSpoken \/ GoodbyeSpoken \/ ReplyEnds \/ PleaSpoken \/ ResultSpoken
    BY <2>3 DEF WarningSpoken, GoodbyeSpoken, ReplyEnds, PleaSpoken, ResultSpoken
  <2>4. CASE Dequeue \/ EmergencyTransfer
    BY <2>4 DEF Dequeue, EmergencyTransfer
  <2> QED BY <1>2, <2>1, <2>2, <2>3, <2>4 DEF LoopStep
<1>3. CASE GuardStep
  BY <1>3 DEF GuardStep, SoftLimit, AdviceSpoken, HardLimit, HardLimitSpoken
<1>4. CASE OutsideStep
  <2>1. CASE UtteranceEnds
    BY <2>1, TranscriptChange DEF UtteranceEnds
  <2>2. CASE AudioEnds \/ EchoHeard \/ TimePasses \/ ServerCancels
    BY <2>2 DEF AudioEnds, EchoHeard, TimePasses, ServerCancels
  <2>3. CASE CallerSpeaks \/ CallerGoesOn
    BY <2>3 DEF CallerSpeaks, CallerGoesOn, SpeechStarted
  <2> QED BY <1>4, <2>1, <2>2, <2>3 DEF OutsideStep
<1>5. CASE UNCHANGED vars
  BY <1>5 DEF vars
<1> QED BY <1>1, <1>2, <1>3, <1>4, <1>5 DEF Next

(***************************************************************************)
(* on_transcript is never deaf without a stream                            *)
(***************************************************************************)

\* _is_speaking, which makes on_transcript discard what the caller says, holds
\* only while some task streams speech to the caller.
THEOREM NeverDeaf == Spec => []SpeakingOnlyWhileStreaming
<1>1. Init => SpeakingOnlyWhileStreaming
  BY DEF Init, SpeakingOnlyWhileStreaming
<1>2. SpeakingOnlyWhileStreaming /\ [Next]_vars => SpeakingOnlyWhileStreaming'
  <2> SUFFICES ASSUME SpeakingOnlyWhileStreaming, [Next]_vars
               PROVE  SpeakingOnlyWhileStreaming'
    OBVIOUS
  <2>1. StreamChange
    BY EveryStreamChange
  <2>2. CASE UNCHANGED <<streams, speaking>>
    BY <2>2 DEF SpeakingOnlyWhileStreaming
  <2>3. CASE \E t \in Tasks : StreamStarts(t)
    BY <2>3, StartSpeaks
  <2>4. CASE \E ts \in SUBSET Tasks : StreamsStop(ts)
    BY <2>4, StopSpeaks
  <2> QED BY <2>1, <2>2, <2>3, <2>4 DEF StreamChange
<1> QED BY <1>1, <1>2, PTL DEF Spec

(***************************************************************************)
(* Finalisation                                                            *)
(***************************************************************************)

Stopped == llm \in {"off", "done"} /\ guard \in {"off", "done"}
             /\ streams \cap {"llm", "guard"} = {}

\* The loop and the guard run while _run_call waits for them, and only then.
RunsUnderMain == main # "running" /\ ~cut => Stopped

LEMMA LoopKeepsMain ==
  ASSUME LoopStep PROVE main' = main /\ guard' = guard /\ cut' = cut /\ llm \notin {"off", "done"}
  BY DEF LoopStep, LoopTest, StillQuiet, WarnSilence, SilenceTimeout, WarningSpoken,
     GoodbyeSpoken, Dequeue, StartReply, ReplyEnds, ReplyHandled, EmergencyTransfer,
     PleaSpoken, HandleBooking, ServedSilently, SpeakResult, ResultSpoken, EndCallSignal, LoopError

LEMMA GuardKeepsMain ==
  ASSUME GuardStep PROVE main' = main /\ llm' = llm /\ cut' = cut /\ guard \notin {"off", "done"}
  BY DEF GuardStep, SoftLimit, AdviceSpoken, HardLimit, HardLimitSpoken

LEMMA TranscriptStream ==
  ASSUME NEW t, Transcript(t) PROVE streams' = streams \/ streams' = streams \cup {t}
  BY DEF Transcript, StreamStarts

\* Unless the server cancels the call's coroutine, finalisation starts when no
\* other task of the call can change the state it saves.
THEOREM FinalizesAlone == Spec => []FinalizeAlone
<1>1. Init => RunsUnderMain
  BY DEF Init, RunsUnderMain, Stopped
<1>2. RunsUnderMain /\ [Next]_vars => RunsUnderMain'
  <2> SUFFICES ASSUME RunsUnderMain, [Next]_vars, main' # "running", ~cut' PROVE Stopped'
    BY DEF RunsUnderMain
  <2>1. CASE RunStep
    <3>1. CASE AwaitStart
      BY <3>1 DEF AwaitStart, StreamStarts, RunsUnderMain, Stopped
    <3>2. CASE GreetingEnds
      BY <2>1, <3>2 DEF GreetingEnds
    <3>3. CASE Wake
      BY <3>3 DEF Wake, StreamsStop, Stopped
    <3>4. CASE CloseStt
      <4>1. streams' = streams \/ streams' = streams \cup {"main"}
        BY <3>4, TranscriptStream DEF CloseStt
      <4> QED BY <3>4, <4>1 DEF CloseStt, RunsUnderMain, Stopped
    <3>5. CASE FlushSpoken \/ Finalize
      BY <3>5 DEF FlushSpoken, Finalize, StreamEnds, StreamsStop, RunsUnderMain, Stopped
    <3>6. CASE RepeatSpoken
      BY <3>6 DEF RepeatSpoken, StreamEnds, StreamsStop, RunsUnderMain, Stopped
    <3> QED BY <2>1, <3>1, <3>2, <3>3, <3>4, <3>5, <3>6 DEF RunStep
  <2>2. CASE LoopStep
    BY <2>2, LoopKeepsMain DEF RunsUnderMain, Stopped
  <2>3. CASE GuardStep
    BY <2>3, GuardKeepsMain DEF RunsUnderMain, Stopped
  <2>4. CASE OutsideStep
    <3>1. CASE AudioEnds \/ TimePasses
      BY <3>1 DEF AudioEnds, TimePasses, RunsUnderMain, Stopped
    <3>2. CASE CallerSpeaks \/ CallerGoesOn \/ EchoHeard \/ UtteranceEnds
      BY <3>2 DEF CallerSpeaks, CallerGoesOn, EchoHeard, UtteranceEnds, Delivering
    <3>3. ~ServerCancels
      BY Zenon DEF ServerCancels
    <3> QED BY <2>4, <3>1, <3>2, <3>3 DEF OutsideStep
  <2>5. CASE UNCHANGED vars
    BY <2>5 DEF vars, RunsUnderMain, Stopped
  <2> QED BY <2>1, <2>2, <2>3, <2>4, <2>5 DEF Next
<1>3. RunsUnderMain => FinalizeAlone
  BY DEF RunsUnderMain, Stopped, FinalizeAlone
<1> QED BY <1>1, <1>2, <1>3, PTL DEF Spec

(***************************************************************************)
(* The silence timeout                                                     *)
(***************************************************************************)

WarnedAsked == warned => asked

LEMMA WarnedStays ==
  ASSUME [Next]_vars
  PROVE  \/ UNCHANGED <<warned, asked>>
         \/ warned' = FALSE
         \/ asked' = TRUE
<1> USE DEF timing
<1>1. CASE RunStep
  BY <1>1 DEF RunStep, AwaitStart, GreetingEnds, Wake, CloseStt, FlushSpoken, Finalize,
     RepeatSpoken, Transcript
<1>2. CASE LoopStep
  BY <1>2 DEF LoopStep, LoopTest, StillQuiet, WarnSilence, SilenceTimeout, WarningSpoken,
     GoodbyeSpoken, Dequeue, StartReply, ReplyEnds, ReplyHandled, EmergencyTransfer,
     PleaSpoken, HandleBooking, ServedSilently, SpeakResult, ResultSpoken, EndCallSignal, LoopError, TimerReset
<1>3. CASE GuardStep
  BY <1>3 DEF GuardStep, SoftLimit, AdviceSpoken, HardLimit, HardLimitSpoken
<1>4. CASE OutsideStep
  BY <1>4 DEF OutsideStep, AudioEnds, CallerSpeaks, CallerGoesOn, EchoHeard, UtteranceEnds,
     TimePasses, ServerCancels, Transcript
<1>5. CASE UNCHANGED vars
  BY <1>5 DEF vars
<1> QED BY <1>1, <1>2, <1>3, <1>4, <1>5 DEF Next

LEMMA OnlyTheTimeoutParts ==
  ASSUME [Next]_vars, llm # "parting", llm' = "parting" PROVE SilenceTimeout
<1>1. CASE RunStep
  BY <1>1 DEF RunStep, AwaitStart, GreetingEnds, Wake, CloseStt, FlushSpoken, Finalize,
     RepeatSpoken, tasks
<1>2. CASE LoopStep
  BY <1>2 DEF LoopStep, LoopTest, StillQuiet, WarnSilence, WarningSpoken, GoodbyeSpoken,
     Dequeue, StartReply, ReplyEnds, ReplyHandled, EmergencyTransfer, PleaSpoken,
     HandleBooking, ServedSilently, SpeakResult, ResultSpoken, EndCallSignal, LoopError
<1>3. CASE GuardStep
  BY <1>3, GuardKeepsMain
<1>4. CASE OutsideStep
  BY <1>4 DEF OutsideStep, AudioEnds, CallerSpeaks, CallerGoesOn, EchoHeard, UtteranceEnds,
     TimePasses, ServerCancels, tasks
<1>5. CASE UNCHANGED vars
  BY <1>5 DEF vars, tasks
<1> QED BY <1>1, <1>2, <1>3, <1>4, <1>5 DEF Next

\* Nobody is hung up on for silence unasked.  The hang-up needs silence_warned,
\* and silence_warned implies that the question was asked since the last answer.
THEOREM SilenceIsAnnounced == Spec => SilenceHangUpIsWarned
<1>1. Init => WarnedAsked
  BY DEF Init, WarnedAsked
<1>2. WarnedAsked /\ [Next]_vars => WarnedAsked'
  BY Zenon, WarnedStays DEF WarnedAsked
<1>3. WarnedAsked /\ [Next]_vars => [llm # "parting" /\ llm' = "parting" => asked]_vars
  BY Zenon, OnlyTheTimeoutParts DEF WarnedAsked, SilenceTimeout
<1> QED BY <1>1, <1>2, <1>3, PTL DEF Spec, SilenceHangUpIsWarned

(***************************************************************************)
(* The type invariant                                                      *)
(***************************************************************************)

\* Every utterance counts at most once as a low-confidence one.
Counted == streak + (IF heard = "none" THEN 0 ELSE 1) <= uttered

LEMMA QueueTypes ==
  ASSUME TypeOK
  PROVE  /\ \A i \in Items : Append(queue, i) \in Seq(Items)
         /\ queue # <<>> => Tail(queue) \in Seq(Items)
  BY AppendProperties, HeadTailProperties DEF TypeOK

LEMMA StreamTypes ==
  ASSUME TypeOK
  PROVE  /\ \A t \in Tasks : StreamStarts(t) =>
               streams' \subseteq Tasks /\ speaking' \in BOOLEAN /\ barge' \in BOOLEAN
         /\ \A ts : StreamsStop(ts) =>
               streams' \subseteq Tasks /\ speaking' \in BOOLEAN /\ barge' \in BOOLEAN
  BY DEF TypeOK, StreamStarts, StreamsStop

LEMMA TranscriptTypes ==
  ASSUME TypeOK, Counted, NEW t \in Tasks, Transcript(t)
  PROVE  /\ queue' \in Seq(Items) /\ streak' \in 0..MaxUtterances
         /\ heard' = "none"
         /\ streams' \subseteq Tasks /\ speaking' \in BOOLEAN /\ barge' \in BOOLEAN
         /\ UNCHANGED <<uttered, quiet, warned, asked, emitted, seen>>
         /\ Counted'
<1>1. heard \in Items /\ "handoff" \in Items /\ heard # "none"
  BY DEF Transcript, TypeOK, Items
<1>2. streak + 1 <= uttered /\ streak \in Nat /\ uttered \in 0..MaxUtterances
      /\ MaxUtterances \in Nat
  BY <1>1, BoundAssumption DEF Counted, TypeOK
<1>3. streak' \in {streak, 0, streak + 1}
  BY DEF Transcript
<1>4. queue' \in {queue, Append(queue, heard), Append(queue, "handoff")}
  BY DEF Transcript
<1>5. queue' \in Seq(Items)
  BY <1>1, <1>4, QueueTypes DEF TypeOK
<1>6. StreamStarts(t) \/ UNCHANGED audioOut
  BY DEF Transcript
<1>7. streams' \subseteq Tasks /\ speaking' \in BOOLEAN /\ barge' \in BOOLEAN
  BY <1>6, StreamTypes DEF TypeOK
<1>8. heard' = "none"
      /\ UNCHANGED <<uttered, quiet, warned, asked, emitted, seen>>
  BY DEF Transcript, timing, signals
<1>9. streak' <= uttered /\ streak' \in 0..MaxUtterances
  BY <1>2, <1>3
<1>10. Counted'
  BY <1>8, <1>9 DEF Counted
<1> QED BY <1>5, <1>7, <1>8, <1>9, <1>10

Typed == TypeOK /\ Counted

\* TypeOK and Counted by the groups of variables that the actions change.
TaskTypes ==
  /\ main \in {"starting", "greeting", "running", "closing", "flushing",
               "finalizing", "finalized"}
  /\ llm \in {"off", "top", "waiting", "warning", "parting", "handing", "thinking",
              "replying", "acting", "pleading", "serving", "answering", "done"}
  /\ guard \in {"off", "soft", "advising", "hard", "leaving", "done"}
  /\ audio \in {"off", "on", "done"}
OutTypes == streams \subseteq Tasks /\ speaking \in BOOLEAN /\ barge \in BOOLEAN
HearTypes ==
  /\ streak \in 0..MaxUtterances /\ heard \in {"none", "caller", "echo"}
  /\ uttered \in 0..MaxUtterances /\ Counted
TimeTypes == quiet \in 0..2 /\ warned \in BOOLEAN /\ asked \in BOOLEAN
SignalTypes == emitted \subseteq Signals /\ seen \subseteq Signals

LEMMA Groups ==
  /\ Typed <=> /\ TaskTypes /\ active \in BOOLEAN /\ cut \in BOOLEAN /\ OutTypes /\ queue \in Seq(Items)
               /\ HearTypes /\ TimeTypes /\ SignalTypes
  /\ Typed' <=> /\ TaskTypes' /\ active' \in BOOLEAN /\ cut' \in BOOLEAN /\ OutTypes' /\ queue' \in Seq(Items)
                /\ HearTypes' /\ TimeTypes' /\ SignalTypes'
  BY Zenon DEF Typed, TypeOK, TaskTypes, OutTypes, HearTypes, TimeTypes, SignalTypes

LEMMA Frames ==
  ASSUME Typed
  PROVE  /\ UNCHANGED tasks => TaskTypes'
         /\ active' \in {active, FALSE} => active' \in BOOLEAN
         /\ UNCHANGED audioOut => OutTypes'
         /\ \A t \in Tasks : StreamStarts(t) => OutTypes'
         /\ \A ts : StreamsStop(ts) => OutTypes'
         /\ UNCHANGED hearing => HearTypes'
         /\ UNCHANGED timing => TimeTypes'
         /\ UNCHANGED signals \/ TurnOver => SignalTypes'
<1> TypeOK /\ Counted
  BY DEF Typed
<1>1. UNCHANGED tasks => TaskTypes'
  BY DEF TypeOK, tasks, TaskTypes
<1>2. active' \in {active, FALSE} => active' \in BOOLEAN
  BY Zenon DEF TypeOK
<1>3. UNCHANGED audioOut => OutTypes'
  BY DEF TypeOK, audioOut, OutTypes
<1>4. /\ \A t \in Tasks : StreamStarts(t) => OutTypes'
      /\ \A ts : StreamsStop(ts) => OutTypes'
  BY StreamTypes DEF OutTypes
<1>5. UNCHANGED hearing => HearTypes'
  BY DEF TypeOK, hearing, HearTypes, Counted
<1>6. UNCHANGED timing => TimeTypes'
  BY DEF TypeOK, timing, TimeTypes
<1>7. UNCHANGED signals \/ TurnOver => SignalTypes'
  BY DEF TypeOK, signals, SignalTypes
<1> QED BY <1>1, <1>2, <1>3, <1>4, <1>5, <1>6, <1>7

LEMMA TimesTyped ==
  ASSUME quiet' \in 0..2, warned' \in BOOLEAN, asked' \in BOOLEAN
  PROVE  TimeTypes'
  BY Zenon DEF TimeTypes

LEMMA TimesReset ==
  ASSUME TimeTypes, TimerReset, asked' \in {asked, FALSE} PROVE TimeTypes'
<1>1. quiet' \in 0..2
  BY DEF TimerReset
<1>2. warned' \in BOOLEAN /\ asked' \in BOOLEAN
  BY Zenon DEF TimerReset, TimeTypes
<1> QED BY <1>1, <1>2, TimesTyped

LEMMA TranscriptGroups ==
  ASSUME Typed, NEW t \in Tasks, Transcript(t)
  PROVE  OutTypes' /\ queue' \in Seq(Items) /\ HearTypes' /\ TimeTypes' /\ SignalTypes'
<1> USE TranscriptTypes
<1>1. OutTypes' /\ queue' \in Seq(Items)
  BY DEF Typed, OutTypes
<1>2. HearTypes'
  BY DEF Typed, TypeOK, HearTypes
<1>3. TimeTypes' /\ SignalTypes'
  BY DEF Typed, TypeOK, TimeTypes, SignalTypes
<1> QED BY <1>1, <1>2, <1>3

LEMMA TasksTyped ==
  ASSUME Typed, [Next]_vars PROVE TaskTypes' /\ active' \in BOOLEAN
<1>1. TaskTypes /\ active \in BOOLEAN
  BY Groups
<1>2. ASSUME RunStep PROVE TaskTypes' /\ active' \in BOOLEAN
  <2>1. active' \in {active, FALSE}
    BY <1>1, <1>2 DEF RunStep, AwaitStart, GreetingEnds, Wake, CloseStt, FlushSpoken, Finalize,
       RepeatSpoken, MaybeFailed
  <2>2. TaskTypes'
    BY <1>1, <1>2 DEF RunStep, AwaitStart, GreetingEnds, Wake, CloseStt, FlushSpoken, Finalize,
       RepeatSpoken, TaskTypes, tasks
  <2> QED BY <2>1, <2>2, Frames
<1>3. ASSUME LoopStep PROVE TaskTypes' /\ active' \in BOOLEAN
  <2> USE DEF LoopTest, StillQuiet, WarnSilence, SilenceTimeout, WarningSpoken, GoodbyeSpoken,
        Dequeue, StartReply, ReplyEnds, ReplyHandled, EmergencyTransfer, PleaSpoken,
        HandleBooking, ServedSilently, SpeakResult, ResultSpoken, EndCallSignal, LoopError
  <2>1. active' \in {active, FALSE}
    BY <1>3 DEF LoopStep, MaybeFailed
  <2>2. TaskTypes'
    BY <1>1, <1>3 DEF LoopStep, TaskTypes
  <2> QED BY <2>1, <2>2, Frames
<1>4. ASSUME GuardStep PROVE TaskTypes' /\ active' \in BOOLEAN
  <2>1. active' \in {active, FALSE}
    BY <1>4 DEF GuardStep, SoftLimit, AdviceSpoken, HardLimit, HardLimitSpoken, MaybeFailed
  <2>2. TaskTypes'
    BY <1>1, <1>4 DEF GuardStep, SoftLimit, AdviceSpoken, HardLimit, HardLimitSpoken, TaskTypes
  <2> QED BY <2>1, <2>2, Frames
<1>5. ASSUME OutsideStep PROVE TaskTypes' /\ active' \in BOOLEAN
  <2>1. CASE ServerCancels
    <3>1. active' \in BOOLEAN
      BY <1>1, <2>1 DEF ServerCancels
    <3>2. TaskTypes'
      BY <1>1, <2>1 DEF ServerCancels, TaskTypes
    <3> QED BY <3>1, <3>2
  <2>2. CASE ~ServerCancels
    <3> USE DEF AudioEnds, CallerSpeaks, CallerGoesOn, EchoHeard, UtteranceEnds, TimePasses
    <3>1. active' \in {active, FALSE}
      BY <1>5, <2>2 DEF OutsideStep, MaybeFailed
    <3>2. TaskTypes'
      BY <1>1, <1>5, <2>2 DEF OutsideStep, TaskTypes, tasks
    <3> QED BY <3>1, <3>2, Frames
  <2> QED BY <2>1, <2>2
<1>6. CASE UNCHANGED vars
  BY <1>6, Frames DEF vars
<1> QED BY <1>2, <1>3, <1>4, <1>5, <1>6 DEF Next

LEMMA CutTyped ==
  ASSUME Typed, [Next]_vars PROVE cut' \in BOOLEAN
<1>1. cut' \in {cut, TRUE}
  <2>1. CASE RunStep
    BY <2>1 DEF RunStep, AwaitStart, GreetingEnds, Wake, CloseStt, FlushSpoken, Finalize,
       RepeatSpoken
  <2>2. CASE LoopStep
    BY <2>2, LoopKeepsMain
  <2>3. CASE GuardStep
    BY <2>3, GuardKeepsMain
  <2>4. CASE OutsideStep
    BY <2>4 DEF OutsideStep, AudioEnds, CallerSpeaks, CallerGoesOn, EchoHeard, UtteranceEnds,
       TimePasses, ServerCancels
  <2>5. CASE UNCHANGED vars
    BY <2>5 DEF vars
  <2> QED BY <2>1, <2>2, <2>3, <2>4, <2>5 DEF Next
<1>2. cut \in BOOLEAN
  BY Groups
<1> QED BY Zenon, <1>1, <1>2

LEMMA OutTyped ==
  ASSUME Typed, [Next]_vars PROVE OutTypes'
<1>1. CASE RunStep
  <2>1. CASE CloseStt
    BY <2>1, Frames, TranscriptGroups DEF CloseStt, Tasks
  <2> QED BY <1>1, <2>1, Frames DEF RunStep, AwaitStart, GreetingEnds, Wake, FlushSpoken,
         Finalize, RepeatSpoken, StreamEnds, Tasks
<1>2. CASE LoopStep
  <2>1. CASE Dequeue
    BY <2>1, Frames, Groups DEF Dequeue, OutTypes, Tasks
  <2> QED BY <1>2, <2>1, Frames DEF LoopStep, LoopTest, StillQuiet, WarnSilence,
         SilenceTimeout, WarningSpoken, GoodbyeSpoken, StartReply, ReplyEnds, ReplyHandled,
         EmergencyTransfer, PleaSpoken, HandleBooking, ServedSilently, SpeakResult, ResultSpoken,
         EndCallSignal, LoopError, StreamEnds, Tasks
<1>3. CASE GuardStep
  BY <1>3, Frames DEF GuardStep, SoftLimit, AdviceSpoken, HardLimit, HardLimitSpoken,
     StreamEnds, Tasks
<1>4. CASE OutsideStep
  <2>1. CASE CallerSpeaks \/ CallerGoesOn
    BY <2>1, Groups DEF CallerSpeaks, CallerGoesOn, SpeechStarted, OutTypes
  <2>2. CASE UtteranceEnds
    BY <2>2, TranscriptGroups DEF UtteranceEnds, Tasks
  <2> QED BY <1>4, <2>1, <2>2, Frames DEF OutsideStep, AudioEnds, EchoHeard, TimePasses,
         ServerCancels
<1>5. CASE UNCHANGED vars
  BY <1>5, Frames DEF vars
<1> QED BY <1>1, <1>2, <1>3, <1>4, <1>5 DEF Next

\* The other variables change in few actions.
LEMMA RestTyped ==
  ASSUME Typed, [Next]_vars
  PROVE  queue' \in Seq(Items) /\ HearTypes' /\ TimeTypes' /\ SignalTypes'
<1> DEFINE Rest == queue' \in Seq(Items) /\ HearTypes' /\ TimeTypes' /\ SignalTypes'
<1>1. queue \in Seq(Items) /\ HearTypes /\ TimeTypes /\ SignalTypes
  BY Groups
<1>2. ASSUME UNCHANGED <<queue, hearing, timing>>, UNCHANGED signals \/ TurnOver PROVE Rest
  BY <1>1, <1>2, Frames
<1>3. ASSUME NEW t \in Tasks, Transcript(t) PROVE Rest
  BY <1>3, TranscriptGroups
<1>4. CASE CallerSpeaks \/ CallerGoesOn \/ EchoHeard
  <2>1. HearTypes'
    BY <1>1, <1>4, BoundAssumption
       DEF CallerSpeaks, CallerGoesOn, EchoHeard, HearTypes, Counted
  <2> QED BY <1>1, <1>4, <2>1, Frames DEF CallerSpeaks, CallerGoesOn, EchoHeard
<1>5. CASE TimePasses \/ WarnSilence
  <2>1. TimeTypes'
    <3>1. quiet' \in 0..2
      BY <1>1, <1>5 DEF TimePasses, WarnSilence, TimeTypes
    <3>2. warned' \in BOOLEAN /\ asked' \in BOOLEAN
      BY Zenon, <1>1, <1>5 DEF TimePasses, WarnSilence, TimeTypes
    <3> QED BY <3>1, <3>2, TimesTyped
  <2> QED BY <1>1, <1>5, <2>1, Frames DEF TimePasses, WarnSilence
<1>6. CASE Dequeue
  <2>1. queue' \in Seq(Items)
    BY <1>6, QueueTypes DEF Dequeue, Typed
  <2>2. TimeTypes'
    BY Zenon, <1>1, <1>6, TimesReset DEF Dequeue
  <2> QED BY <1>6, <2>1, <2>2, Frames DEF Dequeue
<1>7. CASE ReplyEnds
  <2>1. TimeTypes' /\ SignalTypes'
    <3>1. TimeTypes'
      BY Zenon, <1>1, <1>7, TimesReset DEF ReplyEnds
    <3>2. SignalTypes'
      BY <1>7 DEF ReplyEnds, SignalTypes
    <3> QED BY <3>1, <3>2
  <2> QED BY <1>1, <1>7, <2>1, Frames DEF ReplyEnds
<1>8. CASE HandleBooking
  <2>1. SignalTypes'
    BY <1>1, <1>8 DEF HandleBooking, SignalTypes
  <2> QED BY <1>1, <1>8, <2>1, Frames DEF HandleBooking
<1>9. CASE UtteranceEnds \/ CloseStt
  <2>1. CASE Transcript("stt") \/ Transcript("main")
    BY <2>1, <1>3 DEF Tasks
  <2> QED BY <1>2, <1>9, <2>1 DEF UtteranceEnds, CloseStt
<1>10. CASE UNCHANGED vars
  BY <1>2, <1>10 DEF vars
<1>11. CASE RunStep
  BY <1>2, <1>9, <1>11 DEF RunStep, AwaitStart, GreetingEnds, Wake, FlushSpoken, Finalize,
     RepeatSpoken
<1>12. CASE LoopStep
  BY <1>2, <1>5, <1>6, <1>7, <1>8, <1>12 DEF LoopStep, LoopTest, StillQuiet,
     SilenceTimeout, WarningSpoken, GoodbyeSpoken, StartReply, ReplyHandled,
     EmergencyTransfer, PleaSpoken, ServedSilently, SpeakResult, ResultSpoken, EndCallSignal, LoopError
<1>13. CASE GuardStep
  BY <1>2, <1>13 DEF GuardStep, SoftLimit, AdviceSpoken, HardLimit, HardLimitSpoken
<1>14. CASE OutsideStep
  BY <1>2, <1>4, <1>5, <1>9, <1>14 DEF OutsideStep, AudioEnds, ServerCancels
<1> QED BY <1>10, <1>11, <1>12, <1>13, <1>14 DEF Next

\* Type correctness, for any number of utterances.  Inductive together with
\* Counted: the streak of low-confidence utterances is bounded by their number.
THEOREM TypeCorrect == Spec => []TypeOK
<1>1. Init => Typed
  <2> SUFFICES ASSUME Init PROVE Typed
    OBVIOUS
  <2>1. <<>> \in Seq(Items) /\ 0 \in 0..MaxUtterances
    BY BoundAssumption
  <2>2. TaskTypes /\ active \in BOOLEAN /\ cut \in BOOLEAN /\ OutTypes
    BY DEF Init, TaskTypes, OutTypes
  <2>3. queue \in Seq(Items) /\ HearTypes
    <3>1. Counted /\ queue \in Seq(Items)
      BY <2>1 DEF Init, Counted
    <3> QED BY Zenon, <2>1, <3>1 DEF Init, HearTypes
  <2>4. TimeTypes /\ SignalTypes
    <3>1. 0 \in 0..2
      OBVIOUS
    <3> QED BY Zenon, <3>1 DEF Init, TimeTypes, SignalTypes
  <2> QED BY <2>2, <2>3, <2>4, Groups
<1>2. Typed /\ [Next]_vars => Typed'
  BY TasksTyped, CutTyped, OutTyped, RestTyped, Groups
<1>3. Typed => TypeOK
  BY DEF Typed
<1> QED BY <1>1, <1>2, <1>3, PTL DEF Spec
=============================================================================
