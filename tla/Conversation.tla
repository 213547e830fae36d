---------------------------- MODULE Conversation -----------------------------
(***************************************************************************)
(* What a call remembers: the reply loop _llm_tts_loop of voice/           *)
(* websocket_handler.py seen from its data.  A turn goes to two memories:  *)
(* ContextManager (voice/context_manager.py) keeps a window of recent      *)
(* turns and has older ones summarised by the LLM, which takes time and    *)
(* may fail or be cancelled by a hang-up; ImmigrationAgent (agent/         *)
(* llm_agent.py) keeps the history it sends to the LLM.  Answers to the    *)
(* questions of agent/intake_flow.py are taken from the caller's words.    *)
(* What is said, voices, barge-in and timeouts are in module CallSession;  *)
(* a turn here is who spoke and in which round.                            *)
(***************************************************************************)
EXTENDS Naturals, Sequences, FiniteSets

CONSTANTS
  HISTORY_MAX_TURNS,   \* 6 in the code
  TURNS_TO_COMPRESS,   \* _TURNS_TO_COMPRESS, 4 in the code
  SummaryTurns,        \* older turns that _SUMMARY_MAX_CHARS leaves room for
  Questions,           \* INTAKE_QUESTIONS whose conditions hold: 1..Questions
  CaseType,            \* the one of them that asks for case_type
  Markers,             \* phases whose PHASE: marker the LLM may write
  MaxRounds            \* bound: utterances of the caller that get to the LLM

ASSUME WindowAssumption == HISTORY_MAX_TURNS \in Nat /\ TURNS_TO_COMPRESS \in 1..HISTORY_MAX_TURNS
ASSUME SummaryAssumption == SummaryTurns \in Nat
ASSUME QuestionsAssumption == Questions \in Nat /\ CaseType \in 1..Questions
ASSUME RoundsAssumption == MaxRounds \in Nat

\* In the order of a call.
ConversationPhase == {"greeting", "identification", "urgency_triage", "intake",
                      "consultation_pitch", "booking", "confirmation", "closing"}
IntakePhases == {"greeting", "identification", "urgency_triage", "intake"}

ASSUME MarkersAssumption == Markers \subseteq ConversationPhase \ {"greeting"}

VARIABLES
  pc,           \* where the reply loop is
  round,        \* utterances taken from _transcript_queue
  window,       \* CallState.turns
  taken,        \* to_compress: turns on their way into the summary
  summary,      \* CallState.summary: the turns whose gist it still has
  history,      \* ImmigrationAgent._history
  agentPhase,   \* ImmigrationAgent.phase
  statePhase,   \* CallState.phase
  intake,       \* CallState.intake: where the answer to each question comes from
  score,        \* CallState.lead_score, after the call
  (* Consumed by the properties only: *)
  said,         \* every turn given to add_turn, in order
  dropped       \* turns whose compression was cancelled

context == <<window, taken, summary, said>>
phases  == <<agentPhase, statePhase>>
vars    == <<pc, round, context, history, phases, intake, score, dropped>>

Fields == 1..Questions

\* An answer not given yet, one that the fast path took from the words of a
\* round (1..MaxRounds), one extracted by the LLM after the call, and a name
\* that the CRM knew before it.
Missing   == 0
Extracted == MaxRounds + 1
Known     == MaxRounds + 2

\* "agent": a reply the LLM finished.  "partial": one that the caller interrupted,
\* or that ends in the apology for an error of the LLM.
Turn(who) == [who |-> who, round |-> round]
Turns == [who : {"caller", "agent", "partial"}, round : Nat]

TypeOK ==
  /\ pc \in {"greeting", "listening", "compressing", "asking", "replying", "noting", "saving",
             "over", "finalized"}
  /\ round \in 0..MaxRounds
  /\ window \in Seq(Turns) /\ taken \in Seq(Turns) /\ summary \in Seq(Turns)
  /\ said \in Seq(Turns) /\ dropped \in Seq(Turns)
  /\ history \in Seq(Turns)
  /\ agentPhase \in ConversationPhase /\ statePhase \in ConversationPhase
  /\ intake \in [Fields -> 0..Known]
  /\ score \in 0..100

\* A new call, being greeted: the order to do so is the first message from the
\* "caller", of round 0.  lookup_caller may have a name for the first question.
Init ==
  /\ pc = "greeting" /\ round = 0
  /\ window = <<>> /\ taken = <<>> /\ summary = <<>> /\ said = <<>> /\ dropped = <<>>
  /\ history = <<Turn("caller")>>
  /\ agentPhase = "greeting" /\ statePhase = "greeting"
  /\ \E known \in {Missing, Known} :
       intake = [f \in Fields |-> IF f = 1 THEN known ELSE Missing]
  /\ score = 0

-----------------------------------------------------------------------------
(***************************************************************************)
(* ContextManager                                                          *)
(***************************************************************************)

Suffix(s, n) == SubSeq(s, Len(s) - n + 1, Len(s))

\* Where the loop goes on once add_turn(t) has returned.
After(t) == IF t.who = "caller" THEN "asking" ELSE "noting"

\* add_turn: a full window has its oldest turns taken out before the LLM is
\* asked for their summary.
AddTurn(t) ==
  LET w == Append(window, t) IN
  /\ said' = Append(said, t)
  /\ IF Len(w) > HISTORY_MAX_TURNS
       THEN /\ taken' = SubSeq(w, 1, TURNS_TO_COMPRESS)
            /\ window' = SubSeq(w, TURNS_TO_COMPRESS + 1, Len(w))
            /\ pc' = "compressing"
       ELSE /\ window' = w
            /\ pc' = After(t)
            /\ UNCHANGED taken
  /\ UNCHANGED summary

\* The summary is cut from the front, but only when it is merged with an older one.
Merged ==
  LET both == summary \o taken IN
  IF summary # <<>> /\ Len(both) > SummaryTurns THEN Suffix(both, SummaryTurns) ELSE both

Compressed ==
  /\ pc = "compressing"
  /\ pc' = After(said[Len(said)])
  /\ summary' = Merged
  /\ taken' = <<>>
  /\ UNCHANGED <<round, window, said, history, phases, intake, score, dropped>>

\* Faulty variant: the turns are restored behind those that came since.
RestoreAtTheEnd ==
  /\ pc = "compressing"
  /\ pc' = After(said[Len(said)])
  /\ window' = window \o taken
  /\ taken' = <<>>
  /\ UNCHANGED <<round, summary, said, history, phases, intake, score, dropped>>

\* Faulty variant: what could not be summarised is forgotten.
ForgetTheRest ==
  /\ pc = "compressing"
  /\ pc' = After(said[Len(said)])
  /\ dropped' = taken
  /\ taken' = <<>>
  /\ UNCHANGED <<round, window, summary, said, history, phases, intake, score>>

\* _summarize raised an Exception.
CompressionFails ==
  /\ pc = "compressing"
  /\ pc' = After(said[Len(said)])
  /\ window' = taken \o window
  /\ taken' = <<>>
  /\ UNCHANGED <<round, summary, said, history, phases, intake, score, dropped>>

-----------------------------------------------------------------------------
(***************************************************************************)
(* ImmigrationAgent                                                        *)
(***************************************************************************)

\* greeting_stream: only a greeting heard to its end is remembered, and the context
\* never knows of it.
Greet ==
  /\ pc = "greeting"
  /\ pc' = "listening"
  /\ history' \in {history, Append(history, Turn("agent"))}
  /\ UNCHANGED <<round, context, phases, intake, score, dropped>>

\* The caller's words leave the transcript queue.
CallerTurn ==
  /\ pc = "listening" /\ round < MaxRounds
  /\ round' = round + 1
  /\ AddTurn([who |-> "caller", round |-> round + 1])
  /\ UNCHANGED <<history, phases, intake, score, dropped>>

\* Faulty variant: the agent is only told in the phases that put a question.
AskInIntakeOnly ==
  /\ pc = "asking"
  /\ pc' = "replying"
  /\ history' = IF agentPhase \in IntakePhases THEN Append(history, Turn("caller")) ELSE history
  /\ UNCHANGED <<round, context, phases, intake, score, dropped>>

\* respond_stream: the words go into the history before anything can fail.
Ask ==
  /\ pc = "asking"
  /\ pc' = "replying"
  /\ history' = Append(history, Turn("caller"))
  /\ UNCHANGED <<round, context, phases, intake, score, dropped>>

\* Not necessarily to the next phase, and possibly back.
MaybeAdvancePhase == agentPhase' \in {agentPhase} \cup Markers

\* The reply was read to its end: it is remembered, and a PHASE: marker in it
\* moves the agent's phase, which is not the phase of the call's state.  A reply
\* of nothing but signals is withheld, and leaves the loop empty-handed.
ReplyRead ==
  /\ pc = "replying"
  /\ history' = Append(history, Turn("agent"))
  /\ MaybeAdvancePhase
  /\ \/ AddTurn(Turn("agent"))
     \/ pc' = "listening" /\ UNCHANGED context
  /\ UNCHANGED <<round, statePhase, intake, score, dropped>>

\* Barge-in abandons the stream in the middle, an error of the LLM ends it with an
\* apology: what was spoken is given to the context only, if there is any.
ReplyCut ==
  /\ pc = "replying"
  /\ \/ AddTurn(Turn("partial"))
     \/ pc' = "listening" /\ UNCHANGED context
  /\ UNCHANGED <<round, history, phases, intake, score, dropped>>

-----------------------------------------------------------------------------
(***************************************************************************)
(* Intake                                                                  *)
(***************************************************************************)

Unanswered == {f \in Fields : intake[f] = Missing}

\* next_question.
IsNextQuestion(f) == f \in Unanswered /\ \A g \in Unanswered : f <= g

\* Faulty variant: the words are tried on every open question.
NoteOnAll ==
  /\ pc = "noting"
  /\ pc' = "saving"
  /\ \E fits \in SUBSET Unanswered :
       intake' = [f \in Fields |-> IF f \in fits THEN round ELSE intake[f]]
  /\ UNCHANGED <<round, context, history, phases, score, dropped>>

\* extract_field_from_response finds the answer to the next question in the words
\* of this round, or it does not; record_intake.
NoteAnswer ==
  /\ pc = "noting"
  /\ pc' = "saving"
  /\ \/ /\ statePhase \in IntakePhases
        /\ \E f \in Fields : IsNextQuestion(f) /\ intake' = [intake EXCEPT ![f] = round]
     \/ UNCHANGED intake
  /\ UNCHANGED <<round, context, history, phases, score, dropped>>

\* save_call_state has written the state to Redis, or raised.
StateSaved ==
  /\ pc = "saving"
  /\ pc' = "listening"
  /\ UNCHANGED <<round, context, history, phases, intake, score, dropped>>

-----------------------------------------------------------------------------
(***************************************************************************)
(* The end of the call                                                     *)
(***************************************************************************)

\* Every await of the loop can be the last one.  CancelledError is no Exception:
\* turns that were being compressed are in neither place any more.
HangUp ==
  /\ pc \in {"greeting", "listening", "compressing", "replying", "saving"}
  /\ pc' = "over"
  /\ dropped' = taken /\ taken' = <<>>
  /\ UNCHANGED <<round, window, summary, said, history, phases, intake, score>>

\* LeadScorer.  Case values: the cheapest named kind of case, the dearest, and what
\* counts when nothing is known.  Readiness is what the LLM says it is: no range
\* is enforced, and without an answer of the LLM it is 10.
CaseValues == {8, 25}
UnknownCase == 5
DefaultReadiness == 10
Readiness == {0, DefaultReadiness, 25, 60}
CriticalFields == 6

Min2(a, b) == IF a <= b THEN a ELSE b

\* ceil(2.5 urgency), the share of the critical fields by the number of keys, the sum.
LeadScore(caseValue, urgency, readiness, facts) ==
  Min2(caseValue + Min2((5 * urgency + 1) \div 2, 25) + readiness
         + Min2((25 * facts) \div CriticalFields, 25), 100)

\* The urgency score of a call: UrgencyClassifier only starts when the phase of the
\* call's state has moved on, which nothing does.
UrgencyScore == 0

\* Keys of intake: the caller's number is always one of them.
Facts(answers) == 1 + Cardinality({f \in Fields : answers[f] # Missing})

\* _finalize_call, from extract_intake_data to the score: what the LLM extracts from its history wins over what the fast
\* path found; the score is made of the result.
Finalize ==
  /\ pc = "over"
  /\ pc' = "finalized"
  /\ \E found \in SUBSET Fields, readiness \in Readiness :
       LET answers == [f \in Fields |-> IF f \in found THEN Extracted ELSE intake[f]] IN
       /\ intake' = answers
       /\ \E value \in IF answers[CaseType] = Missing THEN {UnknownCase} ELSE CaseValues :
            score' = LeadScore(value, UrgencyScore, readiness, Facts(answers))
  /\ UNCHANGED <<round, context, history, phases, dropped>>

Next ==
  \/ CallerTurn \/ Compressed \/ CompressionFails
  \/ Greet \/ Ask \/ ReplyRead \/ ReplyCut
  \/ NoteAnswer \/ StateSaved
  \/ HangUp \/ Finalize

Spec == Init /\ [][Next]_vars

-----------------------------------------------------------------------------
(* Properties.                                                              *)

IsSuffixOf(s, t) ==
  /\ Len(s) <= Len(t)
  /\ \A k \in 1..Len(s) : s[k] = t[Len(t) - Len(s) + k]

\* What the summary, the compression under way and the window hold is the latest
\* part of the conversation, whole and in order, whichever compressions failed.
ContextIsRecentPast ==
  dropped = <<>> => IsSuffixOf(summary \o taken \o window, said)

\* Only a hang-up loses turns: one block of the oldest in the window, and the last
\* turn of all is never among them.
HangUpLosesOneBlock ==
  dropped # <<>> =>
    /\ pc \in {"over", "finalized"}
    /\ Len(dropped) = TURNS_TO_COMPRESS
    /\ IsSuffixOf(summary \o dropped \o window, said)
    /\ window # <<>>

InHistory(t) == \E k \in DOMAIN history : history[k] = t

\* The agent's own history has every turn the context has been given, but for
\* replies that were cut and the words being handed over: whatever goes wrong in a
\* round, the next reply and the extraction after the call know what was said.
HistoryKnowsTheCall ==
  \A k \in DOMAIN said :
    \/ InHistory(said[k])
    \/ said[k].who = "partial"
    \/ k = Len(said) /\ said[k].who = "caller" /\ pc \in {"compressing", "asking", "over", "finalized"}

Heard(f) == intake[f] \in 1..MaxRounds

\* Answers are taken in the order of the questions, each from words of its own: an
\* utterance never answers two questions.
AnswersInOrder ==
  pc # "finalized" =>
    \A f, g \in Fields :
      f < g /\ Heard(g) => intake[f] # Missing /\ (Heard(f) => intake[f] < intake[g])
=============================================================================
