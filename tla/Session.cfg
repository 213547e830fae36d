\* Three utterances in one call, which is what the low-confidence handoff takes; the
\* limits are reached and the server may cancel the call.  A finalised call takes no
\* more steps.
SPECIFICATION Running
CONSTANTS
  MaxUtterances = 3
  LimitsReached = TRUE
  ServerMayStop = TRUE
INVARIANTS
  SpeakingOnlyWhileStreaming
  FinalizeAlone
PROPERTIES
  SilenceHangUpIsWarned
  EndedCallIsFinalized
  CallIsBounded
CHECK_DEADLOCK FALSE
