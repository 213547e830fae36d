\* The code's proportions, smaller: the window fills three times, compressions fail
\* or not, and the summary is cut.
SPECIFICATION Spec
CONSTANTS
  HISTORY_MAX_TURNS = 3
  TURNS_TO_COMPRESS = 2
  SummaryTurns = 2
  Questions = 3
  CaseType = 2
  Markers = {"intake", "booking"}
  MaxRounds = 4
INVARIANTS
  ContextIsRecentPast
  HangUpLosesOneBlock
  HistoryKnowsTheCall
  AnswersInOrder
CHECK_DEADLOCK FALSE
