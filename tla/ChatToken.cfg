SPECIFICATION Spec
CONSTANTS
  English = {a}
  Spanish = {c}
  Children = 1
  MaxHits = 2
  MaxVectors = 2
  RerankTopN = 3
  FinalK = 2
  Sockets = {s1, s2}
  KeptTurns = 3
  MaxQuestions = 2
  MaxChatFaults = 2
  Messages = {m1}
  KeptPairs = 2
  MaxSocialFaults = 2
SYMMETRY Symmetry
CONSTRAINT OneAtATime
INVARIANT TokenIsSingleUse
CHECK_DEADLOCK FALSE
