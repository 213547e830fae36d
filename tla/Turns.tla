------------------------------- MODULE Turns --------------------------------
(***************************************************************************)
(* The turns of a conversation in writing: {"role", "content"} in chat/    *)
(* session.py and social/webhook_handler.py.  What a turn says is the      *)
(* message it is, or answers.                                              *)
(***************************************************************************)
EXTENDS Naturals, SequencesExt

User(m)      == [role |-> "user", of |-> m]
Assistant(m) == [role |-> "assistant", of |-> m]

LastTurns(s, n) == IF Len(s) > n THEN SubSeq(s, Len(s) - n + 1, Len(s)) ELSE s

\* Each reply directly follows the message it answers, but for a first one,
\* whose message was cut off.
RepliesFollow(turns) ==
  \A i \in 2..Len(turns) :
     turns[i].role = "assistant" => turns[i - 1] = User(turns[i].of)
=============================================================================
