----------------------------- MODULE MCWritten ------------------------------
(***************************************************************************)
(* The two kinds of conversation in writing, side by side on a small       *)
(* instance.  They share no variable and no property is about both, so it  *)
(* is enough to let one of them run at a time.                             *)
(***************************************************************************)
EXTENDS Chat, Social

Init == ChatInit /\ SocialInit
Next == \/ ChatNext /\ UNCHANGED socialVars
        \/ SocialNext /\ UNCHANGED chatVars
Spec == Init /\ [][Next]_<<chatVars, socialVars>>

OneAtATime ==
  \/ \A m \in Messages : task[m] = Idle
  \/ \A s \in Sockets : socket[s] = Waiting

Symmetry == Permutations(Sockets) \cup Permutations(Messages)
=============================================================================
