------------------------------- MODULE Social -------------------------------
(***************************************************************************)
(* A conversation on a social channel (social/webhook_handler.py, social/  *)
(* channel_router.py).  The webhook answers at once and leaves each        *)
(* message to a task of its own, so that two tasks of one conversation may *)
(* run together; each loads its context from Redis, replies, and writes    *)
(* the context back whole.                                                 *)
(* Left out: what is said and in which language, the layout of each        *)
(* channel, the contact looked up, and the event for the analytics, which  *)
(* is sent last and may fail.                                              *)
(***************************************************************************)
EXTENDS Turns

CONSTANTS
  Messages,       \* messages of the conversation
  KeptPairs,      \* _MAX_CONTEXT_TURNS, 8 in the code
  MaxSocialFaults \* bound: failures of tasks and expiries

ASSUME KeptPairsIsNat == KeptPairs \in Nat

VARIABLES
  thread,   \* social_ctx:*, as one value
  task,     \* the runs of _process_social_message or _process_whatsapp_message
  socialFaults,
  (* Consumed by the properties only: *)
  told,     \* turns written
  crossed   \* two tasks have been in progress together

socialVars == <<thread, task, socialFaults, told, crossed>>

SocialFault == socialFaults < MaxSocialFaults /\ socialFaults' = socialFaults + 1

-----------------------------------------------------------------------------
NewThread == <<>>
Idle      == [at |-> "waiting", history |-> NewThread]
Tasks     == {m \in Messages : task[m].at \in {"replying", "saving"}}
Put(m, at, history) == task' = [task EXCEPT ![m] = [at |-> at, history |-> history]]

Loads(m) ==
  /\ task[m].at = "waiting"
  /\ Put(m, "replying", Append(thread, User(m)))
  /\ crossed' = (crossed \/ Tasks # {})
  /\ UNCHANGED <<thread, told, socialFaults>>

\* An urgent message, one about an appointment and, when the model fails, any
\* message has a fixed reply.  A reply that cannot be sent is logged.
Replies(m) ==
  /\ task[m].at = "replying"
  /\ Put(m, "saving", task[m].history)
  /\ UNCHANGED <<thread, told, crossed, socialFaults>>

\* Faulty variant: the context is loaded again before the reply is added.
Reloaded(m) == thread
History(m)  == task[m].history

SavesContext(m) ==
  /\ task[m].at = "saving"
  /\ thread' = LastTurns(Append(History(m), Assistant(m)), 2 * KeptPairs)
  /\ told' = told \o <<User(m), Assistant(m)>>
  /\ Put(m, "done", NewThread)
  /\ UNCHANGED <<crossed, socialFaults>>

\* Redis cannot be reached, or the process ends.
TaskFails(m) ==
  /\ m \in Tasks /\ SocialFault
  /\ Put(m, "failed", NewThread)
  /\ UNCHANGED <<thread, told, crossed>>

ThreadExpires ==
  /\ Tasks = {} /\ thread # NewThread /\ SocialFault
  /\ thread' = NewThread
  /\ told' = <<>>
  /\ UNCHANGED <<task, crossed>>

-----------------------------------------------------------------------------
SocialInit ==
  /\ thread = NewThread
  /\ task = [m \in Messages |-> Idle]
  /\ socialFaults = 0
  /\ told = <<>> /\ crossed = FALSE

SocialNext ==
  \/ \E m \in Messages : Loads(m) \/ Replies(m) \/ SavesContext(m) \/ TaskFails(m)
  \/ ThreadExpires

SocialSpec == SocialInit /\ [][SocialNext]_socialVars

-----------------------------------------------------------------------------
\* However the tasks overlap, the history is made of messages each directly
\* followed by its own reply; and it is the last that was written, in order,
\* as long as no two messages were in progress together
\* (social/webhook_handler.py:200-239).
ThreadIsKept ==
  /\ RepliesFollow(thread)
  /\ thread # <<>> => Head(thread).role = "user"
  /\ ~crossed => thread = LastTurns(told, 2 * KeptPairs)
=============================================================================
