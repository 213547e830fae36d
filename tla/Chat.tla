-------------------------------- MODULE Chat --------------------------------
(***************************************************************************)
(* A session of the web widget (chat/session.py, chat/router.py), answered *)
(* over WebSockets with retrieved knowledge.  It is one value in Redis,    *)
(* which handlers read, change and write back whole; between a reading and *)
(* its writing another handler may run.                                    *)
(* Left out: what the turns say, the limit of 30 messages a minute, which  *)
(* drops a message before the session is read, and what staff are told of  *)
(* the tables of the office, which is only read.                           *)
(***************************************************************************)
EXTENDS Retrieval, Turns

CONSTANTS
  Sockets,      \* openings of the WebSocket of the session
  KeptTurns,    \* turns append_turn keeps, 12 in the code
  MaxQuestions, \* bound: messages over the WebSockets
  MaxChatFaults \* bound: failures of the model, of Redis and of the network, expiries

ASSUME KeptTurnsIsNat == KeptTurns \in Nat

VARIABLES
  session,  \* chat_session:*, as one value
  socket,   \* the handlers of chat_websocket
  asked,    \* messages received over the WebSockets
  chatFaults,
  (* Consumed by the properties only: *)
  admitted, \* the WebSockets that were accepted
  late,     \* those that first read the session after another was accepted
  said      \* turns written by append_turn

chatVars == <<session, socket, asked, chatFaults, admitted, late, said>>

ChatFault == chatFaults < MaxChatFaults /\ chatFaults' = chatFaults + 1

-----------------------------------------------------------------------------
(***************************************************************************)
(* The widget.  A handler holds session, what it last got from append_turn *)
(* for a user's turn, and data, what it is about to write.                 *)
(***************************************************************************)
Modes     == {"client", "staff"}
Languages == {"en", "es"}
\* Phases stand for two kinds: the opening ones and those of _RAG_PHASES.
Phases    == {"GREETING", "INTAKE"}
RagPhases == {"INTAKE"}
NoSession == [there |-> FALSE]
NoContext == [chunks |-> <<>>, found |-> {}]
Of(chunks) == {c[1] : c \in ToSet(chunks)}

Fresh(mode, lang) ==
  [there |-> TRUE, token |-> TRUE, mode |-> mode, lang |-> lang, phase |-> "GREETING", turns |-> <<>>]
Waiting == [at |-> "connecting", session |-> NoSession, data |-> NoSession,
            query |-> 0, context |-> NoContext]
Ready   == [Waiting EXCEPT !.at = "open"]

Set(s, r) == socket' = [socket EXCEPT ![s] = r]

\* Faulty variant: the token is compared and left where it is.
TokenRead(blob) == blob
WithoutToken(blob) == [blob EXCEPT !.token = FALSE]

\* get_session, then the token, which must be the one of the session.
Connects(s) ==
  /\ socket[s].at = "connecting"
  /\ Set(s, IF session.there /\ session.token
            THEN [socket[s] EXCEPT !.at = "accepting", !.data = WithoutToken(session)]
            ELSE [Waiting EXCEPT !.at = "closed"])
  /\ late' = IF admitted # {} THEN late \cup {s} ELSE late
  /\ UNCHANGED <<session, asked, admitted, said, chatFaults>>

Accepts(s) ==
  /\ socket[s].at = "accepting"
  /\ session' = socket[s].data
  /\ admitted' = admitted \cup {s}
  /\ Set(s, Ready)
  /\ UNCHANGED <<asked, late, said, chatFaults>>

\* Invalid, empty and too many messages leave no trace.
Receives(s) ==
  /\ socket[s].at = "open" /\ asked < MaxQuestions
  /\ asked' = asked + 1
  /\ Set(s, [socket[s] EXCEPT !.at = "asking", !.query = asked + 1])
  /\ UNCHANGED <<session, admitted, late, said, chatFaults>>

\* append_turn, up to its reading and after it.
Appended(turn) == [session EXCEPT !.turns = LastTurns(Append(@, turn), KeptTurns)]
ReadsToAppend(s, from, to, missing, turn) ==
  /\ socket[s].at = from
  /\ Set(s, IF session.there
            THEN [socket[s] EXCEPT !.at = to, !.data = Appended(turn)]
            ELSE [socket[s] EXCEPT !.at = missing])
  /\ UNCHANGED <<session, asked, admitted, late, said, chatFaults>>
Writes(s, turn) ==
  /\ session' = socket[s].data
  /\ said' = Append(said, turn)
  /\ UNCHANGED <<asked, admitted, late, chatFaults>>

\* A session that has expired closes the WebSocket.
ReadsForQuestion(s) ==
  ReadsToAppend(s, "asking", "writing question", "closed", User(socket[s].query))
WritesQuestion(s) ==
  /\ socket[s].at = "writing question"
  /\ Writes(s, User(socket[s].query))
  /\ Set(s, [socket[s] EXCEPT !.at = "retrieving", !.session = socket[s].data, !.data = NoSession])

Own(lang)    == IF lang = "es" THEN Spanish ELSE English
Others(lang) == IF lang = "es" THEN English ELSE Spanish
Passages     == English \cup Spanish
Results      == [lang \in Languages |-> [path \in {"fast", "full"} |-> [found \in SUBSET Passages |->
                   Retrieved(path, Own(lang), Others(lang), found)]]]

\* The question goes without context when half a second has passed, after an
\* error, and when the result comes from rag:cache:*, as a list of dicts that
\* build_rag_context cannot read.
Retrieves(s) ==
  LET blob == socket[s].session
      Prompt(context) == Set(s, [socket[s] EXCEPT !.at = "answering", !.context = context])
  IN
  /\ socket[s].at = "retrieving"
  /\ \/ Prompt(NoContext)
     \/ /\ blob.mode = "staff" \/ blob.phase \in RagPhases
        /\ \E path \in {"fast", "full"}, found \in SUBSET Passages :
             \E result \in Results[blob.lang][path][found] \ {<<>>} :
               \E chunks \in InPrompt(result) :
                 Prompt([chunks |-> chunks, found |-> found \cap Of(chunks)])
  /\ UNCHANGED <<session, asked, admitted, late, said, chatFaults>>

\* The stream of the model ends, or fails: an error instead of an answer.
Answers(s) ==
  /\ socket[s].at = "answering"
  /\ Set(s, [socket[s] EXCEPT !.at = "answered", !.context = NoContext])
  /\ UNCHANGED <<session, asked, admitted, late, said, chatFaults>>

ModelFails(s) ==
  /\ socket[s].at = "answering" /\ ChatFault
  /\ Set(s, Ready)
  /\ UNCHANGED <<session, asked, admitted, late, said>>

\* The widget is gone, or a call of Redis fails: the handler ends.
Ends(s) ==
  /\ socket[s].at \notin {"connecting", "closed"} /\ ChatFault
  /\ Set(s, [Waiting EXCEPT !.at = "closed"])
  /\ UNCHANGED <<session, asked, admitted, late, said>>

ReadsForAnswer(s) ==
  ReadsToAppend(s, "answered", "writing answer", "recorded", Assistant(socket[s].query))
WritesAnswer(s) ==
  /\ socket[s].at = "writing answer"
  /\ Writes(s, Assistant(socket[s].query))
  /\ Set(s, [socket[s] EXCEPT !.at = "recorded", !.data = NoSession])

\* _maybe_advance_chat_phase reads the session once more; then comes "done".
\* Faulty variant: the session the handler holds since the question is used.
Held(s)    == socket[s].session
Current(s) == session

ReadsPhase(s) ==
  /\ socket[s].at = "recorded"
  /\ \/ Set(s, Ready)
     \/ /\ session.there
        /\ \E new \in Phases \ {session.phase} :
             Set(s, [socket[s] EXCEPT !.at = "writing phase", !.data = [Current(s) EXCEPT !.phase = new]])
  /\ UNCHANGED <<session, asked, admitted, late, said, chatFaults>>
WritesPhase(s) ==
  /\ socket[s].at = "writing phase"
  /\ session' = socket[s].data
  /\ Set(s, Ready)
  /\ UNCHANGED <<asked, admitted, late, said, chatFaults>>

\* Every writing begins another 24 hours.
SessionExpires ==
  /\ session.there /\ \A s \in Sockets : socket[s].at \in {"connecting", "open", "closed"}
  /\ ChatFault
  /\ session' = NoSession
  /\ UNCHANGED <<socket, asked, admitted, late, said>>

-----------------------------------------------------------------------------
ChatInit ==
  /\ session \in {Fresh(mode, lang) : mode \in Modes, lang \in Languages}
  /\ socket = [s \in Sockets |-> Waiting]
  /\ asked = 0 /\ chatFaults = 0
  /\ admitted = {} /\ late = {} /\ said = <<>>

ChatNext ==
  \/ \E s \in Sockets :
       \/ Connects(s) \/ Accepts(s) \/ Receives(s)
       \/ ReadsForQuestion(s) \/ WritesQuestion(s) \/ Retrieves(s)
       \/ Answers(s) \/ ModelFails(s) \/ Ends(s)
       \/ ReadsForAnswer(s) \/ WritesAnswer(s) \/ ReadsPhase(s) \/ WritesPhase(s)
  \/ SessionExpires

ChatSpec == ChatInit /\ [][ChatNext]_chatVars

-----------------------------------------------------------------------------
\* Accepting a WebSocket spends the token for good: whoever first reads the
\* session after that is refused, whatever older handlers write back whole in
\* between (chat/router.py:1058-1064).  Two that both read before either is
\* accepted are another matter: TokenIsSingleUse.
AcceptanceSpendsToken == late \cap admitted = {}

\* What the comments promise of the token, "one-time" and "single-use"
\* (chat/router.py:12, :1012, :1063): of all the WebSockets that come with it,
\* one is accepted.
TokenIsSingleUse == Cardinality(admitted) <= 1

\* While one WebSocket at most has been accepted, a session holds the last
\* turns written, in their order and each reply after its question, through
\* failures of the model and changes of phase (chat/session.py:83-99).
ChatIsKept ==
  session.there /\ Cardinality(admitted) <= 1 =>
    session.turns = LastTurns(said, KeptTurns) /\ RepliesFollow(session.turns)

\* No passage is given to the model twice: not the same row, and no child
\* beside its parent when the parent could be looked up (rag/retrieval.py:
\* 529-586; parents are found by the search as well).
NoPassageTwice ==
  \A s \in Sockets :
    LET context == socket[s].context
        chunks  == context.chunks
    IN  \A i, j \in DOMAIN chunks :
          i # j => /\ chunks[i] # chunks[j]
                   /\ chunks[i][1] \in context.found => chunks[i][1] # chunks[j][1]
=============================================================================
