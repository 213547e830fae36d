---------------------------- MODULE FrontDoorProofs -----------------------------
(***************************************************************************)
(* Proofs about FrontDoor, for any finite set of calls and any capacity.   *)
(***************************************************************************)
EXTENDS FrontDoor, FiniteSetTheorems, TLAPS

Running == {"talking", "finalising", "aborted"}

\* A call holds a place while its handler runs, and entered by an invitation.
Entered ==
    \A c \in Calls :
        /\ Serving => (c \in active <=> handler[c] \in Running)
        /\ c \in active => c \in invited
        /\ stream[c] = "/ws/call" => c \in invited
        /\ leg[c] = "new" => handler[c] = "none"
        /\ leg[c] = "connecting" /\ stream[c] = "/ws/call" => handler[c] = "none"
        /\ handler[c] = "none" => c \notin waited

\* Once the drain is over, whom it waited for has returned or been cancelled.
Cancelled ==
    /\ accepting <=> server = "up"
    /\ \A c \in Calls : handler[c] = "aborted" => c \in cancelled
    /\ server \in {"up", "draining"} => cancelled = {}
    /\ server \in {"stopping", "closing"} => waited \cap active \subseteq cancelled

IInv == TypeOK /\ PlacesAreHeldByCalls /\ Entered /\ Cancelled /\ OnlyLateCallsAreCut

LEMMA InitInv == Init => IInv
  BY PlacesIsNat, FS_EmptySet
  DEF Init, IInv, TypeOK, PlacesAreHeldByCalls, Entered, Cancelled, OnlyLateCallsAreCut,
      ServerStates, HandlerStates, Legs, Streams, MessageStates, AlertStates, Running

\* The voicemail pipeline touches nothing of the call.
LEMMA VoicemailKeeps ==
  ASSUME IInv, UNCHANGED <<shutdownVars, admissionVars, legVars>>,
         vm' \in [Calls -> MessageStates], alert' \in [Calls -> AlertStates]
  PROVE  IInv'
  BY DEF IInv, TypeOK, PlacesAreHeldByCalls, Entered, Cancelled, OnlyLateCallsAreCut,
         Serving, shutdownVars, admissionVars, legVars

LEMMA VoicemailStepKeeps ==
  ASSUME IInv, NEW c \in Calls,
         VoicemailStep(c) \/ SendAlert(c) \/ HandleVoicemailLog(c)
  PROVE  IInv'
<1>1. UNCHANGED <<shutdownVars, admissionVars, legVars>>
  BY DEF VoicemailStep, Download, Transcribe, LaunchAlert, QueueVoicemailRow, SendAlert,
         HandleVoicemailLog, Message
<1>2. vm' \in [Calls -> MessageStates] /\ alert' \in [Calls -> AlertStates]
  BY DEF IInv, TypeOK, VoicemailStep, Download, Transcribe, LaunchAlert, QueueVoicemailRow,
         SendAlert, HandleVoicemailLog, Message, MessageStates, AlertStates
<1> QED
  BY <1>1, <1>2, VoicemailKeeps

\* A caller's leg may go anywhere but back to the beginning.
LEMMA LegKeeps ==
  ASSUME IInv, NEW c \in Calls, NEW where \in Legs \ {"new", "connecting"},
         leg' = [leg EXCEPT ![c] = where],
         UNCHANGED <<shutdownVars, admissionVars, stream, invited>>,
         vm' \in [Calls -> MessageStates], UNCHANGED alert
  PROVE  IInv'
<1>1. TypeOK' /\ PlacesAreHeldByCalls' /\ Cancelled' /\ OnlyLateCallsAreCut'
  BY DEF IInv, TypeOK, PlacesAreHeldByCalls, Cancelled, OnlyLateCallsAreCut,
         shutdownVars, admissionVars
<1>2. Entered'
  BY DEF IInv, TypeOK, Entered, Serving, shutdownVars, admissionVars
<1> QED
  BY <1>1, <1>2 DEF IInv

LEMMA MenuKeeps ==
  ASSUME IInv, NEW c \in Calls,
         \/ IvrMenu(c) \/ PressDigit(c) \/ CallbackRequest(c) \/ OfferTimesOut(c)
         \/ TransferFallback(c) \/ LegEnds(c) \/ Refuse(c)
  PROVE  IInv'
<1>1. PICK where \in Legs \ {"new", "connecting"} : Goes(c, where)
  BY DEF IvrMenu, PressDigit, CallbackRequest, OfferTimesOut, TransferFallback, LegEnds,
         Refuse, IvrDigit, Legs
<1>2. UNCHANGED <<stream, invited>>
  BY DEF IvrMenu, PressDigit, CallbackRequest, OfferTimesOut, TransferFallback, LegEnds,
         Refuse
<1>3. vm' \in [Calls -> MessageStates] /\ UNCHANGED alert
  BY <1>1 DEF Goes, voicemailVars, IInv, TypeOK
<1> QED
  BY <1>1, <1>2, <1>3, LegKeeps DEF Goes

LEMMA VoicemailCallbackKeeps ==
  ASSUME IInv, NEW c \in Calls, VoicemailCallback(c)
  PROVE  IInv'
<1>1. vm' \in [Calls -> MessageStates] /\ UNCHANGED alert
  BY DEF VoicemailCallback, IInv, TypeOK, MessageStates
<1>2. "ended" \in Legs \ {"new", "connecting"}
  BY DEF Legs
<1> QED
  BY <1>1, <1>2, LegKeeps DEF VoicemailCallback

LEMMA CallbackConnectKeeps ==
  ASSUME IInv, NEW c \in Calls, CallbackConnect(c)
  PROVE  IInv'
<1>1. TypeOK' /\ PlacesAreHeldByCalls' /\ Cancelled' /\ OnlyLateCallsAreCut'
  BY DEF CallbackConnect, Goes, IInv, TypeOK, PlacesAreHeldByCalls, Cancelled,
         OnlyLateCallsAreCut, shutdownVars, admissionVars, voicemailVars, Legs, Streams
<1>2. Entered'
  BY DEF CallbackConnect, Goes, IInv, TypeOK, Entered, Serving, shutdownVars, admissionVars
<1> QED
  BY <1>1, <1>2 DEF IInv

\* Only a server that is up sends a caller to the agent.
LEMMA InboundVoiceKeeps ==
  ASSUME IInv, NEW c \in Calls, InboundVoice(c)
  PROVE  IInv'
<1>1. PICK day \in Days, hour \in Hours :
        LET where == RouteInboundCall(day, hour) IN
        /\ Goes(c, where)
        /\ stream' = [stream EXCEPT ![c] = IF where = "connecting" THEN "/ws/call" ELSE "none"]
        /\ invited' = IF where = "connecting" /\ server = "up"
                      THEN invited \cup {c} ELSE invited
  BY DEF InboundVoice
<1> DEFINE where == RouteInboundCall(day, hour)
<1>2. where \in {"connecting", "recording"} /\ (where = "connecting" => server = "up")
  BY DEF RouteInboundCall, IInv, Cancelled
<1>3. /\ leg' = [leg EXCEPT ![c] = where]
      /\ stream' = [stream EXCEPT ![c] = IF where = "connecting" THEN "/ws/call" ELSE "none"]
      /\ invited' = IF where = "connecting" THEN invited \cup {c} ELSE invited
      /\ UNCHANGED <<shutdownVars, admissionVars, voicemailVars>>
  BY <1>1, <1>2 DEF Goes
<1> HIDE DEF where
<1>4. TypeOK' /\ PlacesAreHeldByCalls' /\ Cancelled' /\ OnlyLateCallsAreCut'
  BY <1>2, <1>3 DEF IInv, TypeOK, PlacesAreHeldByCalls, Cancelled, OnlyLateCallsAreCut,
         shutdownVars, admissionVars, voicemailVars, Legs, Streams
<1>5. handler[c] = "none"
  BY DEF InboundVoice, IInv, Entered
<1>6. Entered'
  BY <1>2, <1>3, <1>5 DEF IInv, TypeOK, Entered, Serving, shutdownVars, admissionVars
<1> QED
  BY <1>4, <1>6 DEF IInv

LEMMA ActiveIsFinite ==
  ASSUME IInv
  PROVE  IsFiniteSet(active) /\ Cardinality(active) \in Nat
  BY CallsAreFinite, FS_Subset, FS_CardinalityType DEF IInv, TypeOK

LEMMA AdmitKeeps ==
  ASSUME IInv, NEW c \in Calls, Admit(c)
  PROVE  IInv'
<1>1. c \notin active /\ handler[c] = "none" /\ c \in invited /\ c \notin waited
  BY DEF Admit, SocketOpens, Serving, IInv, Entered, Running
<1>2. Cardinality(active \cup {c}) = Cardinality(active) + 1
  BY <1>1, ActiveIsFinite, FS_AddElement
<1>3. PlacesAreHeldByCalls'
  BY <1>2, ActiveIsFinite, PlacesIsNat DEF Admit, IInv, TypeOK, PlacesAreHeldByCalls
<1>4. TypeOK'
  BY PlacesIsNat DEF Admit, IInv, TypeOK, shutdownVars, voicemailVars, HandlerStates, Legs
<1>5. Entered'
  BY <1>1 DEF Admit, IInv, TypeOK, Entered, Serving, Running, shutdownVars
<1>6. Cancelled' /\ OnlyLateCallsAreCut'
  BY <1>1 DEF Admit, IInv, TypeOK, Cancelled, OnlyLateCallsAreCut, shutdownVars
<1> QED
  BY <1>3, <1>4, <1>5, <1>6 DEF IInv

LEMMA CallEndsKeeps ==
  ASSUME IInv, NEW c \in Calls, CallEnds(c)
  PROVE  IInv'
<1>1. TypeOK' /\ PlacesAreHeldByCalls'
  BY DEF CallEnds, IInv, TypeOK, PlacesAreHeldByCalls, shutdownVars, voicemailVars,
         HandlerStates, Legs
<1>2. Entered'
  BY DEF CallEnds, IInv, TypeOK, Entered, Serving, Running, shutdownVars
<1>3. Cancelled' /\ OnlyLateCallsAreCut'
  BY DEF CallEnds, IInv, TypeOK, Cancelled, OnlyLateCallsAreCut, shutdownVars
<1> QED
  BY <1>1, <1>2, <1>3 DEF IInv

LEMMA ReturnKeeps ==
  ASSUME IInv, NEW c \in Calls, Return(c)
  PROVE  IInv'
<1>1. c \in active /\ handler[c] \in {"finalising", "aborted"}
  BY DEF Return, IInv, Entered, Running
<1>2. Cardinality(active \ {c}) = Cardinality(active) - 1
  BY <1>1, ActiveIsFinite, FS_RemoveElement
<1>3. IsFiniteSet(active \ {c}) /\ Cardinality(active \ {c}) \in Nat
  BY ActiveIsFinite, FS_RemoveElement, FS_CardinalityType
<1>4. PlacesAreHeldByCalls' /\ places' \in 0..Places
  BY <1>2, <1>3, ActiveIsFinite, PlacesIsNat
  DEF Return, GivesPlaceBack, IInv, TypeOK, PlacesAreHeldByCalls
<1>5. TypeOK'
  BY <1>4 DEF Return, GivesPlaceBack, IInv, TypeOK, shutdownVars, legVars, voicemailVars,
              HandlerStates
<1>6. Entered'
  BY <1>1 DEF Return, GivesPlaceBack, IInv, TypeOK, Entered, Serving, Running, shutdownVars,
              legVars
<1>7. Cancelled' /\ OnlyLateCallsAreCut'
  BY <1>1 DEF Return, GivesPlaceBack, IInv, TypeOK, Cancelled, OnlyLateCallsAreCut,
              shutdownVars, legVars
<1> QED
  BY <1>4, <1>5, <1>6, <1>7 DEF IInv

LEMMA ShutdownKeeps ==
  ASSUME IInv, Shutdown
  PROVE  IInv'
<1>1. TypeOK' /\ PlacesAreHeldByCalls'
  BY DEF Shutdown, IInv, TypeOK, PlacesAreHeldByCalls, admissionVars, legVars, voicemailVars,
         ServerStates
<1>2. Entered'
  BY DEF Shutdown, IInv, TypeOK, Entered, Serving, Running, admissionVars, legVars
<1>3. \A c \in Calls : handler[c] # "cut" \/ c \in cancelled \/ c \notin active
  BY DEF Shutdown, IInv, Entered, Serving, Running
<1>4. Cancelled' /\ OnlyLateCallsAreCut'
  BY <1>3 DEF Shutdown, IInv, TypeOK, Cancelled, OnlyLateCallsAreCut, admissionVars, legVars
<1> QED
  BY <1>1, <1>2, <1>4 DEF IInv

LEMMA DrainDoneKeeps ==
  ASSUME IInv, DrainDone
  PROVE  IInv'
  BY DEF DrainDone, Drained, IInv, TypeOK, PlacesAreHeldByCalls, Entered, Cancelled,
         OnlyLateCallsAreCut, Serving, admissionVars, legVars, voicemailVars, ServerStates

LEMMA DrainTimeoutKeeps ==
  ASSUME IInv, DrainTimeout
  PROVE  IInv'
<1>1. handler' \in [Calls -> HandlerStates]
  BY DEF DrainTimeout, IInv, TypeOK, HandlerStates
<1>2. \A c \in Calls :
        /\ handler'[c] \in {handler[c], "finalising", "aborted"}
        /\ handler'[c] \in Running <=> handler[c] \in Running
        /\ handler'[c] = "aborted" => handler[c] = "aborted" \/ c \in cancelled'
        /\ handler[c] = "none" <=> handler'[c] = "none"
  BY DEF DrainTimeout, Running
<1>3. TypeOK' /\ PlacesAreHeldByCalls'
  BY <1>1 DEF DrainTimeout, IInv, TypeOK, PlacesAreHeldByCalls, voicemailVars, ServerStates,
              Legs
<1>4. Entered'
  <2> SUFFICES ASSUME NEW c \in Calls PROVE
        /\ Serving' => (c \in active' <=> handler'[c] \in Running)
        /\ c \in active' => c \in invited'
        /\ stream'[c] = "/ws/call" => c \in invited'
        /\ leg'[c] = "new" => handler'[c] = "none"
        /\ leg'[c] = "connecting" /\ stream'[c] = "/ws/call" => handler'[c] = "none"
        /\ handler'[c] = "none" => c \notin waited'
    BY DEF Entered
  <2>1. leg'[c] \in {leg[c], "ended"}
    BY DEF DrainTimeout
  <2> QED
    BY <1>2, <2>1 DEF DrainTimeout, IInv, Entered, Serving
<1>5. cancelled = {} /\ \A c \in Calls : handler[c] # "aborted"
  BY DEF DrainTimeout, IInv, Cancelled
<1>6. Cancelled'
  BY <1>2, <1>5 DEF DrainTimeout, IInv, Cancelled
<1>7. OnlyLateCallsAreCut'
  BY <1>2, <1>5 DEF DrainTimeout, IInv, OnlyLateCallsAreCut
<1> QED
  BY <1>3, <1>4, <1>6, <1>7 DEF IInv

LEMMA StopWorkersKeeps ==
  ASSUME IInv, StopWorkers
  PROVE  IInv'
  BY DEF StopWorkers, IInv, TypeOK, PlacesAreHeldByCalls, Entered, Cancelled,
         OnlyLateCallsAreCut, Serving, admissionVars, legVars, voicemailVars, ServerStates

LEMMA ExitKeeps ==
  ASSUME IInv, Exit
  PROVE  IInv'
<1>1. TypeOK' /\ PlacesAreHeldByCalls'
  BY DEF Exit, IInv, TypeOK, PlacesAreHeldByCalls, legVars, voicemailVars, ServerStates,
         HandlerStates
<1>2. \A c \in Calls : c \in active <=> handler[c] \in Running
  BY DEF Exit, IInv, Entered, Serving
<1>3. Entered'
  BY <1>2 DEF Exit, IInv, TypeOK, Entered, Serving, Running, legVars
<1>4. Cancelled'
  BY DEF Exit, IInv, TypeOK, Cancelled, legVars
<1>5. OnlyLateCallsAreCut'
  BY DEF Exit, IInv, TypeOK, Entered, Cancelled, OnlyLateCallsAreCut, legVars
<1> QED
  BY <1>1, <1>3, <1>4, <1>5 DEF IInv

LEMMA StepKeeps ==
  ASSUME IInv, [Next]_vars
  PROVE  IInv'
<1>1. CASE UNCHANGED vars
  BY <1>1, VoicemailKeeps DEF vars, voicemailVars, IInv, TypeOK
<1>2. CASE Shutdown \/ DrainDone \/ DrainTimeout \/ StopWorkers \/ Exit
  BY <1>2, ShutdownKeeps, DrainDoneKeeps, DrainTimeoutKeeps, StopWorkersKeeps, ExitKeeps
<1>3. ASSUME NEW c \in Calls,
             \/ InboundVoice(c) \/ IvrMenu(c) \/ PressDigit(c) \/ CallbackRequest(c)
             \/ OfferTimesOut(c) \/ TransferFallback(c) \/ CallbackConnect(c)
             \/ VoicemailCallback(c) \/ LegEnds(c)
             \/ Admit(c) \/ Refuse(c) \/ CallEnds(c) \/ Return(c)
      PROVE  IInv'
  BY <1>3, InboundVoiceKeeps, MenuKeeps, CallbackConnectKeeps, VoicemailCallbackKeeps,
     AdmitKeeps, CallEndsKeeps, ReturnKeeps
<1>4. ASSUME NEW c \in Calls,
             \/ Download(c) \/ Transcribe(c) \/ LaunchAlert(c) \/ SendAlert(c)
             \/ QueueVoicemailRow(c) \/ HandleVoicemailLog(c)
      PROVE  IInv'
  BY <1>4, VoicemailStepKeeps DEF VoicemailStep
<1> QED
  BY <1>1, <1>2, <1>3, <1>4 DEF Next

\* The inductive invariant holds of every behaviour.
THEOREM InvHolds == Spec => []IInv
  BY InitInv, StepKeeps, PTL DEF Spec

\* Type correctness of FrontDoor.
THEOREM TypeCorrect == Spec => []TypeOK
<1>1. IInv => TypeOK
  BY DEF IInv
<1> QED
  BY <1>1, InvHolds, PTL

\* No place of the semaphore is lost or given out twice (websocket_handler.py:89-98).
THEOREM PlacesAreKept == Spec => []PlacesAreHeldByCalls
<1>1. IInv => PlacesAreHeldByCalls
  BY DEF IInv
<1> QED
  BY <1>1, InvHolds, PTL

\* A call that ended in time is never cut by a shutdown (main.py:65-74).
THEOREM OnlyLateAreCut == Spec => []OnlyLateCallsAreCut
<1>1. IInv => OnlyLateCallsAreCut
  BY DEF IInv
<1> QED
  BY <1>1, InvHolds, PTL
===============================================================================
