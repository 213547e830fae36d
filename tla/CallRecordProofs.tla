-------------------------- MODULE CallRecordProofs ---------------------------
(***************************************************************************)
(* Proofs about CallRecord, for any set of calls.                          *)
(***************************************************************************)
EXTENDS CallRecord, SequenceTheorems, TLAPS

USE DEF Item, FinGoes, Push, calls, redis, worker, tables

(***************************************************************************)
(* The type invariant                                                      *)
(***************************************************************************)

\* Appending an element of S to a sequence over S, and dropping its head.
LEMMA Queues ==
  ASSUME NEW S, NEW q \in Seq(S)
  PROVE  /\ \A e \in S : Append(q, e) \in Seq(S)
         /\ q # <<>> => Head(q) \in S /\ Tail(q) \in Seq(S)
  BY AppendProperties, HeadTailProperties

\* What the worker writes is a row again.
LEMMA UpsertedRow ==
  ASSUME TypeOK, NEW r \in Rows, NEW i \in Items
  PROVE  Upserted(r, i) \in Rows
<1>1. OutcomeOf(i) \in Outcomes
  BY DEF OutcomeOf, Derived, Outcomes
<1>2. booked[i.call] \in BOOLEAN
  BY DEF TypeOK, Items
<1>3. r.scored \in BOOLEAN /\ r.booked \in BOOLEAN /\ r.outcome \in Outcomes
  BY DEF Rows
<1> QED
  BY <1>1, <1>2, <1>3 DEF Upserted, Rows

\* Every variable keeps its type, for every set of calls.
THEOREM TypeCorrect == Spec => []TypeOK
<1>1. Init => TypeOK
  <2> SUFFICES ASSUME Init PROVE TypeOK
    OBVIOUS
  <2>1. NoRow \in Rows
    BY DEF NoRow, Rows, Outcomes
  <2>2. row \in [Calls -> Rows]
    BY <2>1 DEF Init
  <2>3. dbq \in Seq(Items) /\ events \in Seq(Calls)
    BY DEF Init
  <2>4. extra \in [Calls -> [Updates -> {"none", "written", "missed"}]]
    BY DEF Init
  <2> QED BY <2>2, <2>3, <2>4 DEF Init, TypeOK
<1>2. TypeOK /\ [Next]_vars => TypeOK'
  <2> SUFFICES ASSUME TypeOK, [Next]_vars PROVE TypeOK'
    OBVIOUS
  <2>1. ASSUME NEW c \in Calls, FinalizeStep(c) PROVE TypeOK'
    <3>1. CASE EndCall(c)
      BY <3>1 DEF TypeOK, EndCall
    <3>2. CASE SyncCallToCrm(c)
      <4>1. dbq' \in Seq(Items)
        BY <3>2, Queues DEF TypeOK, SyncCallToCrm, Items, Payloads
      <4> QED BY <3>2, <4>1 DEF TypeOK, SyncCallToCrm
    <3>3. CASE LaunchPipeline(c)
      BY <3>3 DEF TypeOK, LaunchPipeline
    <3>4. CASE PersistCost(c)
      <4>1. dbq' \in Seq(Items)
        BY <3>4, Queues DEF TypeOK, PersistCost, Items, Updates
      <4> QED BY <3>4, <4>1 DEF TypeOK, PersistCost
    <3>5. CASE MarkEnded(c)
      BY <3>5 DEF TypeOK, MarkEnded
    <3>6. CASE LogCallEnded(c)
      <4>1. events' \in Seq(Calls)
        BY <3>6, Queues DEF TypeOK, LogCallEnded
      <4> QED BY <3>6, <4>1 DEF TypeOK, LogCallEnded
    <3>7. CASE WriteCallSummary(c)
      <4>1. dbq' \in Seq(Items)
        BY <3>7, Queues DEF TypeOK, WriteCallSummary, Items, Updates
      <4> QED BY <3>7, <4>1 DEF TypeOK, WriteCallSummary
    <3> QED BY <2>1, <3>1, <3>2, <3>3, <3>4, <3>5, <3>6, <3>7 DEF FinalizeStep
  <2>2. ASSUME NEW c \in Calls, CallbackStep(c) PROVE TypeOK'
    <3>1. CASE StoreStatus(c)
      BY <3>1 DEF TypeOK, StoreStatus
    <3>2. CASE CheckEnded(c)
      BY <3>2 DEF TypeOK, CheckEnded
    <3>3. CASE QueueSkeleton(c)
      <4>1. dbq' \in Seq(Items)
        BY <3>3, Queues DEF TypeOK, QueueSkeleton, Items, Payloads
      <4> QED BY <3>3, <4>1 DEF TypeOK, QueueSkeleton
    <3> QED BY <2>2, <3>1, <3>2, <3>3 DEF CallbackStep
  <2>3. CASE PopDb
    <3>1. dbq \in Seq(Items) /\ hand \in Items \cup {Nothing}
      BY DEF TypeOK
    <3>2. \/ dbq' = dbq /\ hand' = hand
          \/ dbq # <<>> /\ hand' = Head(dbq) /\ dbq' = Tail(dbq)
      BY <2>3, Zenon DEF PopDb
    <3>3. dbq # <<>> => Head(dbq) \in Items /\ Tail(dbq) \in Seq(Items)
      BY <3>1, Queues, Zenon
    <3>4. dbq' \in Seq(Items) /\ hand' \in Items \cup {Nothing}
      BY <3>1, <3>2, <3>3, Zenon
    <3> QED BY <2>3, <3>4 DEF TypeOK, PopDb
  <2>4. CASE HandleDbSync
    <3>1. hand \in Items /\ hand.call \in Calls /\ row[hand.call] \in Rows
      BY <2>4 DEF TypeOK, HandleDbSync, Items
    <3>2. row' \in [Calls -> Rows]
      <4>1. Upserted(row[hand.call], hand) \in Rows
        BY <3>1, UpsertedRow, Zenon
      <4>2. row \in [Calls -> Rows] /\ row' = [row EXCEPT ![hand.call] = Upserted(@, hand)]
        BY <2>4 DEF TypeOK, HandleDbSync
      <4> QED BY <3>1, <4>1, <4>2
    <3> QED BY <2>4, <3>2 DEF TypeOK, HandleDbSync
  <2>5. CASE UpdateCallLog
    <3>1. hand \in Items /\ hand.call \in Calls /\ hand.kind \in Updates
      BY <2>5 DEF TypeOK, UpdateCallLog, Items
    <3>2. extra' \in [Calls -> [Updates -> {"none", "written", "missed"}]]
      BY <2>5, <3>1 DEF TypeOK, UpdateCallLog
    <3> QED BY <2>5, <3>2 DEF TypeOK, UpdateCallLog
  <2>6. CASE WriteFails
    <3>1. hand \in Items /\ hand.call \in Calls /\ row[hand.call] \in Rows
      BY <2>6 DEF TypeOK, WriteFails, Items
    <3>2. row' \in [Calls -> Rows]
      <4>1. Upserted(row[hand.call], hand) \in Rows
        BY <3>1, UpsertedRow, Zenon
      <4>2. row \in [Calls -> Rows] /\ (row' = row \/ row' = [row EXCEPT ![hand.call] = Upserted(@, hand)])
        BY <2>6 DEF TypeOK, WriteFails
      <4> QED BY <3>1, <4>1, <4>2
    <3>3. dlq' \in SUBSET Items
      BY <2>6, <3>1 DEF TypeOK, WriteFails
    <3> QED BY <2>6, <3>2, <3>3 DEF TypeOK, WriteFails
  <2>7. CASE PopEvent
    <3>1. CASE events = <<>>
      BY <2>7, <3>1 DEF TypeOK, PopEvent
    <3>2. CASE events # <<>>
      <4>1. Head(events) \in Calls /\ Tail(events) \in Seq(Calls)
        BY <3>2, Queues DEF TypeOK
      <4>2. events' \in Seq(Calls) /\ log' \in [Calls -> BOOLEAN]
        BY <2>7, <3>2, <4>1 DEF TypeOK, PopEvent
      <4> QED BY <2>7, <4>2 DEF TypeOK, PopEvent
    <3> QED BY <3>1, <3>2
  <2>8. CASE Restart
    BY <2>8 DEF TypeOK, Restart
  <2>9. CASE UNCHANGED vars
    BY <2>9 DEF TypeOK, vars
  <2> QED BY <2>1, <2>2, <2>3, <2>4, <2>5, <2>6, <2>7, <2>8, <2>9 DEF Next, WorkerStep
<1> QED BY <1>1, <1>2, PTL DEF Spec

(***************************************************************************)
(* The rows                                                                *)
(***************************************************************************)

\* One upsert keeps what a row has of the full payload.
LEMMA UpsertKeeps ==
  ASSUME NEW r, NEW i
  PROVE  /\ r.scored => Upserted(r, i).scored
         /\ r.booked => Upserted(r, i).booked
  BY DEF Upserted

\* Scores and appointments written for a call are never lost, whatever payloads
\* follow (the safety net of call_status_callback against _finalize_call).
THEOREM RealDataSurvives == Spec => RealDataIsKept
<1> DEFINE Keeps == \A c \in Calls : /\ row[c].scored => row'[c].scored
                                     /\ row[c].booked => row'[c].booked
<1>1. TypeOK /\ [Next]_vars => Keeps
  <2> SUFFICES ASSUME TypeOK, [Next]_vars PROVE Keeps
    OBVIOUS
  <2>1. CASE HandleDbSync \/ WriteFails
    <3>1. row' = row \/ row' = [row EXCEPT ![hand.call] = Upserted(@, hand)]
      BY <2>1 DEF HandleDbSync, WriteFails
    <3>2. \A c \in Calls : row'[c] = row[c] \/ row'[c] = Upserted(row[c], hand)
      BY <3>1 DEF TypeOK
    <3> QED BY <3>2, UpsertKeeps
  <2>2. CASE ~(HandleDbSync \/ WriteFails)
    <3>1. row' = row
      BY <2>2 DEF Next, WorkerStep, FinalizeStep, CallbackStep, EndCall, SyncCallToCrm,
         LaunchPipeline, PersistCost, MarkEnded, LogCallEnded, WriteCallSummary,
         StoreStatus, CheckEnded, QueueSkeleton, PopDb, UpdateCallLog, PopEvent,
         Restart, vars
    <3> QED BY <3>1
  <2> QED BY <2>1, <2>2
<1>2. TypeOK /\ [Next]_vars => [Keeps]_vars
  BY <1>1
<1> QED BY <1>2, TypeCorrect, PTL DEF Spec, RealDataIsKept

\* The rows of a call tell the truth about its booking and its turns.
THEOREM RecordTellsTruth == Spec => []RecordIsTrue
<1>1. Init => RecordIsTrue
  <2>1. NoRow.booked = FALSE /\ NoRow.outcome = "none"
    BY DEF NoRow
  <2>2. Init => \A c \in Calls : row[c] = NoRow
    BY DEF Init
  <2> QED BY <2>1, <2>2 DEF RecordIsTrue
<1>2. TypeOK /\ RecordIsTrue /\ [Next]_vars => RecordIsTrue'
  <2> SUFFICES ASSUME TypeOK, RecordIsTrue, [Next]_vars PROVE RecordIsTrue'
    OBVIOUS
  <2>1. booked' = booked /\ long' = long
    BY DEF Next, WorkerStep, FinalizeStep, CallbackStep, EndCall, SyncCallToCrm,
       LaunchPipeline, PersistCost, MarkEnded, LogCallEnded, WriteCallSummary,
       StoreStatus, CheckEnded, QueueSkeleton, PopDb, HandleDbSync, UpdateCallLog,
       WriteFails, PopEvent, Restart, vars
  <2>2. CASE HandleDbSync \/ WriteFails
    <3>1. hand \in Items /\ hand.call \in Calls
      BY <2>2 DEF TypeOK, HandleDbSync, WriteFails, Items
    <3>2. row' = row \/ row' = [row EXCEPT ![hand.call] = Upserted(@, hand)]
      BY <2>2 DEF HandleDbSync, WriteFails
    <3>3. OutcomeOf(hand) = "booking_made" => booked[hand.call]
      BY <3>1 DEF OutcomeOf, Derived
    <3>4. OutcomeOf(hand) = "info_only" => long[hand.call]
      BY <3>1 DEF OutcomeOf, Derived
    <3>5. ASSUME NEW c \in Calls
          PROVE  /\ row'[c].booked => booked[c]
                 /\ row'[c].outcome = "booking_made" => booked[c]
                 /\ row'[c].outcome = "info_only" => long[c]
      <4>1. CASE row'[c] = row[c]
        BY <4>1 DEF RecordIsTrue
      <4>2. CASE row'[c] # row[c]
        <5>1. c = hand.call /\ row'[c] = Upserted(row[c], hand)
          BY <3>1, <3>2, <4>2 DEF TypeOK
        <5>2. row'[c].booked => booked[c]
          <6>1. Upserted(row[c], hand).booked
                  = (row[c].booked \/ (hand.kind = "full" /\ booked[hand.call]))
            BY DEF Upserted
          <6>2. row'[c].booked => row[c].booked \/ booked[c]
            BY <5>1, <6>1, Zenon
          <6> QED BY <6>2 DEF RecordIsTrue
        <5>3. row'[c].outcome = IF OutcomeOf(hand) = "none" THEN row[c].outcome
                                                            ELSE OutcomeOf(hand)
          BY <5>1 DEF Upserted
        <5> QED BY <5>1, <5>2, <5>3, <3>3, <3>4 DEF RecordIsTrue
      <4> QED BY <4>1, <4>2
    <3> QED BY <3>5, <2>1 DEF RecordIsTrue
  <2>3. CASE ~(HandleDbSync \/ WriteFails)
    <3>1. row' = row
      BY <2>3 DEF Next, WorkerStep, FinalizeStep, CallbackStep, EndCall, SyncCallToCrm,
         LaunchPipeline, PersistCost, MarkEnded, LogCallEnded, WriteCallSummary,
         StoreStatus, CheckEnded, QueueSkeleton, PopDb, UpdateCallLog, PopEvent,
         Restart, vars
    <3> QED BY <2>1, <3>1 DEF RecordIsTrue
  <2> QED BY <2>2, <2>3
<1> QED BY <1>1, <1>2, TypeCorrect, PTL DEF Spec

(***************************************************************************)
(* The payloads                                                            *)
(***************************************************************************)

In(i, q) == \E n \in DOMAIN q : q[n] = i

\* Appending keeps every element and adds one; dropping the head loses the head.
LEMMA Membership ==
  ASSUME NEW S, NEW q \in Seq(S)
  PROVE  /\ \A e \in S : In(e, Append(q, e)) /\ \A i : In(i, q) => In(i, Append(q, e))
         /\ q # <<>> => \A i : In(i, q) => i = Head(q) \/ In(i, Tail(q))
<1>1. ASSUME NEW e \in S
      PROVE  In(e, Append(q, e)) /\ \A i : In(i, q) => In(i, Append(q, e))
  <2>1. DOMAIN Append(q, e) = 1 .. Len(q) + 1 /\ DOMAIN q = 1 .. Len(q) /\ Len(q) \in Nat
    BY AppendProperties
  <2>2. Append(q, e)[Len(q) + 1] = e /\ \A n \in DOMAIN q : Append(q, e)[n] = q[n]
    BY AppendProperties
  <2> QED BY <2>1, <2>2 DEF In
<1>2. ASSUME q # <<>>, NEW i, In(i, q) PROVE i = Head(q) \/ In(i, Tail(q))
  <2>1. PICK n \in 1 .. Len(q) : q[n] = i
    BY <1>2 DEF In
  <2>2. CASE n = 1
    BY <2>1, <2>2
  <2>3. CASE n # 1
    <3>1. Len(Tail(q)) = Len(q) - 1 /\ Tail(q) \in Seq(S)
      BY <1>2, HeadTailProperties
    <3>2. n - 1 \in 1 .. Len(Tail(q)) /\ Tail(q)[n - 1] = q[n]
      BY <1>2, <2>1, <2>3, <3>1
    <3>3. DOMAIN Tail(q) = 1 .. Len(Tail(q))
      BY <3>1
    <3> QED BY <2>1, <3>2, <3>3 DEF In
  <2> QED BY <2>2, <2>3
<1> QED BY <1>1, <1>2

\* Where a payload is kept, in terms of In.
LEMMA KeptIs == \A i : Kept(i) <=> i = hand \/ i \in dlq \/ In(i, dbq)
  BY DEF Kept, In

\* A step that pushes a payload, or touches neither the worker nor the queue,
\* keeps what is kept.
LEMMA PushKeeps ==
  ASSUME TypeOK, NEW e \in Items, NEW i, Kept(i),
         dbq' = dbq \/ dbq' = Append(dbq, e), hand' = hand, dlq' = dlq
  PROVE  Kept(i)'
<1>1. dbq \in Seq(Items)
  BY DEF TypeOK
<1>2. In(i, dbq) => In(i, Append(dbq, e))
  BY <1>1, Membership, Zenon
<1>3. In(i, dbq) => In(i, dbq')
  BY <1>2, Zenon
<1> QED BY <1>3 DEF Kept, In

Safe(c) == Kept(Item(c, "full")) \/ row[c].scored

\* As long as the process lives, what _finalize_call handed over for a call is
\* queued, held by the worker, dead-lettered or written.
THEOREM PayloadsAreKept == Spec => []NoPayloadVanishes
<1>1. Init => NoPayloadVanishes
  BY DEF Init, NoPayloadVanishes
<1>2. TypeOK /\ NoPayloadVanishes /\ [Next]_vars => NoPayloadVanishes'
  <2> SUFFICES ASSUME TypeOK, NoPayloadVanishes, [Next]_vars, NEW c \in Calls,
                      fin'[c] \notin {"talking", "syncing", "killed"}, ~died'
               PROVE  Safe(c)'
    BY DEF NoPayloadVanishes, Safe
  <2> DEFINE full == Item(c, "full")
  <2>0. full \in Items /\ full.call = c /\ full.kind = "full"
    BY DEF Items, Payloads
  <2>1. CASE SyncCallToCrm(c)
    <3>1. In(full, dbq')
      BY <2>0, <2>1, Membership DEF TypeOK, SyncCallToCrm
    <3> QED BY <3>1 DEF Safe, Kept, In
  <2> DEFINE Pushing(d) ==
        \/ SyncCallToCrm(d) /\ d # c
        \/ PersistCost(d) \/ WriteCallSummary(d) \/ QueueSkeleton(d)
  <2> DEFINE Quiet(d) ==
        \/ EndCall(d) \/ LaunchPipeline(d) \/ MarkEnded(d) \/ LogCallEnded(d)
        \/ StoreStatus(d) \/ CheckEnded(d)
  <2>2. ASSUME NEW d \in Calls, Pushing(d) PROVE Safe(c)'
    <3>1. \E e \in Items : dbq' = Append(dbq, e)
      <4>1. \A k \in Payloads \cup Updates : Item(d, k) \in Items
        BY DEF Items
      <4> QED BY <2>2, <4>1 DEF SyncCallToCrm, PersistCost, WriteCallSummary,
               QueueSkeleton, Payloads, Updates
    <3>2. hand' = hand /\ dlq' = dlq /\ row' = row /\ died' = died
      BY <2>2 DEF SyncCallToCrm, PersistCost, WriteCallSummary, QueueSkeleton, tables
    <3>3. fin[c] \notin {"talking", "syncing", "killed"}
      BY <2>2 DEF TypeOK, SyncCallToCrm, PersistCost, WriteCallSummary, QueueSkeleton
    <3>4. Safe(c)
      BY <3>2, <3>3 DEF NoPayloadVanishes, Safe
    <3>5. Kept(full) => Kept(full)'
      BY <3>1, <3>2, PushKeeps
    <3> QED BY <3>2, <3>4, <3>5 DEF Safe
  <2>3. ASSUME NEW d \in Calls, Quiet(d) PROVE Safe(c)'
    <3>1. hand' = hand /\ dlq' = dlq /\ row' = row /\ died' = died /\ dbq' = dbq
      BY <2>3 DEF EndCall, LaunchPipeline, MarkEnded, LogCallEnded, StoreStatus,
         CheckEnded
    <3>2. fin[c] \notin {"talking", "syncing", "killed"}
      BY <2>3 DEF TypeOK, EndCall, LaunchPipeline, MarkEnded, LogCallEnded, StoreStatus,
         CheckEnded
    <3> QED BY <3>1, <3>2 DEF NoPayloadVanishes, Safe, Kept
  <2>4. CASE WorkerStep \/ Restart \/ UNCHANGED vars
    <3>1. ~Restart
      BY DEF Restart
    <3>2. fin' = fin /\ died' = died
      BY <2>4, <3>1 DEF WorkerStep, PopDb, HandleDbSync, UpdateCallLog, WriteFails,
         PopEvent, vars
    <3>3. Safe(c)
      BY <3>2 DEF NoPayloadVanishes, Safe
    <3>4. CASE row[c].scored
      <4>1. row' = row \/ row' = [row EXCEPT ![hand.call] = Upserted(@, hand)]
        BY <2>4, <3>1 DEF WorkerStep, PopDb, HandleDbSync, UpdateCallLog, WriteFails,
           PopEvent, vars
      <4>2. row'[c] = row[c] \/ row'[c] = Upserted(row[c], hand)
        BY <4>1 DEF TypeOK
      <4> QED BY <3>4, <4>2, UpsertKeeps DEF Safe
    <3>5. CASE Kept(full)
      <4>1. CASE PopDb
        <5>1. hand = Nothing /\ full # Nothing
          BY <4>1, NothingAssumption DEF PopDb
        <5>2. CASE full \in dlq
          BY <4>1, <5>2 DEF PopDb, Safe, Kept
        <5>3. CASE In(full, dbq)
          <6>1. dbq # <<>>
            BY <5>3 DEF In
          <6>2. full = Head(dbq) \/ In(full, Tail(dbq))
            BY <5>3, <6>1, Membership DEF TypeOK
          <6> QED BY <4>1, <6>1, <6>2 DEF PopDb, Safe, Kept, In
        <5> QED BY <3>5, <5>1, <5>2, <5>3, KeptIs
      <4>2. CASE HandleDbSync
        <5>1. CASE hand = full
          <6>1. row'[c] = Upserted(row[c], full)
            BY <2>0, <4>2, <5>1 DEF HandleDbSync, TypeOK
          <6>2. Upserted(row[c], full).scored
            BY <2>0 DEF Upserted
          <6> QED BY <6>1, <6>2 DEF Safe
        <5>2. CASE hand # full
          BY <3>5, <4>2, <5>2 DEF HandleDbSync, Safe, Kept
        <5> QED BY <5>1, <5>2
      <4>3. CASE UpdateCallLog
        <5>1. hand # full
          BY <2>0, <4>3 DEF UpdateCallLog, Updates
        <5> QED BY <3>5, <4>3, <5>1 DEF UpdateCallLog, Safe, Kept
      <4>4. CASE WriteFails
        <5>1. CASE hand = full
          <6>1. full \in dlq'
            BY <2>0, <4>4, <5>1 DEF WriteFails
          <6> QED BY <6>1 DEF Safe, Kept
        <5>2. CASE hand # full
          BY <3>5, <4>4, <5>2 DEF WriteFails, Safe, Kept
        <5> QED BY <5>1, <5>2
      <4>5. CASE PopEvent
        BY <3>5, <4>5 DEF PopEvent, Safe, Kept
      <4>6. CASE UNCHANGED vars
        BY <3>5, <4>6 DEF vars, Safe, Kept
      <4> QED BY <2>4, <3>1, <4>1, <4>2, <4>3, <4>4, <4>5, <4>6 DEF WorkerStep
    <3> QED BY <3>3, <3>4, <3>5 DEF Safe
  <2>5. \/ \E d \in Calls : SyncCallToCrm(d) /\ d = c
        \/ \E d \in Calls : Pushing(d)
        \/ \E d \in Calls : Quiet(d)
        \/ WorkerStep \/ Restart \/ UNCHANGED vars
    BY DEF Next, FinalizeStep, CallbackStep
  <2> QED BY <2>1, <2>2, <2>3, <2>4, <2>5
<1> QED BY <1>1, <1>2, TypeCorrect, PTL DEF Spec
=============================================================================
