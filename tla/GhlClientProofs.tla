---------------------------- MODULE GhlClientProofs ------------------------------
(***************************************************************************)
(* Proofs about GhlClient, for any clients, slots, times and capacity.     *)
(***************************************************************************)
EXTENDS GhlClient, TLAPS

Active(c) == mode[c] \in {"queued", "asleep", "flight", "answered"}

\* What a client holds is of the kind its request is about.
HeldKind ==
  \A c \in Clients :
    /\ HoldsTags(c) => seen[c] \subseteq Clients
    /\ Active(c) /\ req[c] \in {"readStatus", "readPhone"} => seen[c] \subseteq Clients
    /\ mode[c] = "answered" /\ status[c] = "ok" /\ req[c] = "freeSlots" => seen[c] \subseteq Slots
    /\ Active(c) => req[c] \in Requests
    /\ mode[c] # "idle" => job[c] \in Jobs
    /\ mode[c] = "asleep" <=> sleeper = c

TypeInv == TypeOK /\ HeldKind /\ lastRefill <= now

LEMMA InitType == Init => TypeInv
  BY TimesAssumption, NobodyAssumption DEF Init, TypeInv, TypeOK, HeldKind, Active, HoldsTags, NoSlots, Never, Jobs, Requests

LEMMA FirstIsRequest ==
  ASSUME NEW j \in Jobs
  PROVE  FirstRequest(j) \in Requests /\ FirstRequest(j) \notin {"none", "writeTags", "sms"}
  BY DEF Jobs, FirstRequest, Requests

LEMMA NextIsRequest ==
  ASSUME NEW j, NEW r \in Requests, NEW ok \in BOOLEAN
  PROVE  /\ NextRequest(j, r, ok) \in Requests \cup {"none"}
         /\ NextRequest(j, r, ok) \notin {"freeSlots", "readStatus", "readConsent"}
         /\ NextRequest(j, r, ok) = "writeTags" => r = "readTags" /\ ok
         /\ NextRequest(j, r, ok) = "readPhone" => r = "readStatus"
         /\ NextRequest(j, r, ok) = "sms" => r = "readConsent" /\ ok
         /\ r = "sms" /\ ~ok => NextRequest(j, r, ok) = "none"
  BY DEF NextRequest, Requests

LEMMA BeginType ==
  ASSUME TypeInv, NEW c \in Clients, NEW j \in Jobs, NEW h \in SUBSET (Clients \cup Slots),
         Begin(c, j, h), fallback' \subseteq Clients,
         j \in {"followUp", "fallback"} => h \subseteq Clients
  PROVE  TypeInv'
<1>1. TypeOK'
  <2>1. /\ mode' \in [Clients -> {"idle", "queued", "asleep", "flight", "answered", "done"}]
        /\ failedAt' \in Int
    BY DEF TypeInv, TypeOK, Begin, Request, Never
  <2>2. req' \in [Clients -> Requests \cup {"none"}]
    BY FirstIsRequest DEF TypeInv, TypeOK, Begin, Request
  <2>3. /\ job' \in [Clients -> Jobs \cup {"none"}]
        /\ seen' \in [Clients -> SUBSET (Clients \cup Slots)]
    BY DEF TypeInv, TypeOK, Begin
  <2> QED
    BY <2>1, <2>2, <2>3 DEF TypeInv, TypeOK, Begin, bucket, contact
<1>2. HeldKind'
  <2> SUFFICES ASSUME NEW d \in Clients PROVE
        /\ HoldsTags(d)' => seen'[d] \subseteq Clients
        /\ Active(d)' /\ req'[d] \in {"readStatus", "readPhone"} => seen'[d] \subseteq Clients
        /\ mode'[d] = "answered" /\ status'[d] = "ok" /\ req'[d] = "freeSlots" => seen'[d] \subseteq Slots
        /\ Active(d)' => req'[d] \in Requests
        /\ mode'[d] # "idle" => job'[d] \in Jobs
        /\ mode'[d] = "asleep" <=> sleeper' = d
    BY DEF HeldKind, HoldsTags, Active
  <2>1. CASE d # c
    BY <2>1 DEF TypeInv, TypeOK, HeldKind, HoldsTags, Active, Begin, Request, bucket
  <2>2. CASE d = c
    <3>4. sleeper' # c
      BY DEF TypeInv, TypeOK, HeldKind, Begin, bucket
    <3>1. mode'[c] \in {"queued", "done"} /\ job'[c] = j /\ seen'[c] = h
      BY DEF TypeInv, TypeOK, Begin, Request
    <3>2. mode'[c] = "queued" => req'[c] = FirstRequest(j)
      BY DEF TypeInv, TypeOK, Begin, Request
    <3>3. FirstRequest(j) \in {"readStatus", "readPhone"} => j \in {"followUp", "fallback"}
      BY DEF FirstRequest, Jobs
    <3> QED BY <2>2, <3>1, <3>2, <3>3, <3>4, FirstIsRequest DEF HoldsTags, Active
  <2> QED BY <2>1, <2>2
<1> QED BY <1>1, <1>2 DEF TypeInv, Begin, bucket

LEMMA SendType ==
  ASSUME TypeInv, NEW c \in Clients, mode[c] \in {"queued", "asleep"},
         AcquireAtOnce(c) \/ SleepInLock(c) \/ WakeUp(c)
  PROVE  TypeInv'
<1>1. TypeOK'
  BY TimesAssumption DEF TypeInv, TypeOK, AcquireAtOnce, SleepInLock, WakeUp, Send, Refilled, contact, texts
<1>2. HeldKind'
  BY NobodyAssumption DEF TypeInv, TypeOK, HeldKind, HoldsTags, Active, AcquireAtOnce, SleepInLock, WakeUp, Send
<1>3. lastRefill' <= now'
  BY DEF TypeInv, TypeOK, AcquireAtOnce, SleepInLock, WakeUp
<1> QED BY <1>1, <1>2, <1>3 DEF TypeInv

\* GHL's part of a step: the answer, and what it did.
LEMMA AnswerType ==
  ASSUME TypeInv, NEW c \in Clients, GhlStep(c)
  PROVE  TypeInv'
<1>1. TypeOK'
  <2>1. CASE \E st \in {"refused", "unauthorized"} : Refuses(c, st)
    BY <2>1 DEF TypeInv, TypeOK, Refuses, Answer, bucket, contact
  <2>2. CASE Reads(c)
    BY <2>2 DEF TypeInv, TypeOK, Reads, Answer, bucket, contact, FreeSlots
  <2>3. CASE WritesFields(c)
    BY <2>3 DEF TypeInv, TypeOK, WritesFields, Answer, bucket
  <2>7. CASE Creates(c)
    BY <2>7 DEF TypeInv, TypeOK, Creates, NowKept, Answer, bucket, contact
  <2>4. CASE WritesTags(c)
    <3>1. seen[c] \subseteq Clients
      BY <2>4 DEF TypeInv, HeldKind, HoldsTags, WritesTags, Answer
    <3> QED BY <2>4, <3>1 DEF TypeInv, TypeOK, WritesTags, Answer, Merged, NowKept, bucket
  <2>5. CASE Delivers(c)
    BY <2>5 DEF TypeInv, TypeOK, Delivers, Answer, bucket, contact
  <2>6. CASE Books(c)
    <3>1. taken' \in [Slots -> Int]
      <4>1. PICK s \in seen[c] \cap FreeSlots : taken' = [taken EXCEPT ![s] = now]
        BY <2>6 DEF Books
      <4>2. now \in Int /\ taken \in [Slots -> Int]
        BY DEF TypeInv, TypeOK
      <4> QED BY <4>1, <4>2
    <3>2. mode' \in [Clients -> {"idle", "queued", "asleep", "flight", "answered", "done"}]
      BY <2>6 DEF TypeInv, TypeOK, Books, Answer
    <3>3. status' \in [Clients -> {"none", "ok", "refused", "unauthorized"}]
      BY <2>6 DEF TypeInv, TypeOK, Books, Answer
    <3> QED BY <2>6, <3>1, <3>2, <3>3 DEF TypeInv, TypeOK, Books, Answer, bucket, contact
  <2> QED BY <2>1, <2>2, <2>3, <2>4, <2>5, <2>6, <2>7 DEF GhlStep
<1>2. /\ mode[c] = "flight" /\ mode' = [mode EXCEPT ![c] = "answered"]
      /\ job' = job /\ req' = req /\ sleeper' = sleeper
      /\ \E st : status' = [status EXCEPT ![c] = st]
  BY DEF GhlStep, Refuses, Reads, WritesFields, Creates, WritesTags, Delivers, Books, Answer, bucket
<1>3. /\ \A d \in Clients \ {c} : seen'[d] = seen[d]
      /\ seen'[c] = seen[c] \/ (req[c] = "readTags" /\ seen'[c] = tags)
                              \/ (req[c] = "freeSlots" /\ seen'[c] = FreeSlots)
      /\ req[c] = "readTags" /\ status'[c] = "ok" => seen'[c] = tags
      /\ req[c] = "freeSlots" /\ status'[c] = "ok" => seen'[c] = FreeSlots
  BY DEF TypeInv, TypeOK, GhlStep, Refuses, Reads, WritesFields, Creates, WritesTags, Delivers, Books, Answer
<1>4. HeldKind'
  <2> SUFFICES ASSUME NEW d \in Clients PROVE
        /\ HoldsTags(d)' => seen'[d] \subseteq Clients
        /\ Active(d)' /\ req'[d] \in {"readStatus", "readPhone"} => seen'[d] \subseteq Clients
        /\ mode'[d] = "answered" /\ status'[d] = "ok" /\ req'[d] = "freeSlots" => seen'[d] \subseteq Slots
        /\ Active(d)' => req'[d] \in Requests
        /\ mode'[d] # "idle" => job'[d] \in Jobs
        /\ mode'[d] = "asleep" <=> sleeper' = d
    BY DEF HeldKind, HoldsTags, Active
  <2>1. CASE d # c
    BY <1>2, <1>3, <2>1 DEF TypeInv, TypeOK, HeldKind, HoldsTags, Active
  <2>2. CASE d = c
    BY <1>2, <1>3, <2>2 DEF TypeInv, TypeOK, HeldKind, HoldsTags, Active, FreeSlots
  <2> QED BY <2>1, <2>2
<1>5. UNCHANGED <<now, lastRefill>>
  BY DEF GhlStep, Refuses, Reads, WritesFields, Creates, WritesTags, Delivers, Books, Answer, bucket
<1> QED BY <1>1, <1>4, <1>5 DEF TypeInv

LEMMA ResumeType ==
  ASSUME TypeInv, NEW c \in Clients, Resume(c)
  PROVE  TypeInv'
<1> DEFINE ok == status[c] = "ok"
           r == NextRequest(job[c], req[c], ok)
<1>1. req[c] \in Requests /\ ok \in BOOLEAN /\ mode[c] = "answered"
  BY DEF TypeInv, HeldKind, Resume, Active
<1>2. r \in Requests \cup {"none"}
  BY <1>1, NextIsRequest
<1>3. mode' \in [Clients -> {"idle", "queued", "asleep", "flight", "answered", "done"}]
  BY DEF TypeInv, TypeOK, Resume, Request
<1>4. req' \in [Clients -> Requests \cup {"none"}]
  BY <1>2 DEF TypeInv, TypeOK, Resume, Request
<1>5. failedAt' \in Int
  BY DEF TypeInv, TypeOK, Resume, Request, MarkedFailed, Never
<1>6. cache' \in [slots : SUBSET Slots, until : Int]
  <2>1. req[c] = "freeSlots" /\ ok => seen[c] \subseteq Slots
    BY <1>1 DEF TypeInv, HeldKind
  <2>2. NoSlots \in [slots : SUBSET Slots, until : Int]
    BY DEF NoSlots, Never
  <2>3. seen[c] \subseteq Slots => CacheSlots(c) \in [slots : SUBSET Slots, until : Int]
    BY TimesAssumption DEF TypeInv, TypeOK, CacheSlots
  <2> QED BY <2>1, <2>2, <2>3 DEF TypeInv, TypeOK, Resume, Used
<1>7. fallback' \subseteq Clients /\ byTwilio' \subseteq Clients
  <2>1. req[c] = "readPhone" => seen[c] \subseteq Clients
    BY <1>1 DEF TypeInv, HeldKind, Active
  <2> QED BY <2>1 DEF TypeInv, TypeOK, Resume, Used, TwilioSends
<1>8. TypeOK'
  BY <1>3, <1>4, <1>5, <1>6, <1>7 DEF TypeInv, TypeOK, Resume, bucket, contact
<1>9. HeldKind'
  <2> SUFFICES ASSUME NEW d \in Clients PROVE
        /\ HoldsTags(d)' => seen'[d] \subseteq Clients
        /\ Active(d)' /\ req'[d] \in {"readStatus", "readPhone"} => seen'[d] \subseteq Clients
        /\ mode'[d] = "answered" /\ status'[d] = "ok" /\ req'[d] = "freeSlots" => seen'[d] \subseteq Slots
        /\ Active(d)' => req'[d] \in Requests
        /\ mode'[d] # "idle" => job'[d] \in Jobs
        /\ mode'[d] = "asleep" <=> sleeper' = d
    BY DEF HeldKind, HoldsTags, Active
  <2>0. seen' = seen /\ status' = status /\ job' = job /\ sleeper' = sleeper
    BY DEF Resume, bucket
  <2>1. CASE d # c
    BY <2>0, <2>1 DEF TypeInv, TypeOK, HeldKind, HoldsTags, Active, Resume, Request
  <2>2. CASE d = c
    <3>1. mode'[c] = "done" \/ (mode'[c] = "queued" /\ req'[c] = r /\ r # "none")
      BY DEF TypeInv, TypeOK, Resume, Request
    <3>2. r = "writeTags" => HoldsTags(c)
      BY <1>1, NextIsRequest DEF HoldsTags
    <3>3. r = "readPhone" => req[c] = "readStatus"
      BY <1>1, NextIsRequest
    <3>4. r # "readStatus"
      BY <1>1, NextIsRequest
    <3> HIDE DEF r, ok
    <3> QED BY <2>0, <2>2, <3>1, <3>2, <3>3, <3>4, <1>1, <1>2 DEF TypeInv, HeldKind, HoldsTags, Active
  <2> QED BY <2>1, <2>2
<1> QED BY <1>8, <1>9 DEF TypeInv, Resume, bucket

LEMMA RestType ==
  ASSUME TypeInv, NEW c \in Clients, AppointmentKept(c) \/ Lost(c) \/ StopReply \/ Tick
  PROVE  TypeInv'
<1>1. TypeOK'
  <2>1. CASE AppointmentKept(c) \/ Lost(c)
    BY <2>1 DEF TypeInv, TypeOK, AppointmentKept, Lost, bucket, contact, texts
  <2>2. CASE StopReply
    BY <2>2 DEF TypeInv, TypeOK, StopReply, bucket, clients, texts
  <2>3. CASE Tick
    <3>1. Expired(now + 1) \in [slots : SUBSET Slots, until : Int]
      BY DEF TypeInv, TypeOK, Expired, NoSlots, Never
    <3> QED BY <2>3, <3>1 DEF TypeInv, TypeOK, Tick, bucket, clients, contact, texts
  <2> QED BY <2>1, <2>2, <2>3
<1>2. HeldKind'
  BY DEF TypeInv, TypeOK, HeldKind, HoldsTags, Active, AppointmentKept, Lost, StopReply, Tick, bucket, clients
<1>3. lastRefill' <= now'
  BY DEF TypeInv, TypeOK, AppointmentKept, Lost, StopReply, Tick, bucket
<1> QED BY <1>1, <1>2, <1>3 DEF TypeInv

\* The ways a job begins, in one shape.
LEMMA BeginForms ==
  ASSUME TypeInv, NEW c \in Clients,
         \/ (\E j \in {"sync", "firstSync", "confirm"} : EndOfCall(c, j))
         \/ (\E j \in {"voicemail", "noShow", "followUp"} : Follow(c, j))
         \/ FetchSlots(c) \/ (\E s \in Slots : BookSlot(c, s)) \/ (\E d \in Clients : PopText(c, d))
  PROVE  \E j \in Jobs, h \in SUBSET (Clients \cup Slots) :
           /\ Begin(c, j, h)
           /\ \/ h \subseteq Slots /\ fallback' = fallback /\ (j \in {"followUp", "fallback"} => h = {})
              \/ h \subseteq fallback /\ fallback' = fallback \ h
<1>1. CASE \E j \in {"sync", "firstSync", "confirm"} : EndOfCall(c, j)
  BY <1>1 DEF EndOfCall, Jobs
<1>2. CASE \E j \in {"voicemail", "noShow", "followUp"} : Follow(c, j)
  BY <1>2 DEF Follow, Jobs
<1>3. CASE FetchSlots(c)
  BY <1>3 DEF FetchSlots, Jobs
<1>4. CASE \E s \in Slots : BookSlot(c, s)
  BY <1>4 DEF BookSlot, Jobs
<1>5. CASE \E d \in Clients : PopText(c, d)
  <2>1. PICK d \in Clients : PopText(c, d)
    BY <1>5
  <2>2. /\ Begin(c, "fallback", {d}) /\ {d} \subseteq fallback /\ fallback' = fallback \ {d}
        /\ {d} \in SUBSET (Clients \cup Slots) /\ "fallback" \in Jobs
    BY <2>1 DEF PopText, Jobs
  <2> QED BY <2>2
<1> QED BY <1>1, <1>2, <1>3, <1>4, <1>5

LEMMA NextType == TypeInv /\ [Next]_vars => TypeInv'
<1> SUFFICES ASSUME TypeInv, [Next]_vars PROVE TypeInv'
  OBVIOUS
<1>1. CASE Tick \/ StopReply
  <2>1. CASE Clients # {}
    BY <1>1, <2>1, RestType
  <2>2. CASE Clients = {}
    <3>1. TypeOK'
      <4>1. Expired(now + 1) \in [slots : SUBSET Slots, until : Int]
        BY DEF TypeInv, TypeOK, Expired, NoSlots, Never
      <4>2. CASE Tick
        BY <4>1, <4>2 DEF TypeInv, TypeOK, Tick, bucket, clients, contact, texts
      <4>3. CASE StopReply
        BY <4>3 DEF TypeInv, TypeOK, StopReply, bucket, clients, texts
      <4> QED BY <1>1, <4>2, <4>3
    <3>2. HeldKind' /\ lastRefill' <= now'
      BY <1>1, <2>2 DEF TypeInv, TypeOK, HeldKind, Tick, StopReply, bucket
    <3> QED BY <3>1, <3>2 DEF TypeInv
  <2> QED BY <2>1, <2>2
<1>2. ASSUME NEW c \in Clients, GhlStep(c) PROVE TypeInv'
  BY <1>2, AnswerType
<1>3. ASSUME NEW c \in Clients, ClientStep(c) PROVE TypeInv'
  <2>1. CASE AcquireAtOnce(c) \/ SleepInLock(c) \/ WakeUp(c)
    <3>1. mode[c] \in {"queued", "asleep"}
      BY <2>1 DEF TypeInv, HeldKind, AcquireAtOnce, SleepInLock, WakeUp
    <3> QED BY <2>1, <3>1, SendType
  <2>2. CASE Resume(c)
    BY <2>2, ResumeType
  <2>3. CASE AppointmentKept(c) \/ Lost(c)
    BY <2>3, RestType
  <2>4. ASSUME NEW j \in Jobs, NEW h \in SUBSET (Clients \cup Slots), Begin(c, j, h),
               \/ h \subseteq Slots /\ fallback' = fallback /\ (j \in {"followUp", "fallback"} => h = {})
               \/ h \subseteq fallback /\ fallback' = fallback \ h
        PROVE  TypeInv'
    <3>1. fallback' \subseteq Clients /\ (j \in {"followUp", "fallback"} => h \subseteq Clients)
      BY <2>4 DEF TypeInv, TypeOK
    <3> QED BY <2>4, <3>1, BeginType
  <2> QED BY <1>3, <2>1, <2>2, <2>3, <2>4, BeginForms DEF ClientStep
<1>4. CASE UNCHANGED vars
  <2>1. TypeOK'
    BY <1>4 DEF TypeInv, TypeOK, vars, bucket, clients, contact, texts
  <2>2. HeldKind' /\ lastRefill' <= now'
    BY <1>4 DEF TypeInv, HeldKind, HoldsTags, Active, vars, bucket, clients
  <2> QED BY <2>1, <2>2 DEF TypeInv
<1> QED BY <1>1, <1>2, <1>3, <1>4 DEF Next

\* Every variable keeps its type, and every client holds what its request needs.
THEOREM TypeCorrect == Spec => []TypeOK
<1>1. TypeInv => TypeOK
  BY DEF TypeInv
<1> QED BY InitType, NextType, <1>1, PTL DEF Spec
-----------------------------------------------------------------------------
(* The rate. *)

LEMMA BucketFrame ==
  ASSUME TypeInv, [Next]_vars,
         ~ \E c \in Clients : AcquireAtOnce(c) \/ SleepInLock(c) \/ WakeUp(c)
  PROVE  UNCHANGED bucket /\ (now' = now \/ now' = now + 1)
<1>1. CASE Tick \/ StopReply \/ UNCHANGED vars
  BY <1>1 DEF Tick, StopReply, vars
<1>2. ASSUME NEW c \in Clients, GhlStep(c) PROVE UNCHANGED <<bucket, now>>
  BY <1>2 DEF GhlStep, Refuses, Reads, WritesFields, Creates, WritesTags, Delivers, Books, Answer
<1>3. ASSUME NEW c \in Clients, ClientStep(c),
             ~(AcquireAtOnce(c) \/ SleepInLock(c) \/ WakeUp(c))
      PROVE  UNCHANGED <<bucket, now>>
  BY <1>3 DEF ClientStep, EndOfCall, Follow, FetchSlots, BookSlot, PopText, Begin, Resume, AppointmentKept, Lost
<1> QED BY <1>1, <1>2, <1>3 DEF Next

\* Counting what the bucket still holds, requests are paid for by the burst, the
\* time until the last refill, and the time that was slept since.
RateInv ==
  /\ TypeInv
  /\ spent + tokens <= Burst + now + lastRefill
  /\ sleeper # Nobody => tokens < Interval /\ spent + tokens <= Burst + 2 * lastRefill

LEMMA RateStep == RateInv /\ [Next]_vars => RateInv'
<1> SUFFICES ASSUME RateInv, [Next]_vars PROVE RateInv'
  OBVIOUS
<1>1. TypeInv'
  BY NextType DEF RateInv
<1>2. /\ now \in Nat /\ tokens \in Nat /\ lastRefill \in Nat /\ spent \in Nat /\ lastRefill <= now
      /\ Burst \in Nat /\ Interval \in Nat
      /\ now' \in Nat /\ tokens' \in Nat /\ lastRefill' \in Nat /\ spent' \in Nat
  BY <1>1, TimesAssumption DEF RateInv, TypeInv, TypeOK
<1>3. Refilled <= tokens + (now - lastRefill) /\ Refilled \in Int
  BY <1>2 DEF Refilled
<1>4. ASSUME NEW c \in Clients, AcquireAtOnce(c) PROVE RateInv'
  <2>1. sleeper' = Nobody /\ now' = now /\ lastRefill' = now
        /\ tokens' = Refilled - Interval /\ spent' = spent + Interval
    BY <1>4 DEF AcquireAtOnce, Send
  <2>2. spent' + tokens' <= Burst + now' + lastRefill'
    BY <1>2, <1>3, <2>1 DEF RateInv
  <2> QED BY <1>1, <2>1, <2>2 DEF RateInv
<1>5. ASSUME NEW c \in Clients, SleepInLock(c) PROVE RateInv'
  <2>1. now' = now /\ lastRefill' = now /\ tokens' = Refilled /\ spent' = spent /\ Refilled < Interval
    BY <1>5 DEF SleepInLock
  <2>2. spent' + tokens' <= Burst + now' + lastRefill' /\ spent' + tokens' <= Burst + 2 * lastRefill'
    BY <1>2, <1>3, <2>1 DEF RateInv
  <2>3. tokens' < Interval
    BY <2>1
  <2> QED BY <1>1, <2>2, <2>3 DEF RateInv
<1>6. ASSUME NEW c \in Clients, WakeUp(c) PROVE RateInv'
  <2>1. /\ sleeper # Nobody /\ sleeper' = Nobody /\ now' = now /\ lastRefill' = lastRefill
        /\ tokens' = 0 /\ spent' = spent + Interval /\ now >= lastRefill + (Interval - tokens)
    BY <1>6, NobodyAssumption DEF WakeUp, Send
  <2>2. spent + tokens <= Burst + 2 * lastRefill
    BY <2>1 DEF RateInv
  <2>3. spent' + tokens' <= Burst + now' + lastRefill'
    BY <1>2, <2>1, <2>2
  <2> QED BY <1>1, <2>1, <2>3 DEF RateInv
<1>7. CASE ~ \E c \in Clients : AcquireAtOnce(c) \/ SleepInLock(c) \/ WakeUp(c)
  <2>1. /\ tokens' = tokens /\ lastRefill' = lastRefill /\ sleeper' = sleeper /\ spent' = spent
    BY <1>7, BucketFrame DEF RateInv, bucket
  <2>4. now' = now \/ now' = now + 1
    BY <1>7, BucketFrame DEF RateInv
  <2>5. spent + tokens <= Burst + now + lastRefill
    BY DEF RateInv
  <2>6. /\ now \in Nat /\ tokens \in Nat /\ lastRefill \in Nat /\ spent \in Nat /\ Burst \in Nat
    BY <1>2
  <2>7. spent + tokens <= Burst + (now + 1) + lastRefill
    BY <2>5, <2>6
  <2>2. spent' + tokens' <= Burst + now' + lastRefill'
    BY <2>1, <2>4, <2>5, <2>7
  <2>3. sleeper' # Nobody => tokens' < Interval /\ spent' + tokens' <= Burst + 2 * lastRefill'
    BY <2>1 DEF RateInv
  <2> QED BY <1>1, <2>2, <2>3 DEF RateInv
<1> QED BY <1>4, <1>5, <1>6, <1>7

\* No more than the burst and two requests per interval, for any capacity.
THEOREM RateIsBounded == Spec => []RateBound
<1>1. Init => RateInv
  BY InitType, TimesAssumption DEF Init, RateInv
<1>2. RateInv => RateBound
  BY TimesAssumption DEF RateInv, TypeInv, TypeOK, RateBound
<1> QED BY <1>1, <1>2, RateStep, PTL DEF Spec

-----------------------------------------------------------------------------
(* Tags. *)

\* Whoever is about to write over the tags has read those that count as kept.
TagsInv ==
  /\ TypeInv
  /\ kept \subseteq tags /\ (~there => tags = {})
  /\ \A c \in Clients : HoldsTags(c) => kept \subseteq seen[c]

LEMMA TagsStep == TagsInv /\ [Next]_vars => TagsInv'
<1> SUFFICES ASSUME TagsInv, [Next]_vars PROVE TagsInv'
  OBVIOUS
<1>1. TypeInv'
  BY NextType DEF TagsInv
<1>2. ASSUME NEW c \in Clients, WritesTags(c) PROVE TagsInv'
  <2>1. HoldsTags(c) /\ kept \subseteq seen[c]
    BY <1>2 DEF TagsInv, HoldsTags, WritesTags, Answer
  <2>2. /\ tags' = seen[c] \cup {c} /\ seen' = seen /\ ~HoldsTags(c)'
        /\ \A d \in Clients \ {c} : HoldsTags(d)' <=> HoldsTags(d)
    BY <1>2 DEF TagsInv, TypeInv, TypeOK, WritesTags, Merged, Answer, HoldsTags
  <2>3. kept' = IF \E d \in Clients \ {c} : HoldsTags(d) THEN kept ELSE kept \cup {c}
    BY <1>2 DEF WritesTags, NowKept
  <2>4. kept' \subseteq tags'
    BY <2>1, <2>2, <2>3
  <2>5. ASSUME NEW d \in Clients, HoldsTags(d)' PROVE kept' \subseteq seen'[d]
    BY <2>2, <2>3, <2>5 DEF TagsInv
  <2>6. there /\ there' = there
    BY <1>2 DEF WritesTags
  <2> QED BY <1>1, <2>4, <2>5, <2>6 DEF TagsInv
<1>8. ASSUME NEW c \in Clients, Creates(c), ~there PROVE TagsInv'
  <2>1. tags = {} /\ kept = {}
    BY <1>8 DEF TagsInv
  <2>2. /\ there' = TRUE /\ tags' = {c} /\ seen' = seen
        /\ kept' = IF \E d \in Clients \ {c} : HoldsTags(d) THEN kept ELSE kept \cup {c}
    BY <1>8 DEF Creates, NowKept
  <2>3. ~HoldsTags(c)' /\ \A d \in Clients \ {c} : HoldsTags(d)' <=> HoldsTags(d)
    BY <1>8 DEF TagsInv, TypeInv, TypeOK, Creates, Answer, HoldsTags
  <2>4. kept' \subseteq tags'
    BY <2>1, <2>2
  <2>5. ASSUME NEW d \in Clients, HoldsTags(d)' PROVE kept' \subseteq seen'[d]
    BY <2>1, <2>2, <2>3, <2>5
  <2> QED BY <1>1, <2>2, <2>4, <2>5 DEF TagsInv
<1>3. ASSUME NEW c \in Clients, GhlStep(c), ~WritesTags(c), ~(Creates(c) /\ ~there) PROVE TagsInv'
  <2>1. /\ tags' = tags /\ kept' = kept /\ there' = there
        /\ req' = req /\ mode' = [mode EXCEPT ![c] = "answered"] /\ mode[c] = "flight"
    BY <1>3 DEF GhlStep, Refuses, Reads, WritesFields, Creates, Delivers, Books, Answer, contact
  <2>2. /\ \A d \in Clients \ {c} : seen'[d] = seen[d] /\ status'[d] = status[d]
        /\ req[c] = "readTags" /\ status'[c] = "ok" => seen'[c] = tags
    BY <1>3 DEF TagsInv, TypeInv, TypeOK, GhlStep, Refuses, Reads, WritesFields, Creates, Delivers, Books, Answer
  <2>3. ASSUME NEW d \in Clients, HoldsTags(d)' PROVE kept \subseteq seen'[d]
    BY <2>1, <2>2, <2>3 DEF TagsInv, TypeInv, TypeOK, HoldsTags
  <2> QED BY <1>1, <2>1, <2>3 DEF TagsInv
<1>4. ASSUME NEW c \in Clients, NEW j \in Jobs, NEW h, Begin(c, j, h) PROVE TagsInv'
  <2>1. tags' = tags /\ kept' = kept /\ there' = there
    BY <1>4 DEF Begin, contact
  <2>2. ~HoldsTags(c)'
    BY <1>4, FirstIsRequest DEF TagsInv, TypeInv, TypeOK, Begin, Request, HoldsTags
  <2>3. ASSUME NEW d \in Clients \ {c}, HoldsTags(d)' PROVE HoldsTags(d) /\ seen'[d] = seen[d]
    BY <1>4, <2>3 DEF TagsInv, TypeInv, TypeOK, Begin, Request, HoldsTags
  <2> QED BY <1>1, <2>1, <2>2, <2>3 DEF TagsInv
<1>5. ASSUME NEW c \in Clients, Resume(c) PROVE TagsInv'
  <2>1. tags' = tags /\ kept' = kept /\ there' = there /\ seen' = seen
    BY <1>5 DEF Resume, contact
  <2>2. HoldsTags(c)' => HoldsTags(c)
    <3> DEFINE r == NextRequest(job[c], req[c], status[c] = "ok")
    <3>1. mode[c] = "answered" /\ req[c] \in Requests
      BY <1>5 DEF TagsInv, TypeInv, HeldKind, Resume, Active
    <3>2. r = "writeTags" => req[c] = "readTags" /\ status[c] = "ok"
      BY <3>1, NextIsRequest
    <3>3. mode'[c] \in {"queued", "done"} /\ (mode'[c] = "queued" => req'[c] = r)
      BY <1>5 DEF TagsInv, TypeInv, TypeOK, Resume, Request
    <3> HIDE DEF r
    <3> QED BY <3>1, <3>2, <3>3 DEF HoldsTags
  <2>3. ASSUME NEW d \in Clients \ {c}, HoldsTags(d)' PROVE HoldsTags(d)
    BY <1>5, <2>3 DEF TagsInv, TypeInv, TypeOK, Resume, Request, HoldsTags
  <2> QED BY <1>1, <2>1, <2>2, <2>3 DEF TagsInv
<1>6. ASSUME NEW c \in Clients,
             AcquireAtOnce(c) \/ SleepInLock(c) \/ WakeUp(c) \/ AppointmentKept(c) \/ Lost(c)
      PROVE  TagsInv'
  <2>1. tags' = tags /\ kept' = kept /\ there' = there /\ seen' = seen /\ req' = req /\ status' = status
    BY <1>6 DEF AcquireAtOnce, SleepInLock, WakeUp, Send, AppointmentKept, Lost, contact
  <2>3. ASSUME NEW d \in Clients, HoldsTags(d)' PROVE HoldsTags(d)
    BY <1>6, <2>1, <2>3 DEF TagsInv, TypeInv, TypeOK, HeldKind, AcquireAtOnce, SleepInLock, WakeUp, Send, AppointmentKept, Lost, HoldsTags
  <2> QED BY <1>1, <2>1, <2>3 DEF TagsInv
<1>7. CASE Tick \/ StopReply \/ UNCHANGED vars
  <2>1. tags' = tags /\ kept' = kept /\ there' = there /\ UNCHANGED clients
    BY <1>7 DEF Tick, StopReply, vars, contact
  <2> QED BY <1>1, <2>1 DEF TagsInv, HoldsTags, clients
<1> QED BY <1>2, <1>3, <1>4, <1>5, <1>6, <1>7, <1>8, BeginForms DEF Next, ClientStep, TagsInv

\* Nobody loses a tag that was written while no other job was about to write.
THEOREM TagsSurvive == Spec => []LoneTagsSurvive
<1>1. Init => TagsInv
  BY InitType DEF Init, TagsInv, HoldsTags
<1>2. TagsInv => LoneTagsSurvive
  BY DEF TagsInv, LoneTagsSurvive
<1> QED BY <1>1, <1>2, TagsStep, PTL DEF Spec
-----------------------------------------------------------------------------
(* Stale slots. *)

\* A client that holds an answer of free-slots.
Fetched(c) == mode[c] = "answered" /\ status[c] = "ok" /\ req[c] = "freeSlots"

InFlight ==
  \A c \in Clients : mode[c] \in {"flight", "answered"} =>
    sentAt[c] <= now /\ now <= sentAt[c] + ReadTimeout

\* A fetched slot was free when it was asked for.
FetchedFree ==
  \A c \in Clients : Fetched(c) =>
    \A s \in seen[c] : taken[s] = Never \/ sentAt[c] <= taken[s]

EntryLives == (cache.slots = {} \/ now < cache.until) /\ cache.until <= now + SlotTTL

CachedFree ==
  \A s \in cache.slots : taken[s] = Never \/ cache.until <= taken[s] + ReadTimeout + SlotTTL

StaleInv == TypeInv /\ InFlight /\ FetchedFree /\ EntryLives /\ CachedFree

LEMMA StaleNumbers ==
  ASSUME TypeInv
  PROVE  /\ now \in Nat /\ ReadTimeout \in Nat /\ SlotTTL \in Nat /\ SlotTTL >= 1
         /\ cache.until \in Int /\ cache.slots \subseteq Slots
         /\ \A s \in Slots : taken[s] \in Int
         /\ \A c \in Clients : sentAt[c] \in Nat
  BY TimesAssumption DEF TypeInv, TypeOK

LEMMA StaleStep == StaleInv /\ [Next]_vars => StaleInv'
<1> SUFFICES ASSUME StaleInv, [Next]_vars PROVE StaleInv'
  OBVIOUS
<1>1. TypeInv'
  BY NextType DEF StaleInv
<1>0. TypeInv
  BY DEF StaleInv
<1>2. ASSUME NEW c \in Clients, Books(c) PROVE StaleInv'
  <2>1. PICK s \in seen[c] \cap FreeSlots : taken' = [taken EXCEPT ![s] = now]
    BY <1>2 DEF Books
  <2>2. /\ req[c] = "appointment" /\ req' = req /\ mode' = [mode EXCEPT ![c] = "answered"]
        /\ mode[c] = "flight" /\ seen' = seen /\ sentAt' = sentAt /\ cache' = cache /\ now' = now
        /\ \A d \in Clients \ {c} : status'[d] = status[d]
    BY <1>0, <1>2 DEF Books, Answer, TypeInv, TypeOK
  <2>3. \A t \in Slots : taken'[t] = taken[t] \/ taken'[t] = now
    BY <1>0, <2>1 DEF TypeInv, TypeOK
  <2>4. InFlight'
    BY <1>0, <2>2 DEF StaleInv, InFlight, TypeInv, TypeOK
  <2>5. FetchedFree'
    <3> SUFFICES ASSUME NEW d \in Clients, Fetched(d)', NEW t \in seen'[d]
                 PROVE taken'[t] = Never \/ sentAt'[d] <= taken'[t]
      BY DEF FetchedFree
    <3>1. d # c /\ Fetched(d)
      BY <1>0, <2>2 DEF Fetched, TypeInv, TypeOK
    <3>2. t \in seen[d] /\ t \in Slots
      BY <1>0, <2>2, <3>1 DEF TypeInv, HeldKind, Fetched
    <3>3. taken[t] = Never \/ sentAt[d] <= taken[t]
      BY <3>1, <3>2 DEF StaleInv, FetchedFree
    <3>4. sentAt[d] <= now
      BY <3>1 DEF StaleInv, InFlight, Fetched
    <3> QED BY <2>2, <2>3, <3>2, <3>3, <3>4
  <2>6. EntryLives'
    BY <2>2 DEF StaleInv, EntryLives
  <2>7. CachedFree'
    <3> SUFFICES ASSUME NEW t \in cache.slots
                 PROVE taken'[t] = Never \/ cache.until <= taken'[t] + ReadTimeout + SlotTTL
      BY <2>2 DEF CachedFree
    <3>1. t \in Slots
      BY <1>0, StaleNumbers
    <3>2. cache.until <= now + ReadTimeout + SlotTTL
      BY <1>0, StaleNumbers DEF StaleInv, EntryLives
    <3> QED BY <2>3, <3>1, <3>2 DEF StaleInv, CachedFree
  <2> QED BY <1>1, <2>4, <2>5, <2>6, <2>7 DEF StaleInv
<1>3. ASSUME NEW c \in Clients, GhlStep(c), ~Books(c) PROVE StaleInv'
  <2>1. /\ req' = req /\ mode' = [mode EXCEPT ![c] = "answered"] /\ mode[c] = "flight"
        /\ sentAt' = sentAt /\ cache' = cache /\ now' = now /\ taken' = taken
    BY <1>3 DEF GhlStep, Refuses, Reads, WritesFields, Creates, WritesTags, Delivers, Answer
  <2>2. /\ \A d \in Clients \ {c} : seen'[d] = seen[d] /\ status'[d] = status[d]
        /\ req[c] = "freeSlots" /\ status'[c] = "ok" => seen'[c] = FreeSlots
    BY <1>0, <1>3 DEF TypeInv, TypeOK, GhlStep, Refuses, Reads, WritesFields, Creates, WritesTags, Delivers, Answer
  <2>3. InFlight'
    BY <1>0, <2>1 DEF StaleInv, InFlight, TypeInv, TypeOK
  <2>4. FetchedFree'
    <3> SUFFICES ASSUME NEW d \in Clients, Fetched(d)', NEW t \in seen'[d]
                 PROVE taken[t] = Never \/ sentAt[d] <= taken[t]
      BY <2>1 DEF FetchedFree
    <3>1. CASE d = c
      BY <2>1, <2>2, <3>1 DEF Fetched, FreeSlots
    <3>2. CASE d # c
      <4>1. Fetched(d) /\ t \in seen[d]
        BY <1>0, <2>1, <2>2, <3>2 DEF Fetched, TypeInv, TypeOK
      <4> QED BY <4>1 DEF StaleInv, FetchedFree
    <3> QED BY <3>1, <3>2
  <2>5. EntryLives' /\ CachedFree'
    BY <2>1 DEF StaleInv, EntryLives, CachedFree
  <2> QED BY <1>1, <2>3, <2>4, <2>5 DEF StaleInv
<1>4. ASSUME NEW c \in Clients, AcquireAtOnce(c) \/ SleepInLock(c) \/ WakeUp(c) PROVE StaleInv'
  <2>1. /\ seen' = seen /\ cache' = cache /\ now' = now /\ taken' = taken /\ status' = status /\ req' = req
        /\ \A d \in Clients \ {c} : mode'[d] = mode[d] /\ sentAt'[d] = sentAt[d]
        /\ mode'[c] = "asleep" \/ (mode'[c] = "flight" /\ sentAt'[c] = now)
    BY <1>0, <1>4 DEF TypeInv, TypeOK, AcquireAtOnce, SleepInLock, WakeUp, Send
  <2>2. InFlight'
    <3>1. now <= now + ReadTimeout /\ now <= now
      BY <1>0, StaleNumbers
    <3> QED BY <2>1, <3>1 DEF StaleInv, InFlight
  <2>3. FetchedFree'
    BY <2>1 DEF StaleInv, FetchedFree, Fetched
  <2>4. EntryLives' /\ CachedFree'
    BY <2>1 DEF StaleInv, EntryLives, CachedFree
  <2> QED BY <1>1, <2>2, <2>3, <2>4 DEF StaleInv
<1>5. ASSUME NEW c \in Clients, Resume(c) PROVE StaleInv'
  <2>1. /\ seen' = seen /\ now' = now /\ taken' = taken /\ status' = status /\ sentAt' = sentAt
        /\ mode[c] = "answered"
        /\ \A d \in Clients \ {c} : mode'[d] = mode[d] /\ req'[d] = req[d]
        /\ mode'[c] \in {"queued", "done"}
    BY <1>0, <1>5 DEF TypeInv, TypeOK, Resume, Request
  <2>2. InFlight'
    BY <2>1 DEF StaleInv, InFlight
  <2>3. FetchedFree'
    BY <2>1 DEF StaleInv, FetchedFree, Fetched
  <2>4. cache' = cache \/ cache' = NoSlots \/ (Fetched(c) /\ cache' = [slots |-> seen[c], until |-> now + SlotTTL])
    BY <1>5 DEF Resume, Used, CacheSlots, Fetched
  <2>5. EntryLives'
    BY <1>0, <2>1, <2>4, StaleNumbers DEF StaleInv, EntryLives, NoSlots, Never
  <2>6. CachedFree'
    <3>1. CASE cache' = cache
      BY <2>1, <3>1 DEF StaleInv, CachedFree
    <3>2. CASE cache' = NoSlots
      BY <3>2 DEF NoSlots, CachedFree
    <3>3. CASE Fetched(c) /\ cache' = [slots |-> seen[c], until |-> now + SlotTTL]
      <4> SUFFICES ASSUME NEW t \in seen[c]
                   PROVE taken[t] = Never \/ now + SlotTTL <= taken[t] + ReadTimeout + SlotTTL
        BY <2>1, <3>3 DEF CachedFree
      <4>1. t \in Slots
        BY <1>0, <3>3 DEF Fetched, TypeInv, HeldKind
      <4>2. taken[t] = Never \/ sentAt[c] <= taken[t]
        BY <3>3 DEF StaleInv, FetchedFree
      <4>3. now <= sentAt[c] + ReadTimeout
        BY <2>1 DEF StaleInv, InFlight
      <4> QED BY <1>0, <4>1, <4>2, <4>3, StaleNumbers
    <3> QED BY <2>4, <3>1, <3>2, <3>3
  <2> QED BY <1>1, <2>2, <2>3, <2>5, <2>6 DEF StaleInv
<1>6. ASSUME NEW c \in Clients, NEW j \in Jobs, NEW h, Begin(c, j, h) PROVE StaleInv'
  <2>1. /\ now' = now /\ taken' = taken /\ status' = status /\ sentAt' = sentAt /\ cache' = cache
        /\ \A d \in Clients \ {c} : mode'[d] = mode[d] /\ req'[d] = req[d] /\ seen'[d] = seen[d]
        /\ mode'[c] \in {"queued", "done"}
    BY <1>0, <1>6 DEF TypeInv, TypeOK, Begin, Request
  <2>2. InFlight' /\ FetchedFree'
    BY <2>1 DEF StaleInv, InFlight, FetchedFree, Fetched
  <2>3. EntryLives' /\ CachedFree'
    BY <2>1 DEF StaleInv, EntryLives, CachedFree
  <2> QED BY <1>1, <2>2, <2>3 DEF StaleInv
<1>7. ASSUME NEW c \in Clients, AppointmentKept(c) \/ Lost(c) PROVE StaleInv'
  <2>1. /\ now' = now /\ taken' = taken /\ status' = status /\ sentAt' = sentAt /\ cache' = cache
        /\ req' = req /\ seen' = seen
        /\ \A d \in Clients \ {c} : mode'[d] = mode[d]
        /\ mode'[c] = "done"
    BY <1>0, <1>7 DEF TypeInv, TypeOK, AppointmentKept, Lost
  <2>2. InFlight' /\ FetchedFree'
    BY <2>1 DEF StaleInv, InFlight, FetchedFree, Fetched
  <2>3. EntryLives' /\ CachedFree'
    BY <2>1 DEF StaleInv, EntryLives, CachedFree
  <2> QED BY <1>1, <2>2, <2>3 DEF StaleInv
<1>8. CASE StopReply \/ UNCHANGED vars
  <2>1. UNCHANGED <<now, taken, status, sentAt, cache, req, seen, mode>>
    BY <1>8 DEF StopReply, vars, clients
  <2> QED BY <1>1, <2>1 DEF StaleInv, InFlight, FetchedFree, Fetched, EntryLives, CachedFree
<1>9. CASE Tick
  <2>1. UNCHANGED <<taken, status, sentAt, req, seen, mode>> /\ now' = now + 1 /\ cache' = Expired(now + 1)
    BY <1>9 DEF Tick, clients
  <2>2. InFlight'
    <3> SUFFICES ASSUME NEW c \in Clients, mode[c] \in {"flight", "answered"}
                 PROVE sentAt[c] <= now + 1 /\ now + 1 <= sentAt[c] + ReadTimeout
      BY <2>1 DEF InFlight
    <3>1. sentAt[c] <= now /\ now < sentAt[c] + ReadTimeout
      BY <1>9 DEF StaleInv, InFlight, Tick
    <3> QED BY <1>0, <3>1, StaleNumbers
  <2>3. FetchedFree'
    BY <2>1 DEF StaleInv, FetchedFree, Fetched
  <2>4. EntryLives' /\ CachedFree'
    <3>1. CASE cache.until <= now + 1
      BY <1>0, <2>1, <3>1, StaleNumbers DEF EntryLives, CachedFree, Expired, NoSlots, Never
    <3>2. CASE ~(cache.until <= now + 1)
      <4>1. cache' = cache
        BY <2>1, <3>2 DEF Expired
      <4>2. now + 1 < cache.until /\ cache.until <= (now + 1) + SlotTTL
        BY <1>0, <3>2, StaleNumbers DEF StaleInv, EntryLives
      <4> QED BY <2>1, <4>1, <4>2 DEF StaleInv, EntryLives, CachedFree
    <3> QED BY <3>1, <3>2
  <2> QED BY <1>1, <2>2, <2>3, <2>4 DEF StaleInv
<1> QED BY <1>0, <1>2, <1>3, <1>4, <1>5, <1>6, <1>7, <1>8, <1>9, BeginForms DEF Next, ClientStep

\* What the cache offers of a booked slot ends with the fetch's timeout and the
\* entry's life, for any of them.
THEOREM StaleSlotsGo == Spec => []StaleSlotsExpire
<1>1. Init => StaleInv
  <2> SUFFICES ASSUME Init PROVE StaleInv
    OBVIOUS
  <2>1. TypeInv
    BY InitType
  <2>2. cache.slots = {} /\ cache.until = Never /\ now = 0
    BY DEF Init, NoSlots
  <2>3. InFlight /\ FetchedFree /\ CachedFree
    BY <2>2 DEF Init, InFlight, FetchedFree, Fetched, CachedFree
  <2> QED BY <2>1, <2>2, <2>3, TimesAssumption DEF StaleInv, EntryLives, Never
<1>2. StaleInv => StaleSlotsExpire
  <2> SUFFICES ASSUME StaleInv, NEW s \in cache.slots, taken[s] # Never
               PROVE now < taken[s] + ReadTimeout + SlotTTL
    BY DEF StaleSlotsExpire
  <2>1. s \in Slots /\ now < cache.until /\ cache.until <= taken[s] + ReadTimeout + SlotTTL
    BY StaleNumbers DEF StaleInv, EntryLives, CachedFree
  <2> QED BY <2>1, StaleNumbers DEF StaleInv
<1> QED BY <1>1, <1>2, StaleStep, PTL DEF Spec
-----------------------------------------------------------------------------
(* Texts. *)

\* A client whose text may still be sent by GHL or be refused.
Pending(c) ==
  \/ mode[c] = "idle"
  \/ Active(c) /\ req[c] = "readConsent"
  \/ Active(c) /\ req[c] = "sms" /\ ~(mode[c] = "answered" /\ status[c] = "ok")

\* The worker with a text that it popped.
Carries(c) == Active(c) /\ req[c] \in {"readStatus", "readPhone"}

TextsInv ==
  /\ TypeInv
  /\ byGhl \cap (fallback \cup byTwilio) = {}
  /\ \A c \in Clients : Pending(c) => c \notin byGhl /\ c \notin fallback /\ c \notin byTwilio
  /\ \A c \in Clients : Carries(c) => \A d \in seen[c] : d \notin byGhl /\ ~Pending(d)

\* A step that moves no text and makes nobody pending or a carrier.
LEMMA TextsKept ==
  ASSUME TextsInv, TypeInv', UNCHANGED texts,
         \A c \in Clients : Pending(c)' => Pending(c),
         \A c \in Clients : Carries(c)' => Carries(c) /\ seen'[c] = seen[c]
  PROVE  TextsInv'
<1>1. ASSUME NEW c \in Clients, Carries(c)', NEW d \in seen'[c] PROVE d \notin byGhl' /\ ~Pending(d)'
  <2>1. Carries(c) /\ d \in seen[c]
    BY <1>1
  <2>2. d \in Clients
    BY <2>1 DEF TextsInv, TypeInv, HeldKind, Carries
  <2> QED BY <2>1, <2>2 DEF TextsInv, texts
<1> QED BY <1>1 DEF TextsInv, texts

LEMMA TextsStep == TextsInv /\ [Next]_vars => TextsInv'
<1> SUFFICES ASSUME TextsInv, [Next]_vars PROVE TextsInv'
  OBVIOUS
<1>0. TypeInv
  BY DEF TextsInv
<1>1. TypeInv'
  BY <1>0, NextType
<1>2. ASSUME NEW c \in Clients, GhlStep(c) PROVE TextsInv'
  <2>1. /\ req' = req /\ mode[c] = "flight" /\ mode'[c] = "answered"
        /\ \A d \in Clients \ {c} : mode'[d] = mode[d] /\ status'[d] = status[d] /\ seen'[d] = seen[d]
        /\ UNCHANGED <<fallback, byTwilio>>
    BY <1>0, <1>2 DEF TypeInv, TypeOK, GhlStep, Refuses, Reads, WritesFields, Creates, WritesTags, Delivers, Books, Answer
  <2>2. req[c] \in {"readStatus", "readPhone"} => seen'[c] = seen[c]
    BY <1>0, <1>2 DEF TypeInv, TypeOK, GhlStep, Refuses, Reads, WritesFields, Creates, WritesTags, Delivers, Books, Answer
  <2>3. \A d \in Clients : Pending(d)' => Pending(d)
    BY <2>1 DEF Pending, Active
  <2>4. \A d \in Clients : Carries(d)' => Carries(d) /\ seen'[d] = seen[d]
    BY <2>1, <2>2 DEF Carries, Active
  <2>5. CASE byGhl' = byGhl
    BY <1>1, <2>1, <2>3, <2>4, <2>5, TextsKept DEF texts
  <2>6. CASE byGhl' # byGhl
    <3>1. req[c] = "sms" /\ byGhl' = byGhl \cup {c} /\ status'[c] = "ok"
      BY <1>0, <1>2, <2>6 DEF TypeInv, TypeOK, GhlStep, Refuses, Reads, WritesFields, Creates, WritesTags, Delivers, Books, Answer
    <3>2. Pending(c) /\ ~Pending(c)'
      BY <2>1, <3>1 DEF Pending, Active
    <3>3. byGhl' \cap (fallback' \cup byTwilio') = {}
      BY <2>1, <3>1, <3>2 DEF TextsInv
    <3>4. ASSUME NEW d \in Clients, Pending(d)' PROVE d \notin byGhl' /\ d \notin fallback' /\ d \notin byTwilio'
      BY <2>1, <2>3, <3>1, <3>2, <3>4 DEF TextsInv
    <3>5. ASSUME NEW e \in Clients, Carries(e)', NEW d \in seen'[e] PROVE d \notin byGhl' /\ ~Pending(d)'
      <4>1. Carries(e) /\ d \in seen[e] /\ d \in Clients
        BY <2>4, <3>5, <1>0 DEF TypeInv, HeldKind, Carries
      <4>2. d \notin byGhl /\ ~Pending(d)
        BY <4>1 DEF TextsInv
      <4> QED BY <2>3, <3>1, <3>2, <4>1, <4>2
    <3> QED BY <1>1, <3>3, <3>4, <3>5 DEF TextsInv
  <2> QED BY <2>5, <2>6
<1>3. ASSUME NEW c \in Clients, AcquireAtOnce(c) \/ SleepInLock(c) \/ WakeUp(c) \/ AppointmentKept(c) \/ Lost(c)
      PROVE  TextsInv'
  <2>1. /\ req' = req /\ status' = status /\ seen' = seen /\ UNCHANGED texts
        /\ \A d \in Clients \ {c} : mode'[d] = mode[d]
        /\ mode'[c] \in {"asleep", "flight", "done"} /\ (mode'[c] # "done" => mode[c] \in {"queued", "asleep"})
    BY <1>0, <1>3 DEF TypeInv, TypeOK, HeldKind, AcquireAtOnce, SleepInLock, WakeUp, Send, AppointmentKept, Lost
  <2>2. \A d \in Clients : (Pending(d)' => Pending(d)) /\ (Carries(d)' => Carries(d))
    BY <2>1 DEF Pending, Carries, Active
  <2> QED BY <1>1, <2>1, <2>2, TextsKept
<1>4. CASE Tick \/ StopReply \/ UNCHANGED vars
  <2>1. UNCHANGED <<req, status, seen, mode>> /\ UNCHANGED texts
    BY <1>4 DEF Tick, StopReply, vars, clients
  <2> QED BY <1>1, <2>1, TextsKept DEF Pending, Carries, Active
<1>5. ASSUME NEW c \in Clients, NEW j \in Jobs, NEW h \in SUBSET (Clients \cup Slots), Begin(c, j, h),
             \/ h \subseteq Slots /\ fallback' = fallback /\ (j \in {"followUp", "fallback"} => h = {})
             \/ h \subseteq fallback /\ fallback' = fallback \ h
      PROVE  TextsInv'
  <2>1. /\ mode[c] = "idle" /\ mode'[c] \in {"queued", "done"} /\ (mode'[c] = "queued" => req'[c] = FirstRequest(j))
        /\ seen'[c] = h /\ UNCHANGED <<byGhl, byTwilio, status>>
        /\ \A d \in Clients \ {c} : mode'[d] = mode[d] /\ req'[d] = req[d] /\ seen'[d] = seen[d]
    BY <1>0, <1>5 DEF TypeInv, TypeOK, Begin, Request
  <2>2. fallback' \subseteq fallback
    BY <1>5
  <2>3. \A d \in Clients : Pending(d)' => Pending(d)
    BY <2>1 DEF Pending, Active
  <2>4. ASSUME NEW d \in h, Carries(c)' PROVE d \in fallback
    <3>1. FirstRequest(j) \in {"readStatus", "readPhone"} => j \in {"followUp", "fallback"}
      BY DEF FirstRequest, Jobs
    <3>2. j \in {"followUp", "fallback"}
      BY <2>1, <2>4, <3>1 DEF Carries, Active
    <3> QED BY <1>5, <2>4, <3>2
  <2>5. ASSUME NEW e \in Clients, Carries(e)', NEW d \in seen'[e] PROVE d \notin byGhl' /\ ~Pending(d)'
    <3>1. CASE e = c
      <4>1. d \in fallback /\ d \in Clients
        BY <1>0, <2>1, <2>4, <2>5, <3>1 DEF TypeInv, TypeOK
      <4> QED BY <2>1, <2>3, <4>1 DEF TextsInv
    <3>2. CASE e # c
      <4>1. Carries(e) /\ d \in seen[e]
        BY <2>1, <2>5, <3>2 DEF Carries, Active
      <4>2. d \in Clients
        BY <1>0, <4>1 DEF TypeInv, HeldKind, Carries
      <4> QED BY <2>1, <2>3, <4>1, <4>2 DEF TextsInv
    <3> QED BY <3>1, <3>2
  <2> QED BY <1>1, <2>1, <2>2, <2>3, <2>5 DEF TextsInv
<1>6. ASSUME NEW c \in Clients, Resume(c) PROVE TextsInv'
  <2> DEFINE ok == status[c] = "ok"
             r == NextRequest(job[c], req[c], ok)
  <2>1. mode[c] = "answered" /\ req[c] \in Requests /\ Active(c)
    BY <1>0, <1>6 DEF TypeInv, HeldKind, Resume, Active
  <2>2. /\ r # "readStatus" /\ r # "readConsent" /\ (r = "readPhone" => req[c] = "readStatus")
        /\ (r = "sms" => req[c] = "readConsent") /\ (req[c] = "sms" /\ ~ok => r = "none")
    <3>1. ok \in BOOLEAN
      OBVIOUS
    <3> HIDE DEF ok
    <3>2. /\ r \notin {"freeSlots", "readStatus", "readConsent"} /\ (r = "readPhone" => req[c] = "readStatus")
          /\ (r = "sms" => req[c] = "readConsent") /\ (req[c] = "sms" /\ ~ok => r = "none")
      BY <2>1, <3>1, NextIsRequest
    <3> QED BY <3>2
  <2>3. /\ mode'[c] \in {"queued", "done"} /\ (mode'[c] = "queued" => req'[c] = r /\ r # "none")
        /\ seen' = seen /\ UNCHANGED <<byGhl, status>>
        /\ \A d \in Clients \ {c} : mode'[d] = mode[d] /\ req'[d] = req[d]
    BY <1>0, <1>6 DEF TypeInv, TypeOK, Resume, Request
  <2>4. /\ fallback' = IF req[c] = "sms" /\ ~ok THEN fallback \cup {c} ELSE fallback
        /\ byTwilio' = byTwilio \/ (req[c] = "readPhone" /\ byTwilio' = byTwilio \cup seen[c])
    BY <1>6 DEF Resume, Used, TwilioSends
  <2> HIDE DEF r, ok
  <2>5. \A d \in Clients : Pending(d)' => Pending(d)
    BY <2>1, <2>2, <2>3 DEF Pending, Active
  <2>6. \A d \in Clients : Carries(d)' => Carries(d)
    BY <2>1, <2>2, <2>3 DEF Carries, Active
  <2>7. req[c] = "sms" /\ ~ok => Pending(c) /\ ~Pending(c)'
    BY <2>1, <2>2, <2>3 DEF Pending, Active, ok
  <2>8. req[c] = "readPhone" => \A d \in seen[c] : d \notin byGhl /\ ~Pending(d)
    BY <2>1 DEF TextsInv, Carries
  <2>9. byGhl' \cap (fallback' \cup byTwilio') = {}
    BY <2>3, <2>4, <2>7, <2>8 DEF TextsInv
  <2>10. ASSUME NEW d \in Clients, Pending(d)' PROVE d \notin byGhl' /\ d \notin fallback' /\ d \notin byTwilio'
    BY <2>3, <2>4, <2>5, <2>7, <2>8, <2>10 DEF TextsInv
  <2>11. ASSUME NEW e \in Clients, Carries(e)', NEW d \in seen'[e] PROVE d \notin byGhl' /\ ~Pending(d)'
    <3>1. Carries(e) /\ d \in seen[e] /\ d \in Clients
      BY <1>0, <2>3, <2>6, <2>11 DEF TypeInv, HeldKind, Carries
    <3> QED BY <2>3, <2>5, <3>1 DEF TextsInv
  <2> QED BY <1>1, <2>9, <2>10, <2>11 DEF TextsInv
<1> QED BY <1>0, <1>2, <1>3, <1>4, <1>5, <1>6, BeginForms DEF Next, ClientStep

\* No text goes out twice, whatever answers are lost.
THEOREM TextsGoOnce == Spec => []TextedOnce
<1>1. Init => TextsInv
  BY InitType DEF Init, TextsInv, Carries, Active
<1>2. TextsInv => TextedOnce
  BY DEF TextsInv, TextedOnce
<1> QED BY <1>1, <1>2, TextsStep, PTL DEF Spec
=============================================================================
