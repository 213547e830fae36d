---------------------------- MODULE WrittenProofs ----------------------------
(***************************************************************************)
(* Proofs about the knowledge base and the conversations in writing that   *)
(* draw on it, for any documents, messages, WebSockets and limits, any     *)
(* interleaving and any failures:                                          *)
(*   1. one version of a title (Knowledge);                                *)
(*   2. a pass of the script (Knowledge);                                  *)
(*   3. a document and its chunks (Knowledge);                             *)
(*   4. the last turns of a conversation (Turns);                          *)
(*   5. no passage twice in a prompt (Retrieval);                          *)
(*   6. the session of the widget (Chat);                                  *)
(*   7. the context of a social channel (Social).                          *)
(***************************************************************************)
EXTENDS Knowledge, Chat, Social, FiniteSetTheorems, SequenceTheorems, TLAPS

-----------------------------------------------------------------------------
(***************************************************************************)
(* 1. One version of a title.                                              *)
(***************************************************************************)
IsJob(j) == {"step", "title", "content", "by", "old", "alone", "chunks", "embedded"} \subseteq DOMAIN j

\* What the updates of a job leave alone.
SameTask(k, j) == k.title = j.title /\ k.content = j.content /\ k.by = j.by
SameCut(k, j)  == k.content = j.content /\ k.chunks = j.chunks /\ k.embedded = j.embedded

LEMMA Told ==
  ASSUME NEW j, IsJob(j), NEW a
  PROVE  /\ IsJob([j EXCEPT !.alone = a]) /\ SameTask([j EXCEPT !.alone = a], j)
         /\ [j EXCEPT !.alone = a].step = j.step
         /\ [j EXCEPT !.alone = a].old = j.old   /\ [j EXCEPT !.alone = a].alone = a
         /\ SameCut([j EXCEPT !.alone = a], j)
BY DEF IsJob, SameTask, SameCut

LEMMA Seen ==
  ASSUME NEW j, IsJob(j), NEW o
  PROVE  /\ IsJob([j EXCEPT !.old = o]) /\ SameTask([j EXCEPT !.old = o], j)
         /\ [j EXCEPT !.old = o].step = j.step /\ [j EXCEPT !.old = o].old = o
         /\ SameCut([j EXCEPT !.old = o], j)
BY DEF IsJob, SameTask, SameCut

LEMMA Moved ==
  ASSUME NEW j, IsJob(j), NEW t
  PROVE  /\ IsJob([j EXCEPT !.step = t]) /\ SameTask([j EXCEPT !.step = t], j)
         /\ [j EXCEPT !.step = t].step = t /\ [j EXCEPT !.step = t].old = j.old
         /\ SameCut([j EXCEPT !.step = t], j)
BY DEF IsJob, SameTask, SameCut

LEMMA Filled ==
  ASSUME NEW j, IsJob(j), NEW c, NEW w
  PROVE  /\ IsJob([j EXCEPT !.chunks = c]) /\ SameTask([j EXCEPT !.chunks = c], j)
         /\ [j EXCEPT !.chunks = c].step = j.step /\ [j EXCEPT !.chunks = c].old = j.old
         /\ IsJob([j EXCEPT !.embedded = w]) /\ SameTask([j EXCEPT !.embedded = w], j)
         /\ [j EXCEPT !.embedded = w].step = j.step /\ [j EXCEPT !.embedded = w].old = j.old
BY DEF IsJob, SameTask

LEMMA TaskOfTask ==
  ASSUME NEW i, NEW j, NEW k, SameTask(k, j), SameTask(j, i)
  PROVE  SameTask(k, i)
BY DEF SameTask

\* What _persist is given: the document cut and embedded.
LEMMA Prepared ==
  ASSUME NEW j \in jobs, IsJob(j), Prepares(j)
  PROVE  \E k : /\ jobs' = (jobs \ {j}) \cup {k}
                /\ IsJob(k) /\ SameTask(k, j) /\ k.step = "store" /\ k.old = j.old
                /\ \E prefixed : k.chunks = Embedded(j.content, prefixed, k.embedded)
<1>1. PICK prefixed, w : jobs' = (jobs \ {j}) \cup {[j EXCEPT !.step = "store", !.embedded = w,
                                                      !.chunks = Embedded(j.content, prefixed, w)]}
  BY DEF Prepares
<1> DEFINE c  == Embedded(j.content, prefixed, w)
           j1 == [j EXCEPT !.step = "store"]
           j2 == [j1 EXCEPT !.embedded = w]
           j3 == [j2 EXCEPT !.chunks = c]
<1> HIDE DEF c
<1>2. IsJob(j1) /\ SameTask(j1, j) /\ j1.step = "store" /\ j1.old = j.old
  BY Moved
<1>3. j3 = [j EXCEPT !.step = "store", !.embedded = w, !.chunks = c]
  OBVIOUS
<1> HIDE DEF j1
<1>4. IsJob(j2) /\ SameTask(j2, j1) /\ j2.step = "store" /\ j2.old = j.old
  BY <1>2, Filled
<1>5. j2.embedded = w
  BY <1>2 DEF IsJob
<1> HIDE DEF j2
<1>6. IsJob(j3) /\ SameTask(j3, j2) /\ j3.step = "store" /\ j3.old = j.old
  BY <1>4, Filled
<1>7. j3.chunks = c /\ j3.embedded = w
  BY <1>4, <1>5 DEF IsJob
<1> HIDE DEF j3
<1>8. SameTask(j3, j)
  BY <1>2, <1>4, <1>6, TaskOfTask
<1>9. jobs' = (jobs \ {j}) \cup {j3}
  BY <1>1, <1>3 DEF c
<1>10. j3.chunks = Embedded(j.content, prefixed, j3.embedded)
  BY <1>7 DEF c
<1> QED BY <1>6, <1>8, <1>9, <1>10

Rivals(j) == {k \in jobs : k.step = "insert" /\ k.title = j.title}

\* The transaction that begins for j, and the rivals it tells.
Begins(new, j) ==
  /\ IsJob(new) /\ SameTask(new, j) /\ SameCut(new, j) /\ new.step = "insert"
  /\ new.old = Versions(j.title) /\ new.alone = (Rivals(j) = {})
  /\ new \in jobs'
  /\ \A k \in jobs' : \/ k \in jobs /\ k # j /\ k \notin Rivals(j)
                      \/ \E r \in Rivals(j) :
                           /\ IsJob(k) /\ SameTask(k, r) /\ SameCut(k, r) /\ k.old = r.old
                           /\ k.step = "insert" /\ k.alone = FALSE
                      \/ k = new
  /\ Rivals(j) = {} => jobs' = (jobs \ {j}) \cup {new}

LEMMA Selected ==
  ASSUME NEW j \in jobs, \A k \in jobs : IsJob(k), SelectsVersions(j)
  PROVE  \E new : Begins(new, j)
<1> DEFINE toldOf(k) == [k EXCEPT !.alone = FALSE]
           new       == [j EXCEPT !.step = "insert", !.old = Versions(j.title),
                                  !.alone = (Rivals(j) = {})]
<1>1. jobs' = ((jobs \ {j}) \ Rivals(j)) \cup {toldOf(k) : k \in Rivals(j)} \cup {new}
  BY DEF SelectsVersions, Rivals
<1>2. \A k \in Rivals(j) : /\ IsJob(toldOf(k)) /\ SameTask(toldOf(k), k) /\ toldOf(k).old = k.old
                           /\ toldOf(k).step = "insert" /\ toldOf(k).alone = FALSE
                           /\ SameCut(toldOf(k), k)
  <2> TAKE k \in Rivals(j)
  <2>1. IsJob(k) /\ k.step = "insert"
    BY DEF Rivals
  <2> QED BY <2>1, Told
<1>3. /\ IsJob(new) /\ SameTask(new, j) /\ SameCut(new, j) /\ new.step = "insert"
      /\ new.old = Versions(j.title) /\ new.alone = (Rivals(j) = {})
  <2> DEFINE j1 == [j EXCEPT !.step = "insert"]
             j2 == [j1 EXCEPT !.old = Versions(j.title)]
  <2>1. IsJob(j1) /\ SameTask(j1, j) /\ SameCut(j1, j) /\ j1.step = "insert"
    BY Moved
  <2> HIDE DEF j1
  <2>2. IsJob(j2) /\ SameTask(j2, j) /\ SameCut(j2, j) /\ j2.step = "insert" /\ j2.old = Versions(j.title)
    BY <2>1, Seen DEF SameTask, SameCut
  <2>3. new = [j2 EXCEPT !.alone = (Rivals(j) = {})]
    BY DEF j1
  <2> HIDE DEF j2, new
  <2> QED BY <2>2, <2>3, Told DEF SameTask, SameCut
<1> HIDE DEF toldOf, new
<1>4. \A k \in jobs' : \/ k \in jobs /\ k # j /\ k \notin Rivals(j)
                       \/ \E r \in Rivals(j) : k = toldOf(r)
                       \/ k = new
  BY <1>1
<1>5. Rivals(j) = {} => jobs' = (jobs \ {j}) \cup {new}
  BY <1>1
<1>6. Begins(new, j)
  BY <1>1, <1>2, <1>3, <1>4, <1>5 DEF Begins
<1> QED BY <1>6

Inserting(j) == j.step = "insert"

\* Of two transactions on one title, neither is alone.
RivalsKnow ==
  \A j, k \in jobs :
    j # k /\ Inserting(j) /\ Inserting(k) /\ j.title = k.title => ~j.alone

\* A transaction that is alone has seen every version there is.
AloneSeesAll ==
  \A j \in jobs : Inserting(j) /\ j.alone => \A d \in docs : d.title = j.title => d \in j.old

Inv == /\ \A j \in jobs : IsJob(j)
       /\ RivalsKnow
       /\ AloneSeesAll

\* Nobody begins a transaction or adds a document.
LEMMA NobodySelects ==
  ASSUME Inv, docs' \subseteq docs,
         \A j \in jobs' : j \in jobs \/ (IsJob(j) /\ ~Inserting(j))
  PROVE  Inv'
BY DEF Inv, RivalsKnow, AloneSeesAll

LEMMA JobIsJob ==
  ASSUME NEW by, NEW d
  PROVE  IsJob(Job(by, d)) /\ ~Inserting(Job(by, d))
BY DEF IsJob, Job, Inserting

\* The version is chosen after the rivals were told.
LEMMA SelectionKept ==
  ASSUME Inv, NEW j \in jobs, SelectsVersions(j)
  PROVE  Inv'
<1>1. j.step = "store" /\ docs' = docs
  BY DEF SelectsVersions
<1>2. PICK new : Begins(new, j)
  BY Selected DEF Inv
<1>3. \A k \in jobs' : /\ IsJob(k)
                       /\ Inserting(k) /\ k.title = j.title => k = new \/ ~k.alone
                       /\ k.title # j.title => k \in jobs
  BY <1>2 DEF Begins, Rivals, SameTask, Inv, Inserting
<1>4. new.alone => \A k \in jobs' : Inserting(k) /\ k.title = j.title => k = new
  BY <1>2 DEF Begins, Rivals, Inserting
<1>5. RivalsKnow'
  <2> SUFFICES ASSUME NEW k \in jobs', NEW l \in jobs', k # l, Inserting(k), Inserting(l),
                      k.title = l.title
               PROVE  ~k.alone
    BY DEF RivalsKnow
  <2>1. CASE k.title = j.title
    BY <2>1, <1>3, <1>4
  <2>2. CASE k.title # j.title
    BY <2>2, <1>3 DEF Inv, RivalsKnow
  <2> QED BY <2>1, <2>2
<1>6. AloneSeesAll'
  <2> SUFFICES ASSUME NEW k \in jobs', Inserting(k), k.alone,
                      NEW d \in docs, d.title = k.title
               PROVE  d \in k.old
    BY <1>1 DEF AloneSeesAll
  <2>1. CASE k.title = j.title
    BY <2>1, <1>2, <1>3 DEF Begins, Versions
  <2>2. CASE k.title # j.title
    BY <2>2, <1>3 DEF Inv, AloneSeesAll
  <2> QED BY <2>1, <2>2
<1> QED BY <1>3, <1>5, <1>6 DEF Inv

\* The document of one job replaces the versions it saw.
LEMMA InsertionKept ==
  ASSUME Inv, NEW j \in jobs, Inserts(j)
  PROVE  Inv'
<1>1. Inserting(j) /\ jobs' = jobs \ {j}
  BY DEF Inserts, Ended, Inserting
<1>2. CASE UNCHANGED docs
  BY <1>1, <1>2, NobodySelects
<1>3. CASE docs' = (docs \ j.old) \cup
                   {[title |-> j.title, content |-> j.content, chunks |-> j.chunks,
                     embedded |-> j.embedded]}
  <2>1. \A d \in docs' : d \in docs \/ d.title = j.title
    BY <1>3
  <2>2. \A k \in jobs' : Inserting(k) /\ k.alone => k.title # j.title
    BY <1>1 DEF Inv, RivalsKnow
  <2> QED BY <1>1, <2>1, <2>2 DEF Inv, RivalsKnow, AloneSeesAll
<1> QED BY <1>2, <1>3 DEF Inserts

LEMMA PreparationKept ==
  ASSUME Inv, NEW j \in jobs, Prepares(j)
  PROVE  Inv'
<1>1. docs' = docs
  BY DEF Prepares
<1>2. PICK k : /\ jobs' = (jobs \ {j}) \cup {k}
               /\ IsJob(k) /\ SameTask(k, j) /\ k.step = "store" /\ k.old = j.old
  BY Prepared DEF Inv
<1> QED BY <1>1, <1>2, NobodySelects DEF Inserting

LEMMA StepKept ==
  ASSUME Inv, [Next]_vars
  PROVE  Inv'
<1>1. CASE UNCHANGED vars
  BY <1>1, NobodySelects DEF vars
<1>2. CASE IngestStep
  <2> PICK j \in jobs : \/ FindsDuplicate(j) \/ Prepares(j) \/ SelectsVersions(j)
                        \/ Inserts(j) \/ DatabaseFails(j)
    BY <1>2 DEF IngestStep
  <2>1. CASE FindsDuplicate(j) \/ DatabaseFails(j)
    BY <2>1, NobodySelects DEF FindsDuplicate, DatabaseFails, Ended
  <2> QED BY <2>1, PreparationKept, SelectionKept, InsertionKept
<1>3. ASSUME NEW ds, AppIngests(ds)
      PROVE  Inv'
  BY <1>3, NobodySelects, JobIsJob DEF AppIngests
<1>4. CASE SyncPrompts
  BY <1>4, NobodySelects, JobIsJob DEF SyncPrompts, ScriptJobs
<1>5. ASSUME NEW d, AdminDeletes(d)
      PROVE  Inv'
  BY <1>5, NobodySelects DEF AdminDeletes
<1>6. ASSUME NEW x, NewRecord(x)
      PROVE  Inv'
  BY <1>6, NobodySelects DEF NewRecord
<1>7. CASE EmbeddingsExpire
  BY <1>7, NobodySelects DEF EmbeddingsExpire
<1>8. CASE PassStarts \/ NextSource \/ ScriptKilled
  BY <1>8, NobodySelects DEF PassStarts, NextSource, ScriptKilled
<1>9. ASSUME NEW d, Takes(d)
      PROVE  Inv'
  BY <1>9, NobodySelects, JobIsJob DEF Takes
<1>10. CASE AppStep
  BY <1>3, <1>4, <1>5, <1>6, <1>7, <1>10
     DEF AppStep, AggregateIntakePatterns, AdminIngests, IngestTranscript, IngestCallerProfile
<1> QED BY <1>1, <1>2, <1>8, <1>9, <1>10 DEF Next, ScriptStep

LEMMA InvHolds == Spec => []Inv
<1>1. Init => Inv
  BY DEF Init, Inv, RivalsKnow, AloneSeesAll
<1> QED BY <1>1, StepKept, PTL DEF Spec

\* The step that stores the document of a job that is alone.
LEMMA HealsNow ==
  ASSUME Inv, Next, NEW j \in jobs, Inserting(j), j.alone,
         NEW d \in docs' \ docs, d.title = j.title, d.content = j.content
  PROVE  Cardinality({e \in docs' : e.title = j.title}) = 1
<1>1. PICK k \in jobs : Inserts(k)
  BY DEF Next, IngestStep, AppStep, ScriptStep, FindsDuplicate, Prepares, SelectsVersions,
     DatabaseFails, SyncPrompts, AggregateIntakePatterns, AdminIngests, EmbeddingsExpire,
     IngestTranscript, IngestCallerProfile, AppIngests, AdminDeletes, NewRecord, PassStarts,
     NextSource, ScriptKilled, Takes
<1> DEFINE new == [title |-> k.title, content |-> k.content, chunks |-> k.chunks,
                   embedded |-> k.embedded]
<1>2. Inserting(k) /\ docs' = (docs \ k.old) \cup {new}
  BY <1>1 DEF Inserts, Inserting
<1>3. d = new /\ k.title = j.title
  BY <1>2
<1>4. k = j
  BY <1>2, <1>3 DEF Inv, RivalsKnow
<1>5. {e \in docs' : e.title = j.title} = {d}
  BY <1>2, <1>3, <1>4 DEF Inv, AloneSeesAll
<1> QED BY <1>5, FS_Singleton

\* Whatever overlapped before, an ingestion that nobody overlaps leaves one
\* version of its title (_persist).
THEOREM LoneIngestsHeal == Spec => LoneIngestHeals
<1>1. Inv /\ [Next]_vars =>
        (\A j \in jobs :
           (/\ j.step = "insert" /\ j.alone
            /\ \E d \in docs' \ docs : d.title = j.title /\ d.content = j.content)
           => Cardinality({d \in docs' : d.title = j.title}) = 1) \/ UNCHANGED vars
  BY HealsNow DEF Inserting
<1> QED BY <1>1, InvHolds, PTL DEF Spec, LoneIngestHeals

-----------------------------------------------------------------------------
(***************************************************************************)
(* 2. A pass of the script over the whole database.                        *)
(***************************************************************************)
\* What the title of a document says, given its content.
TitleOf(c) ==
  [kind |-> c.kind,
   of   |-> IF c.kind = "nightly" THEN "month" ELSE IF c.kind = "profile" THEN NameOf(c.of) ELSE c.of,
   n    |-> IF c.kind \in {"prompt", "transcript", "summary", "nightly"} THEN 0
            ELSE IF c.kind = "profile" /\ c.order = 3 THEN 1 ELSE c.n]

Exact(x) == x.title = TitleOf(x.content)

\* The application has another title for some transcripts.
Titled(x) ==
  \/ Exact(x)
  \/ x.content.kind = "transcript" /\ x.title.kind = "transcript" /\ x.title.n = 1

GoodJob(j) == IsJob(j) /\ Titled(j) /\ \A x \in j.old : x.title = j.title

\* Whether or not a pass is under way, the content of a document says what its
\* title is, and a transaction replaces versions of its own title only.
BaseInv ==
  /\ \A j \in jobs : GoodJob(j)
  /\ \A x \in docs \cup todo : Titled(x)
  /\ at \in 0..LastSource /\ (at = 0 => todo = {})
  /\ IsFiniteSet(docs)

For(x, d)    == x.title = d.title /\ x.content = d.content
TitleKept(d)   == \E x \in docs : x.title = d.title
ContentKept(d) == \E x \in docs : x.content = d.content
There(d)       == TitleKept(d) \/ ContentKept(d)
Kept(d)        == There(d) /\ (~SharesTitle(d) => ContentKept(d))

\* A pass under way: the sources behind it are kept, and of the one it is at
\* each document is ahead, in an ingestion, or kept.
SoFar ==
  /\ \A i \in 1..LastSource : \A d \in Source(i, seed) :
       /\ i < at => Kept(d)
       /\ i = at => d \in todo \/ Kept(d) \/ \E j \in jobs : For(j, d)
  /\ at \in 1..LastSource
  /\ \A d \in todo : \E i \in 1..LastSource : i = at /\ d \in Source(i, seed)
  /\ \A j \in jobs : /\ j.by = "script"
                     /\ \E i \in 1..LastSource : i = at /\ \E d \in Source(i, seed) : For(j, d)

\* It ingests each title once at a time, and its transactions see every version.
OneEach ==
  /\ IsFiniteSet(jobs)
  /\ \A j, k \in jobs : j.title = k.title => j = k
  /\ \A j \in jobs : \A d \in todo : ~For(j, d)
  /\ \A j \in jobs : j.step = "insert" => j.old = Versions(j.title)

PassInv ==
  /\ pass \in {"none", "first", "again", "covered"}
  /\ pass \in {"first", "again"} => SoFar /\ OneEach
  /\ pass = "again" => \A i \in 1..LastSource : \A d \in Source(i, seed) : There(d)
  /\ pass = "covered" => /\ at = 0 /\ jobs = {}
                         /\ \A i \in 1..LastSource : \A d \in Source(i, seed) : Kept(d)

KindOf(i) ==
  CASE i = 1 -> "prompt" [] i = 2 -> "transcript" [] i = 3 -> "guide" [] i = 4 -> "summary"
    [] i = 5 -> "score"  [] i = 6 -> "alert"      [] i = 7 -> "patterns" [] i = 8 -> "profile"

LEMMA DocIs ==
  \A kind, subject, count, of, n, order :
         /\ Doc(kind, subject, count, of, n, order).title = [kind |-> kind, of |-> subject, n |-> count]
         /\ Doc(kind, subject, count, of, n, order).content = [kind |-> kind, of |-> of, n |-> n, order |-> order]
  BY DEF Doc

LEMMA DocSame ==
  ASSUME NEW kind, NEW subject, NEW count, NEW of, NEW n, NEW order,
         NEW subject2, NEW count2, NEW of2, NEW n2, NEW order2, NEW kind2,
         Doc(kind, subject, count, of, n, order).title = Doc(kind2, subject2, count2, of2, n2, order2).title
  PROVE  kind = kind2 /\ subject = subject2 /\ count = count2
<1> DEFINE a == [kind |-> kind, of |-> subject, n |-> count]
           b == [kind |-> kind2, of |-> subject2, n |-> count2]
<1>1. a = b
  <2>1. /\ Doc(kind, subject, count, of, n, order).title = a
        /\ Doc(kind2, subject2, count2, of2, n2, order2).title = b
    BY DocIs
  <2> QED BY <2>1
<1>2. a.kind = kind /\ a.of = subject /\ a.n = count /\ b.kind = kind2 /\ b.of = subject2 /\ b.n = count2
  OBVIOUS
<1> HIDE DEF a, b
<1> QED BY <1>1, <1>2

\* The titles of the sources.
LEMMA SourceTitled ==
  ASSUME NEW i \in 1..LastSource, NEW s, NEW d \in Source(i, s)
  PROVE  d.title.kind = KindOf(i) /\ Exact(d) /\ Titled(d)
<1>1. CASE i = 1
  <2>1. PICK f \in Known(Files) : d = Doc("prompt", f, 0, f, records[f], 0)
    BY <1>1 DEF Source, Prompts
  <2>2. Exact(Doc("prompt", f, 0, f, records[f], 0)) /\ Doc("prompt", f, 0, f, records[f], 0).title.kind = "prompt"
    BY DEF Doc, Exact, TitleOf
  <2> QED BY <1>1, <2>1, <2>2 DEF KindOf, Titled
<1>2. CASE i = 2
  <2>1. PICK c \in Known(Calls) : d = Doc("transcript", c, 0, c, 1, 0)
    BY <1>2 DEF Source, Transcripts
  <2>2. Exact(Doc("transcript", c, 0, c, 1, 0)) /\ Doc("transcript", c, 0, c, 1, 0).title.kind = "transcript"
    BY DEF Doc, Exact, TitleOf
  <2> QED BY <1>2, <2>1, <2>2 DEF KindOf, Titled
<1>3. CASE i = 3
  <2>1. PICK t \in Known(CaseTypes) : d = Doc("guide", t, records[t], t, records[t], IF records[t] > 1 THEN s ELSE 0)
    BY <1>3 DEF Source, Intakes
  <2>2. Exact(Doc("guide", t, records[t], t, records[t], IF records[t] > 1 THEN s ELSE 0)) /\ Doc("guide", t, records[t], t, records[t], IF records[t] > 1 THEN s ELSE 0).title.kind = "guide"
    BY DEF Doc, Exact, TitleOf
  <2> QED BY <1>3, <2>1, <2>2 DEF KindOf, Titled
<1>4. CASE i = 4
  <2>1. PICK c \in Known(Calls) : d = Doc("summary", c, 0, c, 1, 0)
    BY <1>4 DEF Source, Summaries
  <2>2. Exact(Doc("summary", c, 0, c, 1, 0)) /\ Doc("summary", c, 0, c, 1, 0).title.kind = "summary"
    BY DEF Doc, Exact, TitleOf
  <2> QED BY <1>4, <2>1, <2>2 DEF KindOf, Titled
<1>5. CASE i = 5
  <2>1. PICK t \in Known(Tiers) : d = Doc("score", t, records[t], t, records[t], 0)
    BY <1>5 DEF Source, Scores
  <2>2. Exact(Doc("score", t, records[t], t, records[t], 0)) /\ Doc("score", t, records[t], t, records[t], 0).title.kind = "score"
    BY DEF Doc, Exact, TitleOf
  <2> QED BY <1>5, <2>1, <2>2 DEF KindOf, Titled
<1>6. CASE i = 6
  <2>1. PICK l \in Known(Labels) : d = Doc("alert", l, records[l], l, records[l], 0)
    BY <1>6 DEF Source, Alerts
  <2>2. Exact(Doc("alert", l, records[l], l, records[l], 0)) /\ Doc("alert", l, records[l], l, records[l], 0).title.kind = "alert"
    BY DEF Doc, Exact, TitleOf
  <2> QED BY <1>6, <2>1, <2>2 DEF KindOf, Titled
<1>7. CASE i = 7
  <2>1. PICK t \in Known(CaseTypes) : d = Doc("patterns", "all", Summed(CaseTypes), "all", Summed(CaseTypes), 0)
    BY <1>7 DEF Source, Patterns
  <2>2. Exact(Doc("patterns", "all", Summed(CaseTypes), "all", Summed(CaseTypes), 0)) /\ Doc("patterns", "all", Summed(CaseTypes), "all", Summed(CaseTypes), 0).title.kind = "patterns"
    BY DEF Doc, Exact, TitleOf
  <2> QED BY <1>7, <2>1, <2>2 DEF KindOf, Titled
<1>8. CASE i = 8
  <2>1. PICK c \in Known(Callers) : d = Doc("profile", NameOf(c), records[c], c, records[c], 0)
    BY <1>8 DEF Source, Profiles
  <2>2. Exact(Doc("profile", NameOf(c), records[c], c, records[c], 0)) /\ Doc("profile", NameOf(c), records[c], c, records[c], 0).title.kind = "profile"
    BY DEF Doc, Exact, TitleOf
  <2> QED BY <1>8, <2>1, <2>2 DEF KindOf, Titled
<1> QED BY <1>1, <1>2, <1>3, <1>4, <1>5, <1>6, <1>7, <1>8 DEF LastSource

\* Only callers may share a title.
LEMMA SourcesApart ==
  ASSUME NEW i \in 1..LastSource, NEW k \in 1..LastSource, NEW s,
         NEW d \in Source(i, s), NEW e \in Source(k, s), d.title = e.title
  PROVE  d = e \/ (d \in Profiles /\ e \in Profiles)
<1>1. i = k
  <2>1. KindOf(i) = KindOf(k)
    BY SourceTitled
  <2> QED BY <2>1 DEF KindOf, LastSource
<1>2. CASE i = 1
  BY <1>1, <1>2, DocSame DEF Source, Prompts
<1>3. CASE i = 2
  BY <1>1, <1>3, DocSame DEF Source, Transcripts
<1>4. CASE i = 3
  BY <1>1, <1>4, DocSame DEF Source, Intakes
<1>5. CASE i = 4
  BY <1>1, <1>5, DocSame DEF Source, Summaries
<1>6. CASE i = 5
  BY <1>1, <1>6, DocSame DEF Source, Scores
<1>7. CASE i = 6
  BY <1>1, <1>7, DocSame DEF Source, Alerts
<1>8. CASE i = 7
  BY <1>1, <1>8 DEF Source, Patterns
<1>9. CASE i = 8
  BY <1>1, <1>9 DEF Source
<1> QED BY <1>2, <1>3, <1>4, <1>5, <1>6, <1>7, <1>8, <1>9 DEF LastSource

\* Another process lists the same titles, and the same transcripts.
LEMMA TitlesAgree ==
  ASSUME NEW i \in 1..LastSource, NEW s, NEW r, NEW d \in Source(i, s)
  PROVE  \E e \in Source(i, r) :
           e.title = d.title /\ (e.content.kind = "transcript" => e.content = d.content)
<1>1. CASE i = 3
  <2>1. PICK t \in Known(CaseTypes) :
          d = Doc("guide", t, records[t], t, records[t], IF records[t] > 1 THEN s ELSE 0)
    BY <1>1 DEF Source, Intakes
  <2> DEFINE e == Doc("guide", t, records[t], t, records[t], IF records[t] > 1 THEN r ELSE 0)
  <2>2. e \in Source(i, r)
    BY <1>1 DEF Source, Intakes
  <2>3. e.title = d.title /\ e.content.kind = "guide"
    <3>1. /\ d.title = [kind |-> "guide", of |-> t, n |-> records[t]]
          /\ e.title = [kind |-> "guide", of |-> t, n |-> records[t]]
          /\ e.content = [kind |-> "guide", of |-> t, n |-> records[t],
                          order |-> IF records[t] > 1 THEN r ELSE 0]
      BY <2>1, DocIs
    <3> QED BY <3>1
  <2> QED BY <2>2, <2>3
<1>2. CASE i # 3
  <2>1. Source(i, s) = Source(i, r)
    BY <1>2 DEF Source, LastSource
  <2> QED BY <2>1
<1> QED BY <1>1, <1>2


LEMMA SourceStays ==
  ASSUME UNCHANGED records
  PROVE  /\ \A i \in 1..LastSource : Source(i, seed)' = Source(i, seed')
         /\ \A d : SharesTitle(d)' = SharesTitle(d)
<1>1. /\ Prompts' = Prompts /\ Transcripts' = Transcripts /\ Summaries' = Summaries
      /\ Scores' = Scores /\ Alerts' = Alerts /\ Patterns' = Patterns /\ Profiles' = Profiles
  BY DEF Prompts, Transcripts, Summaries, Scores, Alerts, Patterns, Profiles, Known, Summed
<1>2. Intakes(seed)' = Intakes(seed')
  BY DEF Intakes, Known
<1> QED BY <1>1, <1>2 DEF Source, SharesTitle

\* A document replaced by one of a source had its title because they are about
\* the same.
LEMMA ContentGivesTitle ==
  ASSUME NEW x, NEW d, NEW e, Titled(x), Exact(d), Exact(e),
         x.content = d.content, x.title = e.title
  PROVE  x.title = d.title
<1>1. CASE Exact(x)
  BY <1>1 DEF Exact
<1>2. CASE x.title.kind = "transcript" /\ x.title.n = 1
  <2>1. TitleOf(e.content).kind = e.content.kind
    BY DEF TitleOf
  <2>2. e.content.kind = "transcript" => TitleOf(e.content).n = 0
    BY DEF TitleOf
  <2> QED BY <1>2, <2>1, <2>2 DEF Exact
<1> QED BY <1>1, <1>2 DEF Titled

LEMMA SourceIsDoc ==
  ASSUME NEW i \in 1..LastSource, NEW s, NEW d \in Source(i, s), NEW e \in Source(i, s), For(d, e)
  PROVE  d = e
<1> DEFINE IsDoc(x) == x = [title |-> x.title, content |-> x.content]
<1>1. \A kind, subject, count, of, n, order : IsDoc(Doc(kind, subject, count, of, n, order))
  BY DEF Doc
<1> HIDE DEF IsDoc
<1>2. \A x \in Source(i, s) : IsDoc(x)
  BY <1>1 DEF Source, LastSource, Prompts, Transcripts, Intakes, Summaries, Scores, Alerts, Patterns, Profiles
<1> QED BY <1>2 DEF IsDoc, For

\* What the application ingests has the titles of its sources.
LEMMA AppTitled ==
  /\ \A d \in NightlyDocs \cup UploadDocs \cup Prompts : Titled(d)
  /\ \A c : \A own \in {0, 1} : \A d \in CallDocs(c, own) \cup CallerDocs(c) : Titled(d)
<1>1. \A d \in NightlyDocs \cup UploadDocs \cup Prompts : Titled(d)
  BY DEF NightlyDocs, UploadDocs, Prompts, Doc, Titled, Exact, TitleOf
<1>2. ASSUME NEW c, NEW own \in {0, 1}, NEW d \in CallDocs(c, own) \cup CallerDocs(c)
      PROVE  Titled(d)
  BY <1>2 DEF CallDocs, CallerDocs, Doc, Titled, Exact, TitleOf
<1> QED BY <1>1, <1>2

LEMMA JobIsGood ==
  ASSUME NEW by, NEW d, Titled(d)
  PROVE  GoodJob(Job(by, d))
BY DEF GoodJob, IsJob, Job, Titled, Exact

LEMMA TaskIsTitled ==
  ASSUME NEW k, NEW j, SameTask(k, j), Titled(j)
  PROVE  Titled(k)
BY DEF SameTask, Titled, Exact

\* Nobody adds a document or lists a source.
LEMMA BaseFew ==
  ASSUME BaseInv, docs' \subseteq docs, at' \in 0..LastSource,
         todo' = {} \/ (todo' \subseteq todo /\ at' = at),
         \A k \in jobs' : k \in jobs \/ GoodJob(k)
  PROVE  BaseInv'
<1>1. IsFiniteSet(docs)'
  BY FS_Subset DEF BaseInv
<1> QED BY <1>1 DEF BaseInv

LEMMA BaseInsertion ==
  ASSUME BaseInv, NEW j \in jobs, Inserts(j)
  PROVE  BaseInv'
<1>1. jobs' = jobs \ {j} /\ ((at' = 0 /\ todo' = {}) \/ (at' = at /\ todo' = todo))
  BY DEF Inserts, Ended
<1>2. CASE UNCHANGED docs
  BY <1>1, <1>2, BaseFew DEF BaseInv, LastSource
<1>3. CASE ~UNCHANGED docs
  <2> DEFINE new == [title |-> j.title, content |-> j.content, chunks |-> j.chunks,
                     embedded |-> j.embedded]
  <2>1. docs' = (docs \ j.old) \cup {new}
    BY <1>3 DEF Inserts
  <2>2. Titled(new)
    BY DEF BaseInv, GoodJob, Titled, Exact
  <2> HIDE DEF new
  <2>3. IsFiniteSet(docs \ j.old)
    BY FS_Subset DEF BaseInv
  <2>4. IsFiniteSet(docs')
    <3>1. docs' = (docs \ j.old) \cup {new}
      BY <2>1
    <3> QED BY <2>3, <3>1, FS_AddElement
  <2> QED BY <1>1, <2>1, <2>2, <2>4 DEF BaseInv, LastSource
<1> QED BY <1>2, <1>3

LEMMA BaseStep ==
  ASSUME BaseInv, [Next]_vars
  PROVE  BaseInv'
<1>0. at \in 0..LastSource /\ 0 \in 0..LastSource
  BY DEF BaseInv, LastSource
<1>1. CASE UNCHANGED vars
  BY <1>0, <1>1, BaseFew DEF vars, script
<1>2. CASE IngestStep
  <2> PICK j \in jobs : \/ FindsDuplicate(j) \/ Prepares(j) \/ SelectsVersions(j)
                        \/ Inserts(j) \/ DatabaseFails(j)
    BY <1>2 DEF IngestStep
  <2>1. CASE FindsDuplicate(j) \/ DatabaseFails(j)
    BY <1>0, <2>1, BaseFew DEF FindsDuplicate, DatabaseFails, Ended
  <2>2. CASE Prepares(j)
    <3>1. UNCHANGED <<docs, at, todo>>
      BY <2>2 DEF Prepares, script
    <3>2. PICK k : /\ jobs' = (jobs \ {j}) \cup {k}
                   /\ IsJob(k) /\ SameTask(k, j) /\ k.step = "store" /\ k.old = j.old
      BY <2>2, Prepared DEF BaseInv, GoodJob
    <3>3. GoodJob(k)
      BY <3>2, TaskIsTitled DEF BaseInv, GoodJob, SameTask
    <3> QED BY <1>0, <3>1, <3>2, <3>3, BaseFew
  <2>3. CASE SelectsVersions(j)
    <3>1. UNCHANGED <<docs, at, todo>>
      BY <2>3 DEF SelectsVersions, script
    <3>2. \A k \in jobs : GoodJob(k) /\ IsJob(k)
      BY DEF BaseInv, GoodJob
    <3>3. PICK new : Begins(new, j)
      BY <2>3, <3>2, Selected
    <3>4. GoodJob(new)
      BY <3>2, <3>3, TaskIsTitled DEF GoodJob, SameTask, Versions, Begins
    <3>5. ASSUME NEW k, NEW r \in Rivals(j), IsJob(k), SameTask(k, r), k.old = r.old
          PROVE  GoodJob(k)
      BY <3>2, <3>5, TaskIsTitled DEF GoodJob, SameTask, Rivals
    <3>6. \A k \in jobs' : k \in jobs \/ GoodJob(k)
      BY <3>3, <3>4, <3>5 DEF Begins
    <3> QED BY <1>0, <3>1, <3>6, BaseFew
  <2> QED BY <2>1, <2>2, <2>3, BaseInsertion
<1>3. ASSUME NEW ds, AppIngests(ds), \A d \in ds : Titled(d)
      PROVE  BaseInv'
  BY <1>0, <1>3, BaseFew, JobIsGood DEF AppIngests, script
<1>4. CASE SyncPrompts
  BY <1>0, <1>4, BaseFew, JobIsGood, AppTitled DEF SyncPrompts, ScriptJobs, script
<1>5. ASSUME NEW d, AdminDeletes(d)
      PROVE  BaseInv'
  BY <1>0, <1>5, BaseFew DEF AdminDeletes, script
<1>6. ASSUME NEW x, NewRecord(x)
      PROVE  BaseInv'
  BY <1>0, <1>6, BaseFew DEF NewRecord, script
<1>7. CASE EmbeddingsExpire
  BY <1>0, <1>7, BaseFew DEF EmbeddingsExpire, script
<1>8. CASE PassStarts
  <2>1. UNCHANGED <<docs, jobs>> /\ at' = 1 /\ todo' = Source(1, seed')
    BY <1>8 DEF PassStarts
  <2>2. \A d \in todo' : Titled(d)
    BY <2>1, SourceTitled DEF LastSource
  <2> QED BY <2>1, <2>2 DEF BaseInv, LastSource
<1>9. CASE NextSource
  <2>1. CASE at = LastSource
    BY <1>0, <1>9, <2>1, BaseFew DEF NextSource
  <2>2. CASE at # LastSource
    <3>1. UNCHANGED <<docs, jobs>> /\ at # 0 /\ at' = at + 1 /\ todo' = Source(at + 1, seed)
      BY <1>9, <2>2 DEF NextSource
    <3>2. at + 1 \in 1..LastSource
      BY <1>0, <2>2, <3>1 DEF LastSource
    <3>3. \A d \in todo' : Titled(d)
      BY <3>1, <3>2, SourceTitled
    <3> QED BY <3>1, <3>2, <3>3 DEF BaseInv, LastSource
  <2> QED BY <2>1, <2>2
<1>10. CASE ScriptKilled
  BY <1>0, <1>10, BaseFew DEF ScriptKilled
<1>11. ASSUME NEW d \in todo, Takes(d)
       PROVE  BaseInv'
  <2>1. GoodJob(Job("script", d))
    BY <1>11, JobIsGood DEF BaseInv
  <2> QED BY <1>0, <1>11, <2>1, BaseFew DEF Takes
<1>12. CASE AppStep
  <2>1. CASE AggregateIntakePatterns \/ AdminIngests \/ \E c : IngestTranscript(c) \/ IngestCallerProfile(c)
    <3>1. CASE AggregateIntakePatterns
      BY <1>3, <3>1, AppTitled DEF AggregateIntakePatterns
    <3>2. CASE AdminIngests
      BY <1>3, <3>2, AppTitled DEF AdminIngests
    <3>3. ASSUME NEW c, IngestTranscript(c) \/ IngestCallerProfile(c)
          PROVE  BaseInv'
      BY <1>3, <3>3, AppTitled DEF IngestTranscript, IngestCallerProfile
    <3> QED BY <2>1, <3>1, <3>2, <3>3
  <2> QED BY <1>4, <1>5, <1>6, <1>7, <1>12, <2>1 DEF AppStep
<1> QED BY <1>1, <1>2, <1>8, <1>9, <1>10, <1>11, <1>12 DEF Next, ScriptStep

UnderWay == pass \in {"first", "again"}

\* What a pass is about.
About == <<records, at, todo, seed, pass>>

LEMMA AboutSame ==
  ASSUME UNCHANGED About
  PROVE  /\ \A i \in 1..LastSource : Source(i, seed)' = Source(i, seed)
         /\ \A d : SharesTitle(d)' = SharesTitle(d)
BY SourceStays DEF About

LEMMA KeptSame ==
  ASSUME UNCHANGED <<records, docs>>
  PROVE  \A d : Kept(d)' = Kept(d) /\ There(d)' = There(d)
BY SourceStays DEF Kept, There, TitleKept, ContentKept

\* A job goes a step further.
LEMMA Replaced ==
  ASSUME PassInv, UNCHANGED <<About, docs>>, NEW j \in jobs, NEW k,
         jobs' = (jobs \ {j}) \cup {k}, SameTask(k, j),
         k.step = "insert" => k.old = Versions(j.title)
  PROVE  PassInv'
<1>1. /\ \A i \in 1..LastSource : Source(i, seed)' = Source(i, seed)
      /\ \A d : Kept(d)' = Kept(d) /\ There(d)' = There(d)
      /\ UNCHANGED <<records, at, todo, seed, pass>>
  BY AboutSame, KeptSame DEF About
<1>2. pass # "covered"
  BY DEF PassInv
<1>3. ASSUME SoFar
      PROVE  SoFar'
  <2>1. \A d : (\E l \in jobs : For(l, d)) => \E l \in jobs' : For(l, d)
    BY DEF For, SameTask
  <2>2. \A i \in 1..LastSource : \A d \in Source(i, seed)' :
          /\ i < at' => Kept(d)'
          /\ i = at' => d \in todo' \/ Kept(d)' \/ \E l \in jobs' : For(l, d)
    BY <1>1, <1>3, <2>1 DEF SoFar
  <2>3. \A l \in jobs' : /\ l.by = "script"
                         /\ \E i \in 1..LastSource : i = at' /\ \E d \in Source(i, seed)' : For(l, d)
    BY <1>1, <1>3 DEF SoFar, For, SameTask
  <2>4. /\ at' \in 1..LastSource
        /\ \A d \in todo' : \E i \in 1..LastSource : i = at' /\ d \in Source(i, seed)'
    BY <1>1, <1>3 DEF SoFar
  <2> QED BY <2>2, <2>3, <2>4 DEF SoFar
<1>4. ASSUME OneEach
      PROVE  OneEach'
  <2>1. IsFiniteSet(jobs')
    <3>1. IsFiniteSet(jobs \ {j})
      BY <1>4, FS_Subset DEF OneEach
    <3> QED BY <3>1, FS_AddElement
  <2>2. \A l, m \in jobs' : l.title = m.title => l = m
    BY <1>4 DEF OneEach, SameTask
  <2>3. \A l \in jobs' : \A d \in todo' : ~For(l, d)
    BY <1>1, <1>4 DEF OneEach, SameTask, For
  <2>4. \A l \in jobs' : l.step = "insert" => l.old = Versions(l.title)'
    BY <1>4 DEF OneEach, SameTask, Versions
  <2> QED BY <2>1, <2>2, <2>3, <2>4 DEF OneEach
<1> QED BY <1>1, <1>2, <1>3, <1>4 DEF PassInv

\* A job ends: its document is there, and what was kept still is.
LEMMA Left ==
  ASSUME PassInv, UNCHANGED About, NEW j \in jobs, jobs' = jobs \ {j},
         \A i \in 1..LastSource : \A d \in Source(i, seed) :
           /\ SoFar /\ There(d) => There(d)'
           /\ SoFar /\ Kept(d) => Kept(d)'
           /\ For(j, d) => Kept(d)',
         SoFar /\ OneEach =>
           \A k \in jobs : k # j /\ k.step = "insert" => Versions(k.title)' = Versions(k.title)
  PROVE  PassInv'
<1>1. /\ \A i \in 1..LastSource : Source(i, seed)' = Source(i, seed)
      /\ UNCHANGED <<records, at, todo, seed, pass>>
  BY AboutSame DEF About
<1>2. pass # "covered"
  BY DEF PassInv
<1>3. ASSUME SoFar
      PROVE  SoFar'
  <2>1. \A i \in 1..LastSource : \A d \in Source(i, seed)' :
          /\ i < at' => Kept(d)'
          /\ i = at' => d \in todo' \/ Kept(d)' \/ \E l \in jobs' : For(l, d)
    BY <1>1, <1>3 DEF SoFar
  <2>2. /\ \A l \in jobs' : /\ l.by = "script"
                            /\ \E i \in 1..LastSource : i = at' /\ \E d \in Source(i, seed)' : For(l, d)
        /\ at' \in 1..LastSource
        /\ \A d \in todo' : \E i \in 1..LastSource : i = at' /\ d \in Source(i, seed)'
    BY <1>1, <1>3 DEF SoFar
  <2> QED BY <2>1, <2>2 DEF SoFar
<1>4. ASSUME SoFar, OneEach
      PROVE  OneEach'
  <2>1. IsFiniteSet(jobs')
    BY <1>4, FS_Subset DEF OneEach
  <2>2. \A l \in jobs' : l.step = "insert" => l.old = Versions(l.title)'
    BY <1>4 DEF OneEach
  <2>3. \A l, m \in jobs' : l.title = m.title => l = m
    BY <1>4 DEF OneEach
  <2>4. \A l \in jobs' : \A d \in todo' : ~For(l, d)
    BY <1>1, <1>4 DEF OneEach
  <2> QED BY <2>1, <2>2, <2>3, <2>4 DEF OneEach
<1>5. pass = "again" => \A i \in 1..LastSource : \A d \in Source(i, seed)' : There(d)'
  BY <1>1 DEF PassInv
<1> QED BY <1>1, <1>2, <1>3, <1>4, <1>5 DEF PassInv

\* The document of a job is there already, under whatever title.
LEMMA DuplicatePass ==
  ASSUME BaseInv, PassInv, NEW j \in jobs, FindsDuplicate(j)
  PROVE  PassInv'
<1>1. UNCHANGED <<About, docs>> /\ jobs' = jobs \ {j}
  BY DEF FindsDuplicate, Ended, About
<1>2. \A d : Kept(d)' = Kept(d) /\ There(d)' = There(d)
  BY <1>1, KeptSame DEF About
<1>3. PICK x \in docs : x.content = j.content
  BY DEF FindsDuplicate, Stored
<1>5. \A d : For(j, d) => Kept(d)
  BY <1>3 DEF For, Kept, There, ContentKept
<1>6. \A k \in jobs : Versions(k.title)' = Versions(k.title)
  BY <1>1 DEF Versions
<1> QED BY <1>1, <1>2, <1>5, <1>6, Left

\* The versions of one title are replaced: no other source loses its document.
LEMMA InsertionPass ==
  ASSUME BaseInv, PassInv, NEW j \in jobs, Inserts(j)
  PROVE  PassInv'
<1>1. CASE pass' = "none"
  BY <1>1 DEF PassInv
<1>2. CASE pass' # "none"
  <2> DEFINE new == [title |-> j.title, content |-> j.content, chunks |-> j.chunks,
                     embedded |-> j.embedded]
  <2>1. UNCHANGED About /\ docs' = (docs \ j.old) \cup {new} /\ jobs' = jobs \ {j}
    BY <1>2 DEF Inserts, Ended, About, Disturbed
  <2>2. new.title = j.title /\ new.content = j.content
    OBVIOUS
  <2> HIDE DEF new
  <2>3. \A x \in j.old : x.title = j.title
    BY DEF BaseInv, GoodJob
  <2>4. \A d : SharesTitle(d)' = SharesTitle(d)
    BY <2>1, AboutSame
  <2>5. \A d : TitleKept(d) => TitleKept(d)'
    BY <2>1, <2>2, <2>3 DEF TitleKept
  <2>6. \A d : For(j, d) => Kept(d)'
    BY <2>1, <2>2 DEF For, Kept, There, ContentKept
  <2>7. ASSUME SoFar, NEW i \in 1..LastSource, NEW d \in Source(i, seed), ContentKept(d)
        PROVE  ContentKept(d)' \/ (TitleKept(d)' /\ d.title = j.title)
    <3>1. PICK x \in docs : x.content = d.content
      BY <2>7 DEF ContentKept
    <3>2. CASE x \notin j.old
      BY <2>1, <3>1, <3>2 DEF ContentKept
    <3>3. CASE x \in j.old
      <4>1. PICK k \in 1..LastSource : \E e \in Source(k, seed) : For(j, e)
        BY <2>7 DEF SoFar
      <4>2. PICK e \in Source(k, seed) : For(j, e)
        BY <4>1
      <4>3. Titled(x) /\ Exact(d) /\ Exact(e)
        BY SourceTitled DEF BaseInv
      <4>4. x.title = j.title /\ x.title = e.title
        BY <2>3, <3>3, <4>2 DEF For
      <4>5. d.title = j.title
        BY <3>1, <4>3, <4>4, ContentGivesTitle
      <4> QED BY <2>1, <2>2, <4>5 DEF TitleKept
    <3> QED BY <3>2, <3>3
  <2>8. ASSUME SoFar, NEW i \in 1..LastSource, NEW d \in Source(i, seed), There(d)
        PROVE  There(d)'
    BY <2>5, <2>7, <2>8 DEF There
  <2>9. ASSUME SoFar, NEW i \in 1..LastSource, NEW d \in Source(i, seed), Kept(d)
        PROVE  Kept(d)'
    <3>1. There(d)'
      BY <2>8, <2>9 DEF Kept
    <3>2. ASSUME ~SharesTitle(d), d.title = j.title
          PROVE  ContentKept(d)'
      <4>1. PICK k \in 1..LastSource : \E e \in Source(k, seed) : For(j, e)
        BY <2>9 DEF SoFar
      <4>2. PICK e \in Source(k, seed) : For(j, e)
        BY <4>1
      <4>3. d = e \/ (d \in Profiles /\ e \in Profiles)
        <5>1. d.title = e.title
          BY <3>2, <4>2 DEF For
        <5> QED BY <5>1, SourcesApart
      <4>4. d = e
        BY <3>2, <4>2, <4>3 DEF SharesTitle, For
      <4> QED BY <2>1, <2>2, <4>2, <4>4 DEF For, ContentKept
    <3>3. ~SharesTitle(d) => ContentKept(d)'
      BY <2>7, <2>9, <3>2 DEF Kept
    <3> QED BY <2>4, <3>1, <3>3 DEF Kept
  <2>10. ASSUME SoFar, OneEach, NEW k \in jobs, k # j, k.step = "insert"
        PROVE  Versions(k.title)' = Versions(k.title)
    <3>1. k.title # j.title
      BY <2>10 DEF OneEach
    <3> QED BY <2>1, <2>2, <2>3, <3>1 DEF Versions
  <2> QED BY <2>1, <2>6, <2>8, <2>9, <2>10, Left
<1> QED BY <1>1, <1>2

LEMMA PreparationPass ==
  ASSUME BaseInv, PassInv, NEW j \in jobs, Prepares(j)
  PROVE  PassInv'
<1>1. UNCHANGED <<About, docs>>
  BY DEF Prepares, script, About
<1>2. PICK k : /\ jobs' = (jobs \ {j}) \cup {k}
               /\ IsJob(k) /\ SameTask(k, j) /\ k.step = "store" /\ k.old = j.old
  BY Prepared DEF BaseInv, GoodJob
<1> QED BY <1>1, <1>2, Replaced

LEMMA SelectionPass ==
  ASSUME BaseInv, PassInv, NEW j \in jobs, SelectsVersions(j)
  PROVE  PassInv'
<1>1. UNCHANGED <<About, docs>> /\ j.step = "store" /\ pass' = pass
  BY DEF SelectsVersions, script, About
<1>2. CASE pass = "none"
  BY <1>1, <1>2 DEF PassInv
<1>3. CASE pass # "none"
  <2>1. OneEach
    BY <1>3 DEF PassInv
  <2>2. Rivals(j) = {}
    BY <1>1, <2>1 DEF OneEach, Rivals
  <2>3. PICK new : Begins(new, j)
    BY Selected DEF BaseInv, GoodJob
  <2> QED BY <1>1, <2>2, <2>3, Replaced DEF Begins
<1> QED BY <1>2, <1>3

LEMMA StartPass ==
  ASSUME BaseInv, PassInv, PassStarts
  PROVE  PassInv'
<1>1. /\ UNCHANGED <<docs, jobs, records>> /\ at' = 1 /\ todo' = Source(1, seed')
      /\ pass' = IF jobs # {} THEN "none" ELSE IF pass = "covered" THEN "again" ELSE "first"
  BY DEF PassStarts
<1>2. CASE jobs # {}
  BY <1>1, <1>2 DEF PassInv
<1>3. CASE jobs = {}
  <2>1. \A i \in 1..LastSource : Source(i, seed)' = Source(i, seed')
    BY <1>1, SourceStays
  <2>2. 1 \in 1..LastSource
    BY DEF LastSource
  <2>3. todo' = Source(1, seed)'
    BY <1>1, <2>1, <2>2
  <2>4. SoFar'
    BY <1>1, <1>3, <2>2, <2>3 DEF SoFar
  <2>5. OneEach'
    BY <1>1, <1>3, FS_EmptySet DEF OneEach
  <2>6. ASSUME pass' = "again", NEW i \in 1..LastSource, NEW d \in Source(i, seed)'
        PROVE  There(d)'
    <3>1. d \in Source(i, seed')
      BY <2>1
    <3>2. PICK e \in Source(i, seed) :
            e.title = d.title /\ (e.content.kind = "transcript" => e.content = d.content)
      BY <3>1, TitlesAgree
    <3>3. There(e)
      BY <1>1, <1>3, <2>6 DEF PassInv, Kept
    <3>4. CASE TitleKept(e)
      BY <1>1, <3>2, <3>4 DEF There, TitleKept
    <3>5. CASE ContentKept(e)
      <4>1. PICK x \in docs : x.content = e.content
        BY <3>5 DEF ContentKept
      <4>2. Titled(x) /\ Exact(e)
        BY SourceTitled DEF BaseInv
      <4>3. x.title = e.title \/ e.content = d.content
        BY <3>2, <4>1, <4>2 DEF Titled, Exact
      <4> QED BY <1>1, <3>2, <4>1, <4>3 DEF There, TitleKept, ContentKept
    <3> QED BY <3>3, <3>4, <3>5 DEF There
  <2> QED BY <1>1, <1>3, <2>4, <2>5, <2>6 DEF PassInv
<1> QED BY <1>2, <1>3

LEMMA NextSourcePass ==
  ASSUME PassInv, NextSource
  PROVE  PassInv'
<1>1. UNCHANGED <<docs, jobs, records, seed>> /\ at # 0 /\ todo = {} /\ ScriptJobs = {}
  BY DEF NextSource
<1>2. /\ \A i \in 1..LastSource : Source(i, seed)' = Source(i, seed)
      /\ \A d : Kept(d)' = Kept(d) /\ There(d)' = There(d)
  BY <1>1, SourceStays, KeptSame
<1>3. CASE pass = "none"
  BY <1>3 DEF NextSource, PassInv
<1>4. CASE UnderWay
  <2>1. SoFar /\ OneEach
    BY <1>4 DEF PassInv, UnderWay
  <2>2. jobs = {}
    BY <1>1, <2>1 DEF SoFar, ScriptJobs
  <2>3. \A i \in 1..LastSource : \A d \in Source(i, seed) : i < at \/ i = at => Kept(d)
    BY <1>1, <2>1, <2>2 DEF SoFar
  <2>4. at \in 1..LastSource
    BY <2>1 DEF SoFar
  <2>5. CASE at = LastSource
    <3>1. pass' = "covered" /\ at' = 0
      BY <1>4, <2>5 DEF NextSource, UnderWay
    <3>2. \A i \in 1..LastSource : \A d \in Source(i, seed)' : Kept(d)'
      BY <1>2, <2>3, <2>5 DEF LastSource
    <3> QED BY <1>1, <2>2, <3>1, <3>2 DEF PassInv
  <2>6. CASE at # LastSource
    <3>1. pass' = pass /\ at' = at + 1 /\ todo' = Source(at + 1, seed)
      BY <2>6 DEF NextSource
    <3>2. PICK next \in 1..LastSource : next = at + 1
      BY <2>4, <2>6 DEF LastSource
    <3>3. todo' = Source(next, seed)' /\ at' = next
      BY <1>2, <3>1, <3>2
    <3>4. \A i \in 1..LastSource : \A d \in Source(i, seed)' : i < at' => Kept(d)'
      BY <1>2, <2>3, <2>4, <3>1 DEF LastSource
    <3>5. SoFar'
      BY <1>1, <2>2, <3>3, <3>4 DEF SoFar
    <3>6. OneEach'
      BY <1>1, <2>2, FS_EmptySet DEF OneEach
    <3>7. pass' = "again" => \A i \in 1..LastSource : \A d \in Source(i, seed)' : There(d)'
      BY <1>2, <3>1 DEF PassInv
    <3> QED BY <1>4, <3>1, <3>5, <3>6, <3>7 DEF PassInv, UnderWay
  <2> QED BY <2>5, <2>6
<1> QED BY <1>1, <1>3, <1>4 DEF PassInv, UnderWay

\* Documents of the last source may share a title: it is not gathered.
LEMMA TakePass ==
  ASSUME BaseInv, PassInv, NEW d \in todo, Takes(d)
  PROVE  PassInv'
<1> DEFINE new == Job("script", d)
<1>1. /\ UNCHANGED <<docs, records, at, seed, pass>>
      /\ todo' = todo \ {d} /\ jobs' = jobs \cup {new}
      /\ Cardinality(ScriptJobs) < (IF at \in Gathered THEN Batch ELSE 1)
  BY DEF Takes
<1>2. new.title = d.title /\ new.content = d.content /\ new.by = "script" /\ new.step = "check"
  BY DEF Job
<1> HIDE DEF new
<1>3. CASE pass = "none"
  BY <1>1, <1>3 DEF PassInv
<1>4. CASE pass = "covered"
  BY <1>4 DEF PassInv, BaseInv
<1>5. CASE UnderWay
  <2>1. SoFar /\ OneEach
    BY <1>5 DEF PassInv, UnderWay
  <2>2. /\ \A i \in 1..LastSource : Source(i, seed)' = Source(i, seed)
        /\ \A e : Kept(e)' = Kept(e) /\ There(e)' = There(e)
    BY <1>1, SourceStays, KeptSame
  <2>3. PICK here \in 1..LastSource : here = at /\ d \in Source(here, seed)
    BY <2>1 DEF SoFar
  <2>4. todo \subseteq Source(here, seed)
    BY <2>1, <2>3 DEF SoFar
  <2>5. SoFar'
    <3>1. \A e : e = d => For(new, e)
      BY <1>2 DEF For
    <3>2. \A i \in 1..LastSource : \A e \in Source(i, seed)' :
            /\ i < at' => Kept(e)'
            /\ i = at' => e \in todo' \/ Kept(e)' \/ \E j \in jobs' : For(j, e)
      BY <1>1, <2>1, <2>2, <3>1 DEF SoFar
    <3>3. \A j \in jobs' : /\ j.by = "script"
                           /\ \E i \in 1..LastSource : i = at' /\ \E e \in Source(i, seed)' : For(j, e)
      BY <1>1, <1>2, <2>1, <2>2, <2>3, <3>1 DEF SoFar
    <3>4. /\ at' \in 1..LastSource
          /\ \A e \in todo' : \E i \in 1..LastSource : i = at' /\ e \in Source(i, seed)'
      BY <1>1, <2>1, <2>2 DEF SoFar
    <3> QED BY <3>2, <3>3, <3>4 DEF SoFar
  <2>6. ASSUME NEW j \in jobs
        PROVE  j.title # d.title
    <3>1. ScriptJobs = jobs
      BY <2>1 DEF SoFar, ScriptJobs
    <3>2. here \in Gathered
      <4>1. Cardinality(jobs) # 0
        BY <2>1, <2>6, FS_EmptySet DEF OneEach
      <4>2. Cardinality(jobs) \in Nat
        BY <2>1, FS_CardinalityType DEF OneEach
      <4> QED BY <1>1, <2>3, <3>1, <4>1, <4>2
    <3>3. PICK e \in Source(here, seed) : For(j, e)
      BY <2>1, <2>3 DEF SoFar
    <3>4. SUFFICES ASSUME j.title = d.title PROVE FALSE
      OBVIOUS
    <3>5. d.title = e.title
      BY <3>3, <3>4 DEF For
    <3>6. d = e \/ (d \in Source(8, seed) /\ e \in Source(8, seed))
      <4>1. Source(8, seed) = Profiles
        BY DEF Source
      <4> QED BY <2>3, <3>3, <3>5, <4>1, SourcesApart
    <3>7. d.title.kind = KindOf(here)
      BY <2>3, SourceTitled
    <3>8. d \notin Source(8, seed)
      <4>1. d \in Source(8, seed) => d.title.kind = KindOf(8)
        BY SourceTitled DEF LastSource
      <4> QED BY <3>2, <3>7, <4>1 DEF Gathered, KindOf
    <3>9. For(j, d)
      BY <3>3, <3>6, <3>8
    <3> QED BY <2>1, <3>9 DEF OneEach
  <2>7. OneEach'
    <3>1. IsFiniteSet(jobs')
      BY <1>1, <2>1, FS_AddElement DEF OneEach
    <3>2. \A j, k \in jobs' : j.title = k.title => j = k
      BY <1>1, <1>2, <2>1, <2>6 DEF OneEach
    <3>3. ASSUME NEW j \in jobs', NEW e \in todo', For(j, e)
          PROVE  FALSE
      <4>1. j = new
        BY <1>1, <2>1, <3>3 DEF OneEach
      <4>2. For(d, e)
        BY <1>2, <3>3, <4>1 DEF For
      <4>3. e \in Source(here, seed) /\ e # d
        BY <1>1, <2>4
      <4> QED BY <2>3, <4>2, <4>3, SourceIsDoc
    <3>4. \A j \in jobs' : j.step = "insert" => j.old = Versions(j.title)'
      BY <1>1, <1>2, <2>1 DEF OneEach, Versions
    <3> QED BY <3>1, <3>2, <3>3, <3>4 DEF OneEach
  <2>8. pass' = "again" => \A i \in 1..LastSource : \A e \in Source(i, seed)' : There(e)'
    BY <1>1, <2>2 DEF PassInv
  <2> QED BY <1>1, <1>5, <2>5, <2>7, <2>8 DEF PassInv, UnderWay
<1> QED BY <1>3, <1>4, <1>5 DEF PassInv, UnderWay

\* Nothing that the pass is about changes.
LEMMA NothingPass ==
  ASSUME PassInv, UNCHANGED <<About, docs, jobs>>
  PROVE  PassInv'
<1>1. /\ \A i \in 1..LastSource : Source(i, seed)' = Source(i, seed)
      /\ \A d : Kept(d)' = Kept(d) /\ There(d)' = There(d)
      /\ UNCHANGED <<records, at, todo, seed, pass, jobs, docs>>
  BY AboutSame, KeptSame DEF About
<1>2. SoFar => SoFar'
  BY <1>1 DEF SoFar
<1>3. OneEach => OneEach'
  BY <1>1 DEF OneEach, Versions
<1> QED BY <1>1, <1>2, <1>3 DEF PassInv

LEMMA PassStep ==
  ASSUME BaseInv, PassInv, [Next]_vars
  PROVE  PassInv'
<1>1. CASE pass' = "none"
  BY <1>1 DEF PassInv
<1>2. CASE UNCHANGED vars
  BY <1>2, NothingPass DEF vars, script, About
<1>3. CASE IngestStep
  <2> PICK j \in jobs : \/ FindsDuplicate(j) \/ Prepares(j) \/ SelectsVersions(j)
                        \/ Inserts(j) \/ DatabaseFails(j)
    BY <1>3 DEF IngestStep
  <2>1. CASE DatabaseFails(j)
    BY <1>1, <2>1 DEF DatabaseFails, Disturbed
  <2> QED BY <2>1, DuplicatePass, PreparationPass, SelectionPass, InsertionPass
<1>4. CASE AppStep
  <2>1. CASE EmbeddingsExpire
    BY <2>1, NothingPass DEF EmbeddingsExpire, script, About
  <2>2. CASE ~EmbeddingsExpire
    BY <1>1, <1>4, <2>2 DEF AppStep, SyncPrompts, AggregateIntakePatterns, AdminIngests,
       IngestTranscript, IngestCallerProfile, AppIngests, AdminDeletes, NewRecord, Disturbed
  <2> QED BY <2>1, <2>2
<1>5. CASE ScriptStep
  <2>1. CASE ScriptKilled
    BY <1>1, <2>1 DEF ScriptKilled, Disturbed
  <2> QED BY <1>5, <2>1, StartPass, NextSourcePass, TakePass DEF ScriptStep
<1> QED BY <1>2, <1>3, <1>4, <1>5 DEF Next

LEMMA PassInvHolds == Spec => [](BaseInv /\ PassInv)
<1>1. Init => BaseInv /\ PassInv
  <2> SUFFICES ASSUME Init PROVE BaseInv /\ PassInv
    OBVIOUS
  <2>1. BaseInv
    BY FS_EmptySet DEF Init, BaseInv, LastSource
  <2> QED BY <2>1 DEF Init, PassInv
<1>2. BaseInv /\ PassInv /\ [Next]_vars => (BaseInv /\ PassInv)'
  BY BaseStep, PassStep
<1> QED BY <1>1, <1>2, PTL DEF Spec

\* The docstring of the script: a pass that nothing disturbs ("covered" and not
\* "none") leaves a current document about everything.
THEOREM PassCovers == Spec => []PassCoversEverySource
<1>1. PassInv => PassCoversEverySource
  BY DEF PassInv, PassCoversEverySource, Kept, ContentKept
<1> QED BY <1>1, PassInvHolds, PTL

\* A transaction of a second pass has a version to replace.
LEMMA SecondPassReplaces ==
  ASSUME BaseInv, PassInv, pass = "again", pass' # "none", NEW j \in jobs, Inserts(j)
  PROVE  Cardinality(docs') <= Cardinality(docs)
<1> DEFINE new == [title |-> j.title, content |-> j.content, chunks |-> j.chunks,
                   embedded |-> j.embedded]
<1>1. /\ j.step = "insert" /\ docs' = (docs \ j.old) \cup {new}
      /\ ~\E x \in docs \ j.old : x.content = j.content
  BY DEF Inserts, Disturbed
<1> HIDE DEF new
<1>2. SoFar /\ OneEach
  BY DEF PassInv
<1>3. PICK i \in 1..LastSource : \E d \in Source(i, seed) : For(j, d)
  BY <1>2 DEF SoFar
<1>4. PICK x \in docs : x.title = j.title \/ x.content = j.content
  BY <1>3 DEF PassInv, There, TitleKept, ContentKept, For
<1>5. x \in j.old
  BY <1>1, <1>2, <1>4 DEF OneEach, Versions
<1>6. IsFiniteSet(docs)
  BY DEF BaseInv
<1>7. /\ Cardinality(docs) \in Nat /\ IsFiniteSet(docs \ {x})
      /\ Cardinality(docs \ {x}) = Cardinality(docs) - 1
  BY <1>4, <1>6, FS_CardinalityType, FS_RemoveElement
<1>8. /\ IsFiniteSet((docs \ {x}) \cup {new})
      /\ Cardinality((docs \ {x}) \cup {new}) <= Cardinality(docs)
  <2>1. /\ IsFiniteSet((docs \ {x}) \cup {new})
        /\ \/ Cardinality((docs \ {x}) \cup {new}) = Cardinality(docs \ {x})
           \/ Cardinality((docs \ {x}) \cup {new}) = Cardinality(docs \ {x}) + 1
    BY <1>7, FS_AddElement
  <2> QED BY <1>7, <2>1
<1>9. docs' \subseteq (docs \ {x}) \cup {new}
  BY <1>1, <1>5
<1>10. /\ Cardinality(docs') <= Cardinality((docs \ {x}) \cup {new})
       /\ Cardinality(docs') \in Nat /\ Cardinality((docs \ {x}) \cup {new}) \in Nat
  BY <1>8, <1>9, FS_Subset, FS_CardinalityType
<1> QED BY <1>7, <1>8, <1>10

\* "Re-running is safe" (the docstring of the script), in whatever order a new
\* process lists a set.
THEOREM RerunIsSafe == Spec => RerunAddsNothing
<1>1. ASSUME BaseInv, PassInv, [Next]_vars, pass = "again", pass' # "none"
      PROVE  Cardinality(docs') <= Cardinality(docs)
  <2>1. CASE UNCHANGED docs
    <3>1. Cardinality(docs) \in Nat
      BY <1>1, FS_CardinalityType DEF BaseInv
    <3> QED BY <2>1, <3>1
  <2>2. CASE ~UNCHANGED docs
    <3>1. PICK j \in jobs : Inserts(j)
      BY <1>1, <2>2 DEF Next, IngestStep, AppStep, ScriptStep, FindsDuplicate, Prepares, SelectsVersions,
         DatabaseFails, SyncPrompts, AggregateIntakePatterns, AdminIngests, EmbeddingsExpire,
         IngestTranscript, IngestCallerProfile, AppIngests, AdminDeletes, NewRecord, PassStarts,
         NextSource, ScriptKilled, Takes, vars, Disturbed
    <3> QED BY <1>1, <3>1, SecondPassReplaces
  <2> QED BY <2>1, <2>2
<1> QED BY <1>1, PassInvHolds, PTL DEF Spec, RerunAddsNothing

-----------------------------------------------------------------------------
(***************************************************************************)
(* 3. A document and its chunks.                                           *)
(***************************************************************************)
\* cut of Cut, listed of Chunks.
CutOf(sizes, from, to, limit) ==
  CHOOSE cut : cut = [n \in 0..(to + 1 - from) |->
    IF n = 0 THEN [done |-> <<>>, from |-> from, tokens |-> 0]
    ELSE CutStep(cut[n - 1], from + n - 1, sizes, limit)]
ListedOf(content, parents, prefixed) ==
  CHOOSE listed : listed = [n \in 0..Len(parents) |->
    IF n = 0 THEN <<>> ELSE listed[n - 1] \o Family(content, parents[n], n \in prefixed)]

LEMMA CutIsCutOf ==
  ASSUME NEW sizes, NEW from, NEW to, NEW limit
  PROVE  Cut(sizes, from, to, limit) =
           LET last == CutOf(sizes, from, to, limit)[to + 1 - from]
           IN  IF last.from > to THEN last.done ELSE Append(last.done, <<last.from, to>>)
BY DEF Cut, CutOf

LEMMA ChunksAreListed ==
  ASSUME NEW content, NEW prefixed
  PROVE  Chunks(content, prefixed)
           = ListedOf(content, Parents(content), prefixed)[Len(Parents(content))]
BY DEF Chunks, ListedOf

TokensTo(f, m, sizes) ==
  f = [n \in 0..m |-> IF n = 0 THEN 0 ELSE f[n - 1] + sizes[n]]

LEMMA TokensExist ==
  ASSUME NEW sizes, Len(sizes) \in Nat
  PROVE  TokensTo(TokensUpTo(sizes), Len(sizes), sizes)
<1> DEFINE Bad == {m \in Nat : ~\E f : TokensTo(f, m, sizes)}
<1>1. Bad = {}
  <2> SUFFICES ASSUME Bad # {} PROVE FALSE
    OBVIOUS
  <2>1. PICK m \in Bad : \A n \in Bad : ~(<<n, m>> \in OpToRel(<, Nat))
    BY NatLessThanWellFounded, WFMin
  <2>2. \A n \in Bad : ~(n < m)
    BY <2>1 DEF OpToRel
  <2>3. m # 0
    <3>1. \A f : f = [n \in 0..0 |-> 0] => TokensTo(f, 0, sizes)
      BY DEF TokensTo
    <3> QED BY <3>1
  <2>4. PICK f : TokensTo(f, m - 1, sizes)
    BY <2>2, <2>3
  <2> DEFINE g == [n \in 0..m |-> IF n = m THEN f[m - 1] + sizes[m] ELSE f[n]]
  <2>5. m \in Nat /\ m - 1 \in Nat
    BY <2>3
  <2>6. ASSUME NEW n \in 0..m
        PROVE  g[n] = IF n = 0 THEN 0 ELSE g[n - 1] + sizes[n]
    <3>1. CASE n = m
      <4>1. g[n - 1] = f[m - 1] /\ n # 0
        BY <2>3, <2>5, <3>1
      <4> QED BY <3>1, <4>1
    <3>2. CASE n # m /\ n # 0
      <4>1. g[n] = f[n] /\ g[n - 1] = f[n - 1] /\ n \in 0..m - 1
        BY <2>5, <3>2
      <4>2. f[n] = f[n - 1] + sizes[n]
        BY <2>4, <3>2, <4>1 DEF TokensTo
      <4> HIDE DEF g
      <4> QED BY <3>2, <4>1, <4>2, Zenon
    <3>3. CASE n # m /\ n = 0
      <4>1. g[n] = f[n] /\ n \in 0..m - 1
        BY <2>5, <3>3
      <4>2. f[n] = 0
        BY <2>4, <3>3, <4>1 DEF TokensTo
      <4> HIDE DEF g
      <4> QED BY <3>3, <4>1, <4>2, Zenon
    <3> QED BY <3>1, <3>2, <3>3
  <2>7. g = [n \in 0..m |-> g[n]]
    BY Zenon
  <2> HIDE DEF g
  <2>8. TokensTo(g, m, sizes)
    BY <2>6, <2>7 DEF TokensTo
  <2> QED BY <2>8
<1>2. \E f : TokensTo(f, Len(sizes), sizes)
  BY <1>1
<1> QED BY <1>2 DEF TokensTo, TokensUpTo

CutTo(f, m, sizes, from, to, limit) ==
  f = [n \in 0..m |-> IF n = 0 THEN [done |-> <<>>, from |-> from, tokens |-> 0]
                       ELSE CutStep(f[n - 1], from + n - 1, sizes, limit)]

LEMMA CutExists ==
  ASSUME NEW sizes, NEW from \in Nat, NEW to \in Nat, NEW limit, from <= to + 1
  PROVE  CutTo(CutOf(sizes, from, to, limit), to + 1 - from, sizes, from, to, limit)
<1> DEFINE Bad == {m \in Nat : ~\E f : CutTo(f, m, sizes, from, to, limit)}
<1>1. Bad = {}
  <2> SUFFICES ASSUME Bad # {} PROVE FALSE
    OBVIOUS
  <2>1. PICK m \in Bad : \A n \in Bad : ~(<<n, m>> \in OpToRel(<, Nat))
    BY NatLessThanWellFounded, WFMin
  <2>2. \A n \in Bad : ~(n < m)
    BY <2>1 DEF OpToRel
  <2>3. m # 0
    <3>1. \A f : f = [n \in 0..0 |-> [done |-> <<>>, from |-> from, tokens |-> 0]] => CutTo(f, 0, sizes, from, to, limit)
      BY DEF CutTo
    <3> QED BY <3>1
  <2>4. PICK f : CutTo(f, m - 1, sizes, from, to, limit)
    BY <2>2, <2>3
  <2> DEFINE g == [n \in 0..m |-> IF n = m THEN CutStep(f[m - 1], from + m - 1, sizes, limit) ELSE f[n]]
  <2>5. m \in Nat /\ m - 1 \in Nat
    BY <2>3
  <2>6. ASSUME NEW n \in 0..m
        PROVE  g[n] = IF n = 0 THEN [done |-> <<>>, from |-> from, tokens |-> 0] ELSE CutStep(g[n - 1], from + n - 1, sizes, limit)
    <3>1. CASE n = m
      <4>1. g[n - 1] = f[m - 1] /\ n # 0
        BY <2>3, <2>5, <3>1
      <4> QED BY <3>1, <4>1
    <3>2. CASE n # m /\ n # 0
      <4>1. g[n] = f[n] /\ g[n - 1] = f[n - 1] /\ n \in 0..m - 1
        BY <2>5, <3>2
      <4>2. f[n] = CutStep(f[n - 1], from + n - 1, sizes, limit)
        BY <2>4, <3>2, <4>1 DEF CutTo
      <4> HIDE DEF g
      <4> QED BY <3>2, <4>1, <4>2, Zenon
    <3>3. CASE n # m /\ n = 0
      <4>1. g[n] = f[n] /\ n \in 0..m - 1
        BY <2>5, <3>3
      <4>2. f[n] = [done |-> <<>>, from |-> from, tokens |-> 0]
        BY <2>4, <3>3, <4>1 DEF CutTo
      <4> HIDE DEF g
      <4> QED BY <3>3, <4>1, <4>2, Zenon
    <3> QED BY <3>1, <3>2, <3>3
  <2>7. g = [n \in 0..m |-> g[n]]
    BY Zenon
  <2> HIDE DEF g
  <2>8. CutTo(g, m, sizes, from, to, limit)
    BY <2>6, <2>7 DEF CutTo
  <2> QED BY <2>8
<1>2. \E f : CutTo(f, to + 1 - from, sizes, from, to, limit)
  BY <1>1
<1> QED BY <1>2 DEF CutTo, CutOf

ListedTo(f, m, content, parents, prefixed) ==
  f = [n \in 0..m |-> IF n = 0 THEN <<>>
                       ELSE f[n - 1] \o Family(content, parents[n], n \in prefixed)]

LEMMA ListedExists ==
  ASSUME NEW content, NEW parents, Len(parents) \in Nat, NEW prefixed
  PROVE  ListedTo(ListedOf(content, parents, prefixed), Len(parents), content, parents, prefixed)
<1> DEFINE Bad == {m \in Nat : ~\E f : ListedTo(f, m, content, parents, prefixed)}
<1>1. Bad = {}
  <2> SUFFICES ASSUME Bad # {} PROVE FALSE
    OBVIOUS
  <2>1. PICK m \in Bad : \A n \in Bad : ~(<<n, m>> \in OpToRel(<, Nat))
    BY NatLessThanWellFounded, WFMin
  <2>2. \A n \in Bad : ~(n < m)
    BY <2>1 DEF OpToRel
  <2>3. m # 0
    <3>1. \A f : f = [n \in 0..0 |-> <<>>] => ListedTo(f, 0, content, parents, prefixed)
      BY DEF ListedTo
    <3> QED BY <3>1
  <2>4. PICK f : ListedTo(f, m - 1, content, parents, prefixed)
    BY <2>2, <2>3
  <2> DEFINE g == [n \in 0..m |-> IF n = m THEN f[m - 1] \o Family(content, parents[m], m \in prefixed) ELSE f[n]]
  <2>5. m \in Nat /\ m - 1 \in Nat
    BY <2>3
  <2>6. ASSUME NEW n \in 0..m
        PROVE  g[n] = IF n = 0 THEN <<>> ELSE g[n - 1] \o Family(content, parents[n], n \in prefixed)
    <3>1. CASE n = m
      <4>1. g[n - 1] = f[m - 1] /\ n # 0
        BY <2>3, <2>5, <3>1
      <4> QED BY <3>1, <4>1
    <3>2. CASE n # m /\ n # 0
      <4>1. g[n] = f[n] /\ g[n - 1] = f[n - 1] /\ n \in 0..m - 1
        BY <2>5, <3>2
      <4>2. f[n] = f[n - 1] \o Family(content, parents[n], n \in prefixed)
        BY <2>4, <3>2, <4>1 DEF ListedTo
      <4> HIDE DEF g
      <4> QED BY <3>2, <4>1, <4>2, Zenon
    <3>3. CASE n # m /\ n = 0
      <4>1. g[n] = f[n] /\ n \in 0..m - 1
        BY <2>5, <3>3
      <4>2. f[n] = <<>>
        BY <2>4, <3>3, <4>1 DEF ListedTo
      <4> HIDE DEF g
      <4> QED BY <3>3, <4>1, <4>2, Zenon
    <3> QED BY <3>1, <3>2, <3>3
  <2>7. g = [n \in 0..m |-> g[n]]
    BY Zenon
  <2> HIDE DEF g
  <2>8. ListedTo(g, m, content, parents, prefixed)
    BY <2>6, <2>7 DEF ListedTo
  <2> QED BY <2>8
<1>2. \E f : ListedTo(f, Len(parents), content, parents, prefixed)
  BY <1>1
<1> QED BY <1>2 DEF ListedTo, ListedOf

-----------------------------------------------------------------------------
Spans == Nat \X Nat

\* Spans in order that fill from..(next - 1), each fitting the limit or single.
Fitting(done, sizes, from, next, limit) ==
  \A i \in 1..Len(done) :
    /\ from <= done[i][1] /\ done[i][1] <= done[i][2] /\ done[i][2] < next
    /\ \/ done[i][1] = done[i][2]
       \/ TokensUpTo(sizes)[done[i][2]] - TokensUpTo(sizes)[done[i][1] - 1] <= limit
Ordered(done) == \A i, k \in 1..Len(done) : i < k => done[i][2] < done[k][1]
Covered(done, from, to) == \A x \in from..to : \E i \in 1..Len(done) : x \in done[i][1]..done[i][2]

Fills(done, sizes, from, next, limit) ==
  done \in Seq(Spans) /\ Fitting(done, sizes, from, next, limit) /\ Ordered(done)
  /\ Covered(done, from, next - 1)

\* The state of the cut when the next sentence is k.
Cutting(c, sizes, from, k, limit) ==
  /\ c = [done |-> c.done, from |-> c.from, tokens |-> c.tokens]
  /\ c.from \in Nat /\ from <= c.from /\ c.from <= k
  /\ c.tokens = TokensUpTo(sizes)[k - 1] - TokensUpTo(sizes)[c.from - 1]
  /\ c.tokens <= limit \/ c.from >= k - 1
  /\ Fills(c.done, sizes, from, c.from, limit)

LEMMA TokensAre ==
  ASSUME NEW sizes \in Seq(Nat)
  PROVE  /\ TokensUpTo(sizes)[0] = 0
         /\ \A n \in 1..Len(sizes) : TokensUpTo(sizes)[n] = TokensUpTo(sizes)[n - 1] + sizes[n]
         /\ \A n \in 0..Len(sizes) : TokensUpTo(sizes)[n] \in Nat
<1> DEFINE upTo == TokensUpTo(sizes)
           Bad == {n \in 0..Len(sizes) : upTo[n] \notin Nat}
<1>1. Len(sizes) \in Nat /\ \A n \in 1..Len(sizes) : sizes[n] \in Nat
  BY LenProperties, ElementOfSeq
<1>2. \A n \in 0..Len(sizes) : upTo[n] = IF n = 0 THEN 0 ELSE upTo[n - 1] + sizes[n]
  BY <1>1, TokensExist DEF TokensTo
<1> HIDE DEF upTo
<1>3. Bad = {}
  <2> SUFFICES ASSUME Bad # {} PROVE FALSE
    OBVIOUS
  <2>1. PICK m \in Bad : \A n \in Bad : ~(<<n, m>> \in OpToRel(<, Nat))
    <3>1. Bad \subseteq Nat
      BY <1>1
    <3> QED BY <3>1, NatLessThanWellFounded, WFMin
  <2>2. \A n \in Bad : ~(n < m)
    <3>1. m \in Nat /\ \A n \in Bad : n \in Nat
      BY <1>1
    <3> HIDE DEF Bad
    <3> QED BY <2>1, <3>1 DEF OpToRel
  <2>3. m # 0
    BY <1>1, <1>2
  <2>4. m \in 1..Len(sizes) /\ m - 1 \in 0..Len(sizes) /\ m - 1 < m
    BY <1>1, <2>3
  <2>5. upTo[m - 1] \in Nat
    BY <2>2, <2>4
  <2>6. upTo[m] = upTo[m - 1] + sizes[m]
    BY <1>2, <2>3, <2>4
  <2> QED BY <1>1, <2>4, <2>5, <2>6
<1>4. \A n \in 1..Len(sizes) : upTo[n] = upTo[n - 1] + sizes[n]
  BY <1>1, <1>2
<1> QED BY <1>1, <1>2, <1>3, <1>4 DEF upTo

\* One span more.
LEMMA FillsMore ==
  ASSUME NEW sizes, NEW from \in Nat, NEW limit, NEW done, NEW a \in Nat, NEW b \in Nat,
         Fills(done, sizes, from, a, limit), from <= a, a <= b,
         a = b \/ TokensUpTo(sizes)[b] - TokensUpTo(sizes)[a - 1] <= limit
  PROVE  Fills(Append(done, <<a, b>>), sizes, from, b + 1, limit)
<1> DEFINE more == Append(done, <<a, b>>)
           n    == Len(done)
<1>1. done \in Seq(Spans) /\ n \in Nat /\ <<a, b>> \in Spans
  BY LenProperties DEF Fills, Fitting, Ordered, Covered, Spans
<1>2. /\ more \in Seq(Spans) /\ Len(more) = n + 1
      /\ \A i \in 1..n : more[i] = done[i]
      /\ more[n + 1] = <<a, b>>
  BY <1>1, AppendProperties
<1>3. \A i \in 1..n : done[i] \in Spans
  BY <1>1, ElementOfSeq
<1>4. \A i \in 1..n : done[i][1] \in Nat /\ done[i][2] \in Nat
  BY <1>3 DEF Spans
<1> HIDE DEF more, n
<1>5. \A i \in 1..(n + 1) : i \in 1..n \/ i = n + 1
  BY <1>1
<1>6. \A i \in 1..n : /\ from <= done[i][1] /\ done[i][1] <= done[i][2] /\ done[i][2] < a
                      /\ done[i][1] = done[i][2] \/ TokensUpTo(sizes)[done[i][2]] - TokensUpTo(sizes)[done[i][1] - 1] <= limit
  BY DEF Fills, Fitting, Ordered, Covered, n
<1>7. ASSUME NEW i \in 1..(n + 1)
      PROVE  /\ from <= more[i][1] /\ more[i][1] <= more[i][2] /\ more[i][2] < b + 1
             /\ more[i][1] = more[i][2] \/ TokensUpTo(sizes)[more[i][2]] - TokensUpTo(sizes)[more[i][1] - 1] <= limit
  <2>1. CASE i \in 1..n
    <3>1. more[i] = done[i]
      BY <1>2, <2>1
    <3>2. done[i][2] < b + 1
      BY <1>4, <1>6, <2>1
    <3> QED BY <1>6, <2>1, <3>1, <3>2
  <2>2. CASE i = n + 1
    <3>1. more[i][1] = a /\ more[i][2] = b
      BY <1>2, <2>2
    <3> QED BY <3>1
  <2> QED BY <1>5, <2>1, <2>2
<1>8. ASSUME NEW i \in 1..(n + 1), NEW k \in 1..(n + 1), i < k
      PROVE  more[i][2] < more[k][1]
  <2>1. i \in 1..n /\ more[i] = done[i]
    BY <1>1, <1>2, <1>8
  <2>2. CASE k \in 1..n
    BY <1>2, <1>8, <2>1, <2>2 DEF Fills, Fitting, Ordered, Covered, n
  <2>3. CASE k = n + 1
    <3>1. more[k][1] = a
      BY <1>2, <2>3
    <3> QED BY <1>6, <2>1, <3>1
  <2> QED BY <1>5, <2>2, <2>3
<1>9. ASSUME NEW x \in from..b
      PROVE  \E i \in 1..(n + 1) : x \in more[i][1]..more[i][2]
  <2>1. CASE x \in from..(a - 1)
    <3>1. PICK i \in 1..n : x \in done[i][1]..done[i][2]
      BY <2>1 DEF Fills, Fitting, Ordered, Covered, n
    <3>2. i \in 1..(n + 1) /\ more[i] = done[i]
      BY <1>1, <1>2
    <3> QED BY <3>1, <3>2
  <2>2. CASE x \in a..b
    <3>1. n + 1 \in 1..(n + 1) /\ more[n + 1][1] = a /\ more[n + 1][2] = b
      BY <1>1, <1>2
    <3> QED BY <2>2, <3>1
  <2> QED BY <2>1, <2>2
<1>10. \A x \in from..(b + 1 - 1) : \E i \in 1..(n + 1) : x \in more[i][1]..more[i][2]
  <2>1. b + 1 - 1 = b
    OBVIOUS
  <2> QED BY <1>9, <2>1, Zenon
<1>11. Fitting(more, sizes, from, b + 1, limit)
  BY <1>2, <1>7, Zenon DEF Fitting
<1>12. Ordered(more)
  BY <1>2, <1>8, Zenon DEF Ordered
<1>13. Covered(more, from, b + 1 - 1)
  BY <1>2, <1>10, Zenon DEF Covered
<1>14. Fills(more, sizes, from, b + 1, limit)
  <2>1. more \in Seq(Spans)
    BY <1>2
  <2> HIDE <1>2, <1>7, <1>8, <1>10
  <2> QED BY <2>1, <1>11, <1>12, <1>13 DEF Fills
<1> QED BY <1>14 DEF more

LEMMA CutStepKeeps ==
  ASSUME NEW sizes \in Seq(Nat), NEW from \in Nat, 1 <= from, NEW limit \in Nat,
         NEW k \in 1..Len(sizes), NEW c, Cutting(c, sizes, from, k, limit)
  PROVE  Cutting(CutStep(c, k, sizes, limit), sizes, from, k + 1, limit)
<1> DEFINE upTo == TokensUpTo(sizes)
           new  == CutStep(c, k, sizes, limit)
<1>1. /\ Len(sizes) \in Nat /\ sizes[k] \in Nat
      /\ upTo[k] = upTo[k - 1] + sizes[k] /\ upTo[k] \in Nat /\ upTo[k - 1] \in Nat
  <2>1. k - 1 \in 0..Len(sizes) /\ k \in 0..Len(sizes) /\ Len(sizes) \in Nat
    BY LenProperties
  <2> QED BY <2>1, TokensAre, ElementOfSeq
<1>2. /\ c.from \in Nat /\ from <= c.from /\ c.from <= k
      /\ c.tokens = upTo[k - 1] - upTo[c.from - 1]
      /\ c.tokens <= limit \/ c.from >= k - 1
      /\ Fills(c.done, sizes, from, c.from, limit)
  BY DEF Cutting
<1>3. upTo[c.from - 1] \in Nat
  <2> DEFINE f == c.from
  <2>1. f \in Nat /\ f <= k /\ 1 <= f /\ k <= Len(sizes)
    BY <1>2
  <2> HIDE DEF f
  <2>2. f - 1 \in 0..Len(sizes)
    BY <1>1, <2>1
  <2>3. c.from - 1 \in 0..Len(sizes)
    BY <2>2 DEF f
  <2> QED BY <2>3, TokensAre
<1>4. CASE c.tokens + sizes[k] > limit /\ k > c.from
  <2>1. new = [done |-> Append(c.done, <<c.from, k - 1>>), from |-> k, tokens |-> sizes[k]]
    BY <1>4 DEF CutStep
  <2>2. k - 1 \in Nat /\ c.from <= k - 1
    BY <1>2, <1>4
  <2>3. c.from = k - 1 \/ upTo[k - 1] - upTo[c.from - 1] <= limit
    <3>1. CASE c.tokens <= limit
      BY <1>2, <3>1
    <3>2. CASE c.from >= k - 1
      <4> DEFINE f == c.from
      <4>1. f \in Nat /\ f <= k - 1 /\ f >= k - 1 /\ k - 1 \in Nat
        BY <1>2, <2>2, <3>2
      <4> HIDE DEF f
      <4>2. f = k - 1
        BY <4>1
      <4> QED BY <4>2 DEF f
    <3> QED BY <1>2, <3>1, <3>2
  <2>4. Fills(Append(c.done, <<c.from, k - 1>>), sizes, from, k - 1 + 1, limit)
    BY <1>2, <2>2, <2>3, FillsMore
  <2>5. new.done = Append(c.done, <<c.from, k - 1>>) /\ new.from = k /\ new.tokens = sizes[k]
        /\ new = [done |-> new.done, from |-> new.from, tokens |-> new.tokens]
    BY <2>1
  <2> HIDE DEF new
  <2>6. k - 1 + 1 = k /\ k + 1 - 1 = k /\ k \in Nat /\ from <= k /\ k <= k + 1 /\ k >= k + 1 - 1
    BY <1>1, <1>2
  <2>7. new.tokens = upTo[k + 1 - 1] - upTo[new.from - 1]
    BY <1>1, <2>5, <2>6
  <2> HIDE DEF upTo
  <2>8. Cutting(new, sizes, from, k + 1, limit)
    BY <2>4, <2>5, <2>6, <2>7 DEF Cutting, upTo
  <2> QED BY <2>8 DEF new
<1>5. CASE ~(c.tokens + sizes[k] > limit /\ k > c.from)
  <2>1. new = [done |-> c.done, from |-> c.from, tokens |-> c.tokens + sizes[k]]
    BY <1>5 DEF CutStep
  <2>2. /\ new.done = c.done /\ new.from = c.from /\ new.tokens = c.tokens + sizes[k]
        /\ new = [done |-> new.done, from |-> new.from, tokens |-> new.tokens]
    BY <2>1
  <2> HIDE DEF new
  <2>3. k + 1 - 1 = k /\ c.from <= k + 1
    BY <1>1, <1>2
  <2>4. new.tokens = upTo[k + 1 - 1] - upTo[new.from - 1]
    <3> DEFINE a == upTo[k] b == upTo[k - 1] e == upTo[c.from - 1] z == sizes[k] t == c.tokens
    <3>1. a \in Nat /\ b \in Nat /\ e \in Nat /\ z \in Nat /\ a = b + z /\ t = b - e
      BY <1>1, <1>2, <1>3
    <3>2. new.tokens = t + z /\ upTo[k + 1 - 1] = a /\ upTo[new.from - 1] = e
      BY <2>2, <2>3
    <3> HIDE DEF a, b, e, z, t
    <3>3. t + z = a - e
      BY <3>1
    <3> QED BY <3>2, <3>3
  <2>5. new.tokens <= limit \/ new.from >= k + 1 - 1
    <3> DEFINE z == sizes[k] t == c.tokens f == c.from
    <3>1. t \in Int /\ z \in Nat /\ f \in Nat /\ f <= k /\ ~(t + z > limit /\ k > f)
      <4> DEFINE b == upTo[k - 1] e == upTo[c.from - 1]
      <4>1. t = b - e /\ b \in Nat /\ e \in Nat
        BY <1>1, <1>2, <1>3
      <4> HIDE DEF b, e
      <4>2. t \in Int
        BY <4>1
      <4> QED BY <1>1, <1>2, <1>5, <4>2
    <3>2. new.tokens = t + z /\ new.from = f
      BY <2>2
    <3> HIDE DEF z, t, f
    <3>3. t + z <= limit \/ f >= k
      BY <3>1
    <3> QED BY <2>3, <3>2, <3>3
  <2> HIDE DEF upTo
  <2>6. Cutting(new, sizes, from, k + 1, limit)
    BY <1>2, <2>2, <2>3, <2>4, <2>5 DEF Cutting, upTo
  <2> QED BY <2>6 DEF new
<1> QED BY <1>4, <1>5

\* The cut of from..to.
LEMMA CutFills ==
  ASSUME NEW sizes \in Seq(Nat), NEW from \in Nat, 1 <= from, NEW to \in Nat, from <= to + 1,
         to <= Len(sizes), NEW limit \in Nat
  PROVE  Fills(Cut(sizes, from, to, limit), sizes, from, to + 1, limit)
<1> DEFINE cut == CutOf(sizes, from, to, limit)
           Good(n) == Cutting(cut[n], sizes, from, from + n, limit)
           last == to + 1 - from
           Bad == {n \in 0..last : ~Good(n)}
<1>1. Len(sizes) \in Nat /\ last \in Nat
  BY LenProperties
<1>2. \A n \in 0..last :
        cut[n] = IF n = 0 THEN [done |-> <<>>, from |-> from, tokens |-> 0]
                 ELSE CutStep(cut[n - 1], from + n - 1, sizes, limit)
  BY CutExists DEF CutTo
<1> HIDE DEF cut, last
<1>3. Bad = {}
  <2> SUFFICES ASSUME Bad # {} PROVE FALSE
    OBVIOUS
  <2>1. PICK m \in Bad : \A n \in Bad : ~(<<n, m>> \in OpToRel(<, Nat))
    <3>1. Bad \subseteq Nat
      BY <1>1
    <3> QED BY <3>1, NatLessThanWellFounded, WFMin
  <2>2. \A n \in Bad : ~(n < m)
    <3>1. m \in Nat /\ \A n \in Bad : n \in Nat
      BY <1>1
    <3> HIDE DEF Bad
    <3> QED BY <2>1, <3>1 DEF OpToRel
  <2>3. m # 0
    <3> DEFINE start == [done |-> <<>>, from |-> from, tokens |-> 0]
    <3>1. start.done = <<>> /\ start.from = from /\ start.tokens = 0
          /\ start = [done |-> start.done, from |-> start.from, tokens |-> start.tokens]
      OBVIOUS
    <3>2. cut[0] = start
      BY <1>1, <1>2
    <3> HIDE DEF start
    <3>3. Fills(<<>>, sizes, from, from, limit)
      <4>1. <<>> \in Seq(Spans) /\ Len(<<>>) = 0
        BY EmptySeq
      <4>2. from..(from - 1) = {} /\ 1..0 = {}
        OBVIOUS
      <4> QED BY <4>1, <4>2 DEF Fills, Fitting, Ordered, Covered
    <3>4. TokensUpTo(sizes)[from - 1] \in Nat
      <4>1. from - 1 \in 0..Len(sizes)
        BY <1>1
      <4> QED BY <4>1, TokensAre
    <3>5. 0 = TokensUpTo(sizes)[from - 1] - TokensUpTo(sizes)[from - 1] /\ from <= from /\ from >= from - 1
          /\ from + 0 = from
      BY <3>4
    <3>6. Cutting(start, sizes, from, from, limit)
      BY <3>1, <3>3, <3>5 DEF Cutting
    <3> QED BY <3>2, <3>5, <3>6
  <2>4. m \in 1..last /\ m - 1 \in 0..last /\ m - 1 < m
    BY <1>1, <2>3
  <2>5. Good(m - 1)
    BY <2>2, <2>4
  <2>6. cut[m] = CutStep(cut[m - 1], from + m - 1, sizes, limit)
    BY <1>2, <2>3, <2>4
  <2>7. from + (m - 1) = from + m - 1 /\ from + m - 1 \in 1..Len(sizes) /\ from + m - 1 + 1 = from + m
    BY <1>1, <2>4 DEF last
  <2>8. Cutting(CutStep(cut[m - 1], from + m - 1, sizes, limit), sizes, from, from + m - 1 + 1, limit)
    BY <2>5, <2>7, CutStepKeeps
  <2> QED BY <2>6, <2>7, <2>8
<1>4. Good(last)
  <2>1. last \in 0..last
    BY <1>1
  <2> HIDE DEF Good
  <2> QED BY <1>3, <2>1
<1>5. from + last = to + 1 /\ to + 1 - 1 = to
  BY DEF last
<1> DEFINE end == cut[last]
<1>6. Cutting(end, sizes, from, to + 1, limit)
  BY <1>4, <1>5
<1> HIDE DEF end
<1>7. /\ end.from \in Nat /\ from <= end.from /\ end.from <= to + 1
      /\ end.tokens = TokensUpTo(sizes)[to] - TokensUpTo(sizes)[end.from - 1]
      /\ end.tokens <= limit \/ end.from >= to
      /\ Fills(end.done, sizes, from, end.from, limit)
  BY <1>5, <1>6 DEF Cutting
<1>8. Cut(sizes, from, to, limit) = IF end.from > to THEN end.done ELSE Append(end.done, <<end.from, to>>)
  BY CutIsCutOf DEF end, cut, last
<1>9. CASE end.from > to
  <2>1. end.from = to + 1
    BY <1>7, <1>9
  <2> QED BY <1>7, <1>8, <1>9, <2>1
<1>10. CASE ~(end.from > to)
  <2>1. end.from <= to /\ (end.from = to \/ TokensUpTo(sizes)[to] - TokensUpTo(sizes)[end.from - 1] <= limit)
    BY <1>7, <1>10
  <2>2. Fills(Append(end.done, <<end.from, to>>), sizes, from, to + 1, limit)
    BY <1>7, <2>1, FillsMore
  <2> QED BY <1>8, <1>10, <2>2
<1> QED BY <1>9, <1>10

\* No span comes twice.
LEMMA FillsOnce ==
  ASSUME NEW sizes, NEW from, NEW next, NEW limit, NEW done,
         Fills(done, sizes, from, next, limit)
  PROVE  \A i, k \in 1..Len(done) : i # k => /\ done[i][2] < done[k][1] \/ done[k][2] < done[i][1]
                                            /\ done[i] # done[k]
<1>1. Len(done) \in Nat /\ \A i \in 1..Len(done) : done[i][1] \in Nat /\ done[i][2] \in Nat
  <2>1. done \in Seq(Spans)
    BY DEF Fills, Fitting, Ordered, Covered
  <2> QED BY <2>1, LenProperties, ElementOfSeq DEF Spans
<1>2. /\ \A i \in 1..Len(done) : done[i][1] <= done[i][2]
      /\ \A i, k \in 1..Len(done) : i < k => done[i][2] < done[k][1]
  BY DEF Fills, Fitting, Ordered, Covered
<1> SUFFICES ASSUME NEW i \in 1..Len(done), NEW k \in 1..Len(done), i # k
             PROVE  /\ done[i][2] < done[k][1] \/ done[k][2] < done[i][1]
                    /\ done[i] # done[k]
  OBVIOUS
<1>3. done[i][2] < done[k][1] \/ done[k][2] < done[i][1]
  <2>1. i < k \/ k < i
    BY <1>1
  <2> QED BY <1>2, <2>1
<1>4. ASSUME done[i] = done[k] PROVE FALSE
  <2>1. done[i][2] < done[i][1]
    BY <1>3, <1>4
  <2>2. done[i][1] <= done[i][2] /\ done[i][1] \in Nat /\ done[i][2] \in Nat
    BY <1>1, <1>2
  <2> DEFINE a == done[i][1] b == done[i][2]
  <2> HIDE DEF a, b
  <2>3. b < a /\ a <= b /\ a \in Nat /\ b \in Nat
    BY <2>1, <2>2 DEF a, b
  <2> QED BY <2>3
<1> QED BY <1>3, <1>4

SpanSet(done) == {done[i] : i \in 1..Len(done)}

\* What a cut yields is a partition.
LEMMA FillsPartition ==
  ASSUME NEW sizes, NEW from \in Nat, NEW to \in Nat, NEW limit, NEW next, next = to + 1, NEW done,
         Fills(done, sizes, from, next, limit)
  PROVE  Partition(SpanSet(done), sizes, from, to, limit)
<1> DEFINE spans == SpanSet(done)
<1>1. Len(done) \in Nat /\ \A i \in 1..Len(done) : done[i][1] \in Nat /\ done[i][2] \in Nat
  <2>1. done \in Seq(Spans)
    BY DEF Fills, Fitting, Ordered, Covered
  <2> QED BY <2>1, LenProperties, ElementOfSeq DEF Spans
<1>2. /\ next - 1 = to
      /\ \A i \in 1..Len(done) :
           /\ from <= done[i][1] /\ done[i][1] <= done[i][2] /\ done[i][2] < next
           /\ done[i][1] = done[i][2] \/ TokensUpTo(sizes)[done[i][2]] - TokensUpTo(sizes)[done[i][1] - 1] <= limit
      /\ \A x \in from..(next - 1) : \E i \in 1..Len(done) : x \in done[i][1]..done[i][2]
  BY DEF Fills, Fitting, Ordered, Covered
<1>3. \A s \in spans : \E i \in 1..Len(done) : s = done[i]
  BY DEF SpanSet
<1>4. \A i \in 1..Len(done) : done[i] \in spans
  BY DEF SpanSet
<1> HIDE DEF spans
<1>5. \A x \in from..to : \E s \in spans : x \in s[1]..s[2]
  BY <1>2, <1>4
<1>6. \A s, t \in spans : s # t => s[2] < t[1] \/ t[2] < s[1]
  <2> SUFFICES ASSUME NEW s \in spans, NEW t \in spans, s # t
               PROVE  s[2] < t[1] \/ t[2] < s[1]
    OBVIOUS
  <2>1. PICK i \in 1..Len(done), k \in 1..Len(done) : s = done[i] /\ t = done[k]
    BY <1>3
  <2>2. i # k
    BY <2>1
  <2> QED BY <2>1, <2>2, FillsOnce
<1>7. \A s \in spans :
        /\ from <= s[1] /\ s[1] <= s[2] /\ s[2] <= to
        /\ s[1] = s[2] \/ TokensUpTo(sizes)[s[2]] - TokensUpTo(sizes)[s[1] - 1] <= limit
  <2> SUFFICES ASSUME NEW s \in spans
               PROVE  /\ from <= s[1] /\ s[1] <= s[2] /\ s[2] <= to
                      /\ s[1] = s[2] \/ TokensUpTo(sizes)[s[2]] - TokensUpTo(sizes)[s[1] - 1] <= limit
    OBVIOUS
  <2>1. PICK i \in 1..Len(done) : s = done[i]
    BY <1>3
  <2>2. s[2] < next /\ s[2] \in Nat
    BY <1>1, <1>2, <2>1
  <2>3. s[2] <= to
    BY <2>2
  <2> QED BY <1>2, <2>1, <2>3
<1>8. Partition(spans, sizes, from, to, limit)
  BY <1>5, <1>6, <1>7 DEF Partition
<1> QED BY <1>8 DEF spans

-----------------------------------------------------------------------------
\* A chunk is known by its parent and its span.
KeyOf(row)    == <<row.parent, row.span>>
KeysOf(rows)  == {KeyOf(rows[i]) : i \in 1..Len(rows)}
Distinct(rows) == \A i, k \in 1..Len(rows) : i # k => KeyOf(rows[i]) # KeyOf(rows[k])
ChunkRows(content) == [of : {content}, span : Spans, parent : Spans, prefix : BOOLEAN]

ChildSpans(content, span) == Cut(SizesOf(content), span[1], span[2], ChildLimit)
FamilyKeys(content, span) ==
  {<<NoSpan, span>>} \cup {<<span, ChildSpans(content, span)[k]>> :
                             k \in 1..Len(ChildSpans(content, span))}

\* Lists without a common chunk, joined.
LEMMA KeysJoin ==
  ASSUME NEW S, NEW s \in Seq(S), NEW t \in Seq(S), Distinct(s), Distinct(t),
         \A x \in KeysOf(s) : x \notin KeysOf(t)
  PROVE  /\ s \o t \in Seq(S)
         /\ KeysOf(s \o t) = KeysOf(s) \cup KeysOf(t)
         /\ Distinct(s \o t)
<1> DEFINE u == s \o t  m == Len(s)  n == Len(t)
<1>1. /\ u \in Seq(S) /\ Len(u) = m + n /\ m \in Nat /\ n \in Nat
      /\ \A i \in 1..(m + n) : u[i] = IF i <= m THEN s[i] ELSE t[i - m]
  BY ConcatProperties, LenProperties
<1> HIDE DEF u
<1>2. \A i \in 1..m : i \in 1..(m + n) /\ u[i] = s[i]
  BY <1>1
<1>3. \A i \in 1..n : m + i \in 1..(m + n) /\ u[m + i] = t[i]
  <2> SUFFICES ASSUME NEW i \in 1..n PROVE m + i \in 1..(m + n) /\ u[m + i] = t[i]
    OBVIOUS
  <2>1. m + i \in 1..(m + n) /\ ~(m + i <= m) /\ m + i - m = i
    BY <1>1
  <2> QED BY <1>1, <2>1
<1>4. ASSUME NEW i \in 1..(m + n), i \notin 1..m
      PROVE  i - m \in 1..n /\ m + (i - m) = i /\ u[i] = t[i - m]
  <2>1. i - m \in 1..n /\ ~(i <= m) /\ m + (i - m) = i
    BY <1>1, <1>4
  <2> QED BY <1>1, <2>1
<1>5. KeysOf(u) = KeysOf(s) \cup KeysOf(t)
  <2>1. ASSUME NEW i \in 1..(m + n) PROVE KeyOf(u[i]) \in KeysOf(s) \cup KeysOf(t)
    <3>1. CASE i \in 1..m
      <4>1. u[i] = s[i]
        BY <1>2, <3>1
      <4>2. KeyOf(s[i]) \in KeysOf(s)
        BY <3>1 DEF KeysOf, m
      <4> QED BY <4>1, <4>2
    <3>2. CASE i \notin 1..m
      <4>1. i - m \in 1..n /\ u[i] = t[i - m]
        BY <1>4, <3>2
      <4>2. KeyOf(t[i - m]) \in KeysOf(t)
        BY <4>1 DEF KeysOf, n
      <4> QED BY <4>1, <4>2
    <3> QED BY <3>1, <3>2
  <2>2. ASSUME NEW i \in 1..m PROVE KeyOf(s[i]) \in KeysOf(u)
    BY <1>1, <1>2 DEF KeysOf
  <2>3. ASSUME NEW i \in 1..n PROVE KeyOf(t[i]) \in KeysOf(u)
    BY <1>1, <1>3 DEF KeysOf
  <2>4. KeysOf(u) = {KeyOf(u[i]) : i \in 1..(m + n)}
    BY <1>1 DEF KeysOf
  <2>5. KeysOf(s) = {KeyOf(s[i]) : i \in 1..m} /\ KeysOf(t) = {KeyOf(t[i]) : i \in 1..n}
    BY DEF KeysOf, m, n
  <2>6. KeysOf(u) \subseteq KeysOf(s) \cup KeysOf(t)
    BY <2>1, <2>4
  <2>7. KeysOf(s) \cup KeysOf(t) \subseteq KeysOf(u)
    BY <2>2, <2>3, <2>5
  <2> QED BY <2>6, <2>7
<1>6. ASSUME NEW i \in 1..m, NEW k \in 1..n PROVE KeyOf(s[i]) # KeyOf(t[k])
  <2>1. KeyOf(s[i]) \in KeysOf(s) /\ KeyOf(t[k]) \in KeysOf(t)
    BY DEF KeysOf, m, n
  <2> QED BY <2>1
<1>7. /\ \A i, k \in 1..m : i # k => KeyOf(s[i]) # KeyOf(s[k])
      /\ \A i, k \in 1..n : i # k => KeyOf(t[i]) # KeyOf(t[k])
  BY DEF Distinct, m, n
<1>8. ASSUME NEW i \in 1..(m + n), NEW k \in 1..(m + n), i # k
      PROVE  KeyOf(u[i]) # KeyOf(u[k])
  <2>1. CASE i \in 1..m /\ k \in 1..m
    BY <1>2, <1>7, <1>8, <2>1
  <2>2. CASE i \in 1..m /\ k \notin 1..m
    BY <1>2, <1>4, <1>6, <2>2
  <2>3. CASE i \notin 1..m /\ k \in 1..m
    BY <1>2, <1>4, <1>6, <2>3
  <2>4. CASE i \notin 1..m /\ k \notin 1..m
    <3>1. /\ i - m \in 1..n /\ u[i] = t[i - m] /\ m + (i - m) = i
          /\ k - m \in 1..n /\ u[k] = t[k - m] /\ m + (k - m) = k
      BY <1>4, <2>4
    <3>2. i - m # k - m
      BY <1>8, <3>1
    <3> QED BY <1>7, <3>1, <3>2
  <2> QED BY <2>1, <2>2, <2>3, <2>4
<1>9. Distinct(u)
  BY <1>1, <1>8 DEF Distinct
<1> QED BY <1>1, <1>5, <1>9 DEF u

\* SizesOf for any number of records.
LEMMA SizesAreSizes ==
  ASSUME NEW content PROVE SizesOf(content) \in Seq(Nat)
<1>1. Sizes \in Seq(Seq(Nat)) /\ Len(Sizes) \in Nat /\ Len(Sizes) # 0 /\ DOMAIN Sizes = 1..Len(Sizes)
  BY SizesAssumption, LenProperties, EmptySeq
<1>2. Len(Sizes) \in DOMAIN Sizes
  BY <1>1
<1>3. \A n \in DOMAIN Sizes : Sizes[n] \in Seq(Nat)
  BY <1>1, ElementOfSeq
<1> QED BY <1>2, <1>3 DEF SizesOf

\* The spans of the children and what they divide.
LEMMA ChildSpansFill ==
  ASSUME NEW content, NEW span \in Spans,
         1 <= span[1], span[1] <= span[2], span[2] <= Len(SizesOf(content))
  PROVE  Fills(ChildSpans(content, span), SizesOf(content), span[1], span[2] + 1, ChildLimit)
<1>1. span[1] \in Nat /\ span[2] \in Nat /\ span[1] <= span[2] + 1
  BY DEF Spans
<1> QED BY <1>1, SizesAreSizes, LimitsAssumption, CutFills DEF ChildSpans

\* A parent and its children, each once.
LEMMA FamilyIs ==
  ASSUME NEW content, NEW span \in Spans, NEW prefixed \in BOOLEAN,
         1 <= span[1], span[1] <= span[2], span[2] <= Len(SizesOf(content))
  PROVE  LET family == Family(content, span, prefixed)
         IN  /\ family \in Seq(ChunkRows(content))
             /\ KeysOf(family) = FamilyKeys(content, span)
             /\ Distinct(family)
<1> DEFINE children == ChildSpans(content, span)
           parent == [of |-> content, span |-> span, parent |-> NoSpan, prefix |-> prefixed]
           head == <<parent>>
           tail == [k \in DOMAIN children |->
                      [of |-> content, span |-> children[k], parent |-> span, prefix |-> FALSE]]
           n == Len(children)
<1>1. Fills(children, SizesOf(content), span[1], span[2] + 1, ChildLimit)
  BY ChildSpansFill
<1>2. children \in Seq(Spans)
  BY <1>1 DEF Fills, Fitting, Ordered, Covered
<1> HIDE DEF children
<1>3. n \in Nat /\ DOMAIN children = 1..n /\ \A k \in 1..n : children[k] \in Spans
  BY <1>2, LenProperties, ElementOfSeq
<1>4. NoSpan \in Spans
  BY DEF NoSpan, Spans
<1>5. parent \in ChunkRows(content)
  BY <1>4 DEF ChunkRows
<1>6. head \in Seq(ChunkRows(content)) /\ Len(head) = 1 /\ head[1] = parent
  BY <1>5
<1>7. \A k \in 1..n : /\ tail[k] \in ChunkRows(content)
                      /\ KeyOf(tail[k]) = <<span, children[k]>>
  BY <1>3 DEF ChunkRows, KeyOf
<1>8. tail \in Seq(ChunkRows(content)) /\ Len(tail) = n
  <2>1. tail \in [1..n -> ChunkRows(content)]
    <3>1. tail = [k \in 1..n |-> tail[k]]
      BY <1>3
    <3> HIDE DEF tail
    <3> QED BY <1>7, <3>1
  <2> HIDE DEF tail
  <2> QED BY <1>3, <2>1, SeqDef, LenProperties
<1>9. KeyOf(parent) = <<NoSpan, span>>
  BY DEF KeyOf
<1> HIDE DEF tail, parent, head
<1>10. KeysOf(head) = {<<NoSpan, span>>} /\ Distinct(head)
  BY <1>6, <1>9 DEF KeysOf, Distinct
<1>11. KeysOf(tail) = {<<span, children[k]>> : k \in 1..n}
  BY <1>7, <1>8 DEF KeysOf
<1>12. Distinct(tail)
  <2>1. \A i, k \in 1..n : i # k => children[i] # children[k]
    <3>1. \A i, k \in 1..Len(children) : i # k => children[i] # children[k]
      BY <1>1, FillsOnce
    <3> QED BY <3>1
  <2>2. \A i, k \in 1..n : i # k => <<span, children[i]>> # <<span, children[k]>>
    BY <2>1
  <2> QED BY <1>7, <1>8, <2>2 DEF Distinct
<1>13. \A x \in KeysOf(head) : x \notin KeysOf(tail)
  <2>1. NoSpan # span
    <3>1. NoSpan[1] = 0
      BY DEF NoSpan
    <3> QED BY <3>1
  <2>2. \A k \in 1..n : <<NoSpan, span>> # <<span, children[k]>>
    BY <2>1
  <2> QED BY <1>10, <1>11, <2>2
<1>14. /\ head \o tail \in Seq(ChunkRows(content))
       /\ KeysOf(head \o tail) = KeysOf(head) \cup KeysOf(tail)
       /\ Distinct(head \o tail)
  BY <1>6, <1>8, <1>10, <1>12, <1>13, KeysJoin
<1>15. Family(content, span, prefixed) = head \o tail
  BY DEF Family, head, tail, parent, children, ChildSpans
<1>16. KeysOf(head) \cup KeysOf(tail) = FamilyKeys(content, span)
  BY <1>10, <1>11 DEF FamilyKeys, children, n
<1> QED BY <1>14, <1>15, <1>16

-----------------------------------------------------------------------------
\* Parents are spans of the text, in order.
LEMMA ParentsFill ==
  ASSUME NEW content
  PROVE  Fills(Parents(content), SizesOf(content), 1, Len(SizesOf(content)) + 1, ParentLimit)
<1>1. SizesOf(content) \in Seq(Nat) /\ Len(SizesOf(content)) \in Nat
  BY SizesAreSizes, LenProperties
<1> QED BY <1>1, LimitsAssumption, CutFills DEF Parents

\* The chunks of a text are the families of its parents.
LEMMA ChunksAre ==
  ASSUME NEW content, NEW prefixed
  PROVE  LET parents == Parents(content)
             chunks  == Chunks(content, prefixed)
         IN  /\ chunks \in Seq(ChunkRows(content))
             /\ KeysOf(chunks) = UNION {FamilyKeys(content, parents[n]) : n \in 1..Len(parents)}
             /\ Distinct(chunks)
<1> DEFINE parents == Parents(content)
           listed == ListedOf(content, parents, prefixed)
           last == Len(parents)
           Upto(m) == UNION {FamilyKeys(content, parents[n]) : n \in 1..m}
           Good(m) == /\ listed[m] \in Seq(ChunkRows(content))
                      /\ KeysOf(listed[m]) = Upto(m)
                      /\ Distinct(listed[m])
           Bad == {m \in 0..last : ~Good(m)}
<1>1. Fills(parents, SizesOf(content), 1, Len(SizesOf(content)) + 1, ParentLimit)
  BY ParentsFill
<1>2. parents \in Seq(Spans) /\ last \in Nat /\ Len(SizesOf(content)) \in Nat
  BY <1>1, SizesAreSizes, LenProperties DEF Fills, Fitting, Ordered, Covered
<1>3. \A n \in 0..last :
        listed[n] = IF n = 0 THEN <<>> ELSE listed[n - 1] \o Family(content, parents[n], n \in prefixed)
  <2>1. ListedTo(listed, last, content, parents, prefixed)
    BY <1>2, ListedExists
  <2> HIDE DEF listed, last, parents
  <2> QED BY <2>1, Zenon DEF ListedTo
<1> HIDE DEF listed
<1>4. \A n \in 1..last : /\ parents[n] \in Spans /\ 1 <= parents[n][1]
                         /\ parents[n][1] <= parents[n][2] /\ parents[n][2] <= Len(SizesOf(content))
  <2> SUFFICES ASSUME NEW n \in 1..last
               PROVE  /\ parents[n] \in Spans /\ 1 <= parents[n][1]
                      /\ parents[n][1] <= parents[n][2] /\ parents[n][2] <= Len(SizesOf(content))
    OBVIOUS
  <2>1. parents[n] \in Spans
    BY <1>2, ElementOfSeq
  <2>2. 1 <= parents[n][1] /\ parents[n][1] <= parents[n][2] /\ parents[n][2] < Len(SizesOf(content)) + 1
    BY <1>1 DEF Fills, Fitting, Ordered, Covered
  <2>3. parents[n][2] \in Nat
    BY <2>1 DEF Spans
  <2>4. parents[n][2] <= Len(SizesOf(content))
    <3> HIDE DEF parents
    <3> QED BY <1>2, <2>2, <2>3
  <2> QED BY <2>1, <2>2, <2>4
<1>5. \A i, k \in 1..last : i # k => parents[i] # parents[k]
  <2>1. \A i, k \in 1..Len(parents) : i # k => parents[i] # parents[k]
    BY <1>1, FillsOnce
  <2> QED BY <2>1
<1> HIDE DEF parents, last
<1>6. \A n \in 1..last, prefix \in BOOLEAN :
        /\ Family(content, parents[n], prefix) \in Seq(ChunkRows(content))
        /\ KeysOf(Family(content, parents[n], prefix)) = FamilyKeys(content, parents[n])
        /\ Distinct(Family(content, parents[n], prefix))
  BY <1>4, FamilyIs
<1>7. \A m, n \in 1..last : m # n =>
        \A x \in FamilyKeys(content, parents[m]) : x \notin FamilyKeys(content, parents[n])
  <2> SUFFICES ASSUME NEW m \in 1..last, NEW n \in 1..last, m # n,
                      NEW x, x \in FamilyKeys(content, parents[m]), x \in FamilyKeys(content, parents[n])
               PROVE  FALSE
    OBVIOUS
  <2> DEFINE p == parents[m]  q == parents[n]
  <2>1. p # q /\ NoSpan # p /\ NoSpan # q
    <3>1. NoSpan[1] = 0
      BY DEF NoSpan
    <3> QED BY <1>4, <1>5, <3>1
  <2> HIDE DEF p, q
  <2>2. x = <<NoSpan, p>> \/ \E k : x = <<p, k>>
    BY DEF FamilyKeys, p
  <2>3. x = <<NoSpan, q>> \/ \E k : x = <<q, k>>
    BY DEF FamilyKeys, q
  <2>4. (x[1] = NoSpan /\ x[2] = p) \/ x[1] = p
    BY <2>2
  <2>5. (x[1] = NoSpan /\ x[2] = q) \/ x[1] = q
    BY <2>3
  <2> QED BY <2>1, <2>4, <2>5
<1>8. Bad = {}
  <2> SUFFICES ASSUME Bad # {} PROVE FALSE
    OBVIOUS
  <2>1. PICK m \in Bad : \A n \in Bad : ~(<<n, m>> \in OpToRel(<, Nat))
    <3>1. Bad \subseteq Nat
      BY <1>2
    <3> QED BY <3>1, NatLessThanWellFounded, WFMin
  <2>2. \A n \in Bad : ~(n < m)
    <3>1. m \in Nat /\ \A n \in Bad : n \in Nat
      BY <1>2
    <3> HIDE DEF Bad
    <3> QED BY <2>1, <3>1 DEF OpToRel
  <2>3. m # 0
    <3>1. listed[0] = <<>>
      BY <1>2, <1>3
    <3>2. <<>> \in Seq(ChunkRows(content)) /\ Len(<<>>) = 0 /\ 1..0 = {}
      BY EmptySeq
    <3>3. KeysOf(<<>>) = {} /\ Distinct(<<>>) /\ Upto(0) = {}
      BY <3>2 DEF KeysOf, Distinct
    <3>4. Good(0)
      BY <3>1, <3>2, <3>3
    <3> QED BY <3>4
  <2>4. m \in 1..last /\ m - 1 \in 0..last /\ m - 1 < m
    BY <1>2, <2>3
  <2> DEFINE family == Family(content, parents[m], m \in prefixed)
  <2>5. Good(m - 1)
    BY <2>2, <2>4
  <2>6. listed[m] = listed[m - 1] \o family
    BY <1>3, <2>3, <2>4
  <2>7. /\ family \in Seq(ChunkRows(content)) /\ Distinct(family)
        /\ KeysOf(family) = FamilyKeys(content, parents[m])
    <3>1. (m \in prefixed) \in BOOLEAN
      OBVIOUS
    <3> QED BY <1>6, <2>4, <3>1
  <2> HIDE DEF family
  <2>8. \A x \in KeysOf(listed[m - 1]) : x \notin KeysOf(family)
    <3> SUFFICES ASSUME NEW x \in KeysOf(listed[m - 1]) PROVE x \notin KeysOf(family)
      OBVIOUS
    <3>1. PICK n \in 1..(m - 1) : x \in FamilyKeys(content, parents[n])
      BY <2>5
    <3>2. n \in 1..last /\ n # m
      BY <1>2, <2>4
    <3> QED BY <1>7, <2>4, <2>7, <3>1, <3>2
  <2>9. /\ listed[m] \in Seq(ChunkRows(content)) /\ Distinct(listed[m])
        /\ KeysOf(listed[m]) = Upto(m - 1) \cup FamilyKeys(content, parents[m])
    <3> DEFINE before == listed[m - 1]
    <3>1. /\ before \in Seq(ChunkRows(content)) /\ Distinct(before) /\ KeysOf(before) = Upto(m - 1)
          /\ \A x \in KeysOf(before) : x \notin KeysOf(family) 
      BY <2>5, <2>8
    <3> HIDE DEF before, Upto
    <3>2. /\ before \o family \in Seq(ChunkRows(content)) /\ Distinct(before \o family)
          /\ KeysOf(before \o family) = Upto(m - 1) \cup FamilyKeys(content, parents[m])
      BY <2>7, <3>1, KeysJoin
    <3> QED BY <2>6, <3>2 DEF before
  <2>10. Upto(m - 1) \cup FamilyKeys(content, parents[m]) = Upto(m)
    <3>1. \A n : n \in 1..m <=> n \in 1..(m - 1) \/ n = m
      BY <1>2, <2>4
    <3> QED BY <3>1
  <2>11. Good(m)
    BY <2>9, <2>10
  <2> QED BY <2>11
<1>9. Good(last)
  BY <1>2, <1>8
<1>10. Chunks(content, prefixed) = listed[last]
  BY ChunksAreListed DEF listed, last, parents
<1> QED BY <1>9, <1>10 DEF parents, last

\* The spans of the chunks that have a parent in common.
LEMMA SpansOfKeys ==
  ASSUME NEW chunks, Len(chunks) \in Nat, DOMAIN chunks = 1..Len(chunks), NEW parent
  PROVE  \A x : x \in SpansOf(chunks, parent) <=> <<parent, x>> \in KeysOf(chunks)
<1>1. \A i \in DOMAIN chunks : \A x : KeyOf(chunks[i]) = <<parent, x>> <=> chunks[i].parent = parent /\ chunks[i].span = x
  BY DEF KeyOf
<1> QED BY <1>1 DEF SpansOf, KeysOf

\* The parents of a text divide it, and each is divided by its children.
LEMMA ChunksPartition ==
  ASSUME NEW content, NEW prefixed
  PROVE  LET chunks == Chunks(content, prefixed)
         IN  /\ Partition(SpansOf(chunks, NoSpan), SizesOf(content), 1, Len(SizesOf(content)), ParentLimit)
             /\ \A p \in SpansOf(chunks, NoSpan) :
                  Partition(SpansOf(chunks, p), SizesOf(content), p[1], p[2], ChildLimit)
<1> DEFINE parents == Parents(content)
           chunks  == Chunks(content, prefixed)
           spans   == SpanSet(parents)
           under(p) == SpanSet(ChildSpans(content, p))
<1>1. /\ chunks \in Seq(ChunkRows(content))
      /\ KeysOf(chunks) = UNION {FamilyKeys(content, parents[n]) : n \in 1..Len(parents)}
  BY ChunksAre
<1>2. Fills(parents, SizesOf(content), 1, Len(SizesOf(content)) + 1, ParentLimit)
  BY ParentsFill
<1>3. /\ Len(SizesOf(content)) \in Nat /\ Len(parents) \in Nat
      /\ \A n \in 1..Len(parents) : parents[n] \in Spans
  <2>1. parents \in Seq(Spans)
    BY <1>2 DEF Fills, Fitting, Ordered, Covered
  <2> QED BY <2>1, SizesAreSizes, LenProperties, ElementOfSeq
<1>4. Partition(spans, SizesOf(content), 1, Len(SizesOf(content)), ParentLimit)
  <2> HIDE DEF parents
  <2> QED BY <1>2, <1>3, FillsPartition
<1>5. Len(chunks) \in Nat /\ DOMAIN chunks = 1..Len(chunks)
  BY <1>1, LenProperties
<1> HIDE DEF parents, chunks
<1>6. \A p \in spans : /\ p \in Spans /\ p # NoSpan /\ 1 <= p[1] /\ p[1] <= p[2]
                       /\ p[2] <= Len(SizesOf(content))
  <2>1. NoSpan[1] = 0
    BY DEF NoSpan
  <2>2. \A p \in spans : 1 <= p[1] /\ p[1] <= p[2] /\ p[2] <= Len(SizesOf(content))
    BY <1>4 DEF Partition
  <2>3. \A p \in spans : p \in Spans
    BY <1>3 DEF SpanSet
  <2> QED BY <2>1, <2>2, <2>3
<1>7. KeysOf(chunks) = UNION {FamilyKeys(content, p) : p \in spans}
  BY <1>1 DEF SpanSet
<1> HIDE DEF spans
<1>8. \A x : x \in SpansOf(chunks, NoSpan) <=> x \in spans
  <2>1. \A p \in spans : \A x : <<NoSpan, x>> \in FamilyKeys(content, p) <=> x = p
    BY <1>6 DEF FamilyKeys
  <2>2. \A x : <<NoSpan, x>> \in KeysOf(chunks) <=> x \in spans
    BY <1>7, <2>1
  <2> QED BY <1>5, <2>2, SpansOfKeys
<1>9. ASSUME NEW p \in spans
      PROVE  \A x : x \in SpansOf(chunks, p) <=> x \in under(p)
  <2>1. \A q \in spans : \A x : <<p, x>> \in FamilyKeys(content, q) <=> q = p /\ x \in under(p)
    BY <1>6 DEF FamilyKeys, SpanSet
  <2>2. \A x : <<p, x>> \in KeysOf(chunks) <=> x \in under(p)
    BY <1>7, <2>1
  <2> QED BY <1>5, <2>2, SpansOfKeys
<1>10. ASSUME NEW p \in spans
       PROVE  Partition(under(p), SizesOf(content), p[1], p[2], ChildLimit)
  <2>1. Fills(ChildSpans(content, p), SizesOf(content), p[1], p[2] + 1, ChildLimit)
    BY <1>6, ChildSpansFill
  <2>2. p[1] \in Nat /\ p[2] \in Nat
    BY <1>6 DEF Spans
  <2> QED BY <2>1, <2>2, FillsPartition
<1>11. SpansOf(chunks, NoSpan) = spans
  BY <1>8
<1>12. \A p \in spans : SpansOf(chunks, p) = under(p)
  BY <1>9
<1> HIDE DEF under
<1> QED BY <1>4, <1>10, <1>11, <1>12 DEF chunks

-----------------------------------------------------------------------------
\* Each of the indices has a place of its own in the answer.
LEMMA NthIs ==
  ASSUME NEW n \in Nat, NEW I, I \subseteq 1..n
  PROVE  /\ \A i \in I : Nth(i, I) \in 1..Cardinality(I)
         /\ \A i, k \in I : Nth(i, I) = Nth(k, I) => i = k
<1> DEFINE upto(i) == {k \in I : k <= i}
<1>1. IsFiniteSet(I) /\ Cardinality(I) \in Nat /\ \A i \in I : i \in Nat
  <2>1. IsFiniteSet(1..n)
    <3>1. n \in Int /\ 1 \in Int
      OBVIOUS
    <3> QED BY <3>1, FS_Interval
  <2>2. IsFiniteSet(I) /\ Cardinality(I) \in Nat
    BY <2>1, FS_Subset, FS_CardinalityType
  <2>3. \A i \in I : i \in Nat
    OBVIOUS
  <2> QED BY <2>2, <2>3
<1>2. \A i \in I : /\ IsFiniteSet(upto(i)) /\ Cardinality(upto(i)) \in Nat
                   /\ Cardinality(upto(i)) <= Cardinality(I) /\ Cardinality(upto(i)) # 0
  <2> TAKE i \in I
  <2>1. upto(i) \subseteq I /\ i \in upto(i)
    BY <1>1
  <2> HIDE DEF upto
  <2> QED BY <1>1, <2>1, FS_Subset, FS_CardinalityType, FS_EmptySet
<1>3. ASSUME NEW i \in I, NEW k \in I, i < k
      PROVE  Cardinality(upto(i)) # Cardinality(upto(k))
  <2>1. upto(i) \subseteq upto(k) /\ k \in upto(k) /\ k \notin upto(i)
    <3>1. i \in Nat /\ k \in Nat /\ k <= k /\ ~(k <= i)
      BY <1>1, <1>3
    <3>2. \A x \in I : x <= i => x <= k
      BY <1>1, <1>3, <3>1
    <3> QED BY <3>1, <3>2
  <2> HIDE DEF upto
  <2>2. upto(i) # upto(k)
    BY <2>1
  <2> QED BY <1>2, <2>1, <2>2, FS_Subset
<1>4. \A i \in I : Nth(i, I) = Cardinality(upto(i))
  BY DEF Nth
<1> HIDE DEF upto
<1>5. \A i \in I : Nth(i, I) \in 1..Cardinality(I)
  BY <1>1, <1>2, <1>4
<1>6. \A i, k \in I : i < k \/ k < i \/ i = k
  BY <1>1
<1>7. \A i, k \in I : i < k => Nth(i, I) # Nth(k, I)
  BY <1>3, <1>4
<1> QED BY <1>5, <1>6, <1>7

\* Whatever is cached, a text gets its own vector or none.
LEMMA VectorsAre ==
  ASSUME NEW S, NEW texts \in Seq(S), NEW works
  PROVE  \A i \in DOMAIN texts : \/ Vectors(texts, works)[i] = texts[i]
                                 \/ Vectors(texts, works)[i] = NoVector /\ ~works
<1> SUFFICES ASSUME NEW i \in DOMAIN texts
             PROVE  \/ Vectors(texts, works)[i] = texts[i]
                    \/ Vectors(texts, works)[i] = NoVector /\ ~works
  OBVIOUS
<1> DEFINE I == Uncached(texts)
           a == Nth(i, I)
<1>1. Vectors(texts, works)[i] = IF texts[i] \in emb THEN texts[i]
                                 ELSE IF works THEN Asked(texts)[a] ELSE NoVector
  BY DEF Vectors
<1>2. ASSUME texts[i] \notin emb
      PROVE  Asked(texts)[a] = texts[i]
  <2>1. Len(texts) \in Nat /\ I \subseteq 1..Len(texts) /\ i \in I
    BY <1>2, LenProperties DEF Uncached
  <2>2. Asked(texts) = [n \in 1..Cardinality(I) |-> texts[CHOOSE k \in I : Nth(k, I) = n]]
    BY DEF Asked
  <2> HIDE DEF I
  <2>3. a \in 1..Cardinality(I) /\ \A k \in I : Nth(k, I) = a => k = i
    BY <2>1, NthIs
  <2>4. (CHOOSE k \in I : Nth(k, I) = a) = i
    BY <2>1, <2>3
  <2> HIDE DEF a
  <2> QED BY <2>2, <2>3, <2>4
<1> QED BY <1>1, <1>2

LEMMA EmbeddedIsItsText ==
  ASSUME NEW d, NEW prefixed, d.chunks = Embedded(d.content, prefixed, d.embedded)
  PROVE  IsItsText(d)
<1> DEFINE chunks  == Chunks(d.content, prefixed)
           texts   == [i \in DOMAIN chunks |-> TextOf(chunks[i])]
           vectors == Vectors(texts, d.embedded)
           rows    == d.chunks
<1>1. chunks \in Seq(ChunkRows(d.content)) /\ Distinct(chunks)
  BY ChunksAre
<1>2. Len(chunks) \in Nat /\ DOMAIN chunks = 1..Len(chunks)
  BY <1>1, LenProperties
<1>3. texts \in Seq({TextOf(chunks[i]) : i \in DOMAIN chunks}) /\ DOMAIN texts = DOMAIN chunks
  <2>1. texts \in [1..Len(chunks) -> {TextOf(chunks[i]) : i \in DOMAIN chunks}]
    BY <1>2
  <2> HIDE DEF chunks
  <2> QED BY <1>2, <2>1, SeqDef
<1>4. \A i \in DOMAIN texts : vectors[i] = texts[i] \/ (vectors[i] = NoVector /\ ~d.embedded)
  <2> HIDE DEF texts
  <2> QED BY <1>3, VectorsAre
<1> HIDE DEF vectors
<1>5. /\ DOMAIN rows = DOMAIN chunks
      /\ \A i \in DOMAIN chunks : /\ rows[i].span = chunks[i].span /\ rows[i].parent = chunks[i].parent
                                  /\ rows[i].text = texts[i] /\ rows[i].vector = vectors[i]
  BY DEF Embedded, vectors
<1> HIDE DEF rows, texts, chunks
<1>6. \A p : SpansOf(rows, p) = SpansOf(chunks, p)
  BY <1>5 DEF SpansOf
<1>7. /\ Partition(SpansOf(chunks, NoSpan), SizesOf(d.content), 1, Len(SizesOf(d.content)), ParentLimit)
      /\ \A p \in SpansOf(chunks, NoSpan) :
           Partition(SpansOf(chunks, p), SizesOf(d.content), p[1], p[2], ChildLimit)
  BY ChunksPartition DEF chunks
<1>8. \A i \in DOMAIN rows : rows[i].vector = rows[i].text \/ (rows[i].vector = NoVector /\ ~d.embedded)
  BY <1>3, <1>4, <1>5
<1>9. \A i, k \in DOMAIN rows : i # k => rows[i].span # rows[k].span \/ rows[i].parent # rows[k].parent
  BY <1>1, <1>2, <1>5 DEF Distinct, KeyOf
<1> HIDE DEF Partition
<1> QED BY <1>6, <1>7, <1>8, <1>9 DEF IsItsText, rows

\* What a job carries to _persist fits its text, as what is stored does.
CutInv ==
  /\ \A j \in jobs : IsJob(j) /\ (j.step # "check" => IsItsText(j))
  /\ StoredChunksAreTheText

LEMMA SameCutFits ==
  ASSUME NEW k, NEW j, SameCut(k, j), IsItsText(j)
  PROVE  IsItsText(k)
BY DEF SameCut, IsItsText

\* Nothing is cut or stored.
LEMMA NothingCut ==
  ASSUME CutInv, docs' \subseteq docs,
         \A j \in jobs' : j \in jobs \/ (IsJob(j) /\ j.step = "check")
  PROVE  CutInv'
BY DEF CutInv, StoredChunksAreTheText

LEMMA JobIsCheck ==
  ASSUME NEW by, NEW d
  PROVE  IsJob(Job(by, d)) /\ Job(by, d).step = "check"
BY DEF IsJob, Job

LEMMA PreparationFits ==
  ASSUME CutInv, NEW j \in jobs, Prepares(j)
  PROVE  CutInv'
<1>1. docs' = docs
  BY DEF Prepares
<1>2. PICK k : /\ jobs' = (jobs \ {j}) \cup {k} /\ IsJob(k) /\ SameTask(k, j)
               /\ \E prefixed : k.chunks = Embedded(j.content, prefixed, k.embedded)
  BY Prepared DEF CutInv
<1>3. IsItsText(k)
  BY <1>2, EmbeddedIsItsText DEF SameTask
<1> QED BY <1>1, <1>2, <1>3 DEF CutInv, StoredChunksAreTheText

LEMMA SelectionFits ==
  ASSUME CutInv, NEW j \in jobs, SelectsVersions(j)
  PROVE  CutInv'
<1>1. docs' = docs /\ j.step = "store" /\ IsItsText(j)
  BY DEF SelectsVersions, CutInv
<1>2. PICK new : Begins(new, j)
  BY Selected DEF CutInv
<1>3. \A r \in Rivals(j) : IsItsText(r)
  BY DEF Rivals, CutInv
<1>4. IsJob(new) /\ IsItsText(new)
  BY <1>1, <1>2, SameCutFits DEF Begins
<1>5. ASSUME NEW k \in jobs'
      PROVE  IsJob(k) /\ (k.step # "check" => IsItsText(k))
  <2>1. CASE k \in jobs
    BY <2>1 DEF CutInv
  <2>2. ASSUME NEW r \in Rivals(j), IsJob(k), SameCut(k, r)
        PROVE  IsJob(k) /\ IsItsText(k)
    BY <1>3, <2>2, SameCutFits
  <2> QED BY <1>2, <1>4, <2>1, <2>2 DEF Begins
<1> QED BY <1>1, <1>5 DEF CutInv, StoredChunksAreTheText

LEMMA InsertionFits ==
  ASSUME CutInv, NEW j \in jobs, Inserts(j)
  PROVE  CutInv'
<1>1. j.step # "check" /\ jobs' = jobs \ {j}
  BY DEF Inserts, Ended
<1>2. IsItsText(j)
  BY <1>1 DEF CutInv
<1> DEFINE new == [title |-> j.title, content |-> j.content, chunks |-> j.chunks, embedded |-> j.embedded]
<1>3. SameCut(new, j)
  BY DEF SameCut
<1>4. IsItsText(new)
  <2> HIDE DEF new
  <2> QED BY <1>2, <1>3, SameCutFits
<1>5. docs' = docs \/ docs' = (docs \ j.old) \cup {new}
  BY DEF Inserts
<1> HIDE DEF new
<1> QED BY <1>1, <1>4, <1>5 DEF CutInv, StoredChunksAreTheText

LEMMA StepFits ==
  ASSUME CutInv, [Next]_vars
  PROVE  CutInv'
<1>1. CASE UNCHANGED vars
  BY <1>1, NothingCut DEF vars
<1>2. CASE IngestStep
  <2> PICK j \in jobs : \/ FindsDuplicate(j) \/ Prepares(j) \/ SelectsVersions(j)
                        \/ Inserts(j) \/ DatabaseFails(j)
    BY <1>2 DEF IngestStep
  <2>1. CASE FindsDuplicate(j) \/ DatabaseFails(j)
    BY <2>1, NothingCut DEF FindsDuplicate, DatabaseFails, Ended
  <2> QED BY <2>1, PreparationFits, SelectionFits, InsertionFits
<1>3. ASSUME NEW ds, AppIngests(ds)
      PROVE  CutInv'
  BY <1>3, NothingCut, JobIsCheck DEF AppIngests
<1>4. CASE SyncPrompts
  BY <1>4, NothingCut, JobIsCheck DEF SyncPrompts, ScriptJobs
<1>5. ASSUME NEW d, AdminDeletes(d)
      PROVE  CutInv'
  BY <1>5, NothingCut DEF AdminDeletes
<1>6. ASSUME NEW x, NewRecord(x)
      PROVE  CutInv'
  BY <1>6, NothingCut DEF NewRecord
<1>7. CASE EmbeddingsExpire
  BY <1>7, NothingCut DEF EmbeddingsExpire
<1>8. CASE PassStarts \/ NextSource \/ ScriptKilled
  BY <1>8, NothingCut DEF PassStarts, NextSource, ScriptKilled
<1>9. ASSUME NEW d, Takes(d)
      PROVE  CutInv'
  BY <1>9, NothingCut, JobIsCheck DEF Takes
<1>10. CASE AppStep
  BY <1>3, <1>4, <1>5, <1>6, <1>7, <1>10
     DEF AppStep, AggregateIntakePatterns, AdminIngests, IngestTranscript, IngestCallerProfile
<1> QED BY <1>1, <1>2, <1>8, <1>9, <1>10 DEF Next, ScriptStep

\* For any texts and limits, and whatever the cache holds when a request for
\* vectors is answered: the chunks that are stored divide the text among them,
\* none twice, and each has its own vector unless OpenAI failed (_chunk_document,
\* _make_children, _embed_texts, _persist).
THEOREM ChunksFitTheirText == Spec => []StoredChunksAreTheText
<1>1. Init => CutInv
  BY DEF Init, CutInv, StoredChunksAreTheText
<1>2. CutInv => StoredChunksAreTheText
  BY DEF CutInv
<1> QED BY <1>1, <1>2, StepFits, PTL DEF Spec

-----------------------------------------------------------------------------
(***************************************************************************)
(* 4. The last turns of a conversation.                                    *)
(***************************************************************************)
\* Any turn of the two kinds, about anything of S.
TurnsAbout(S) == {User(m) : m \in S} \cup {Assistant(m) : m \in S}

\* What LastTurns leaves, element by element.
LEMMA LastTurnsElements ==
  ASSUME NEW S, NEW s \in Seq(S), NEW n \in Nat
  PROVE  /\ LastTurns(s, n) \in Seq(S)
         /\ Len(LastTurns(s, n)) = IF Len(s) > n THEN n ELSE Len(s)
         /\ \A i \in 1..Len(LastTurns(s, n)) :
              LastTurns(s, n)[i] = s[Len(s) - Len(LastTurns(s, n)) + i]
<1>1. Len(s) \in Nat /\ \A i \in 1..Len(s) : s[i] \in S
  BY LenProperties, ElementOfSeq
<1>2. CASE Len(s) > n
  <2>1. LastTurns(s, n) = SubSeq(s, Len(s) - n + 1, Len(s))
    BY <1>2, Zenon DEF LastTurns
  <2>2. Len(s) - n + 1 \in Int /\ Len(s) \in Int /\ \A i \in (Len(s) - n + 1)..Len(s) : s[i] \in S
    BY <1>1, <1>2
  <2>3. /\ LastTurns(s, n) \in Seq(S)
        /\ Len(LastTurns(s, n)) =
             IF Len(s) - n + 1 <= Len(s) THEN Len(s) - (Len(s) - n + 1) + 1 ELSE 0
        /\ \A i \in 1..(Len(s) - (Len(s) - n + 1) + 1) :
             LastTurns(s, n)[i] = s[Len(s) - n + 1 + i - 1]
    BY <2>1, <2>2, SubSeqProperties
  <2>4. Len(LastTurns(s, n)) = n
    BY <1>1, <1>2, <2>3
  <2>5. \A i \in 1..n : LastTurns(s, n)[i] = s[Len(s) - n + i]
    <3> SUFFICES ASSUME NEW i \in 1..n PROVE LastTurns(s, n)[i] = s[Len(s) - n + i]
      OBVIOUS
    <3>1. i \in 1..(Len(s) - (Len(s) - n + 1) + 1) /\ Len(s) - n + 1 + i - 1 = Len(s) - n + i
      BY <1>1
    <3> QED BY <2>3, <3>1
  <2> HIDE DEF LastTurns
  <2> QED BY <1>2, <2>3, <2>4, <2>5
<1>3. CASE ~(Len(s) > n)
  <2>1. LastTurns(s, n) = s
    BY <1>3, Zenon DEF LastTurns
  <2> QED BY <1>1, <1>3, <2>1
<1> QED BY <1>2, <1>3

\* A turn added to the last turns, or to all of them: the last are the same.
LEMMA LastTurnsOfAppend ==
  ASSUME NEW S, NEW s \in Seq(S), NEW e \in S, NEW n \in Nat
  PROVE  LastTurns(Append(LastTurns(s, n), e), n) = LastTurns(Append(s, e), n)
<1> DEFINE cut   == LastTurns(s, n)
           short == Append(cut, e)
           long  == Append(s, e)
<1>1. /\ Len(s) \in Nat /\ cut \in Seq(S)
      /\ Len(cut) = IF Len(s) > n THEN n ELSE Len(s)
      /\ \A i \in 1..Len(cut) : cut[i] = s[Len(s) - Len(cut) + i]
  BY LastTurnsElements, LenProperties
<1>2. /\ long \in Seq(S) /\ Len(long) = Len(s) + 1
      /\ \A i \in 1..Len(s) : long[i] = s[i]
      /\ long[Len(s) + 1] = e
  BY AppendProperties
<1> HIDE DEF cut, long
<1>3. /\ short \in Seq(S) /\ Len(short) = Len(cut) + 1
      /\ \A i \in 1..Len(cut) : short[i] = cut[i]
      /\ short[Len(cut) + 1] = e
  BY <1>1, AppendProperties
<1> HIDE DEF short
<1>4. Len(cut) \in Nat /\ Len(cut) <= Len(s) /\ Len(cut) <= n
  BY <1>1
<1>5. Len(short) = Len(cut) + 1 /\ Len(long) = Len(s) + 1 /\ Len(s) \in Nat
  BY <1>1, <1>2, <1>3
<1>6. \A i \in 1..Len(short) : short[i] = long[Len(long) - Len(short) + i]
  <2> SUFFICES ASSUME NEW i \in 1..Len(short) PROVE short[i] = long[Len(long) - Len(short) + i]
    OBVIOUS
  <2>1. CASE i = Len(cut) + 1
    <3>1. Len(long) - Len(short) + i = Len(s) + 1
      BY <1>4, <1>5, <2>1
    <3> QED BY <1>2, <1>3, <2>1, <3>1
  <2>2. CASE i \in 1..Len(cut)
    <3>1. short[i] = s[Len(s) - Len(cut) + i]
      <4>1. short[i] = cut[i]
        BY <1>3, <2>2
      <4> QED BY <1>1, <2>2, <4>1
    <3>3. Len(s) - Len(cut) + i \in 1..Len(s)
      BY <1>1, <1>4, <2>2
    <3>2. Len(long) - Len(short) + i = Len(s) - Len(cut) + i
      BY <1>1, <1>2, <1>3, <1>4
    <3> QED BY <1>2, <3>1, <3>2, <3>3
  <2> QED BY <1>3, <1>4, <2>1, <2>2
<1>7. /\ LastTurns(short, n) \in Seq(S)
      /\ Len(LastTurns(short, n)) = IF Len(short) > n THEN n ELSE Len(short)
      /\ \A i \in 1..Len(LastTurns(short, n)) :
           LastTurns(short, n)[i] = short[Len(short) - Len(LastTurns(short, n)) + i]
  BY <1>3, LastTurnsElements
<1>8. /\ LastTurns(long, n) \in Seq(S)
      /\ Len(LastTurns(long, n)) = IF Len(long) > n THEN n ELSE Len(long)
      /\ \A i \in 1..Len(LastTurns(long, n)) :
           LastTurns(long, n)[i] = long[Len(long) - Len(LastTurns(long, n)) + i]
  BY <1>2, LastTurnsElements
<1>9. Len(LastTurns(short, n)) = Len(LastTurns(long, n))
  BY <1>1, <1>2, <1>3, <1>7, <1>8
<1>10. ASSUME NEW i \in 1..Len(LastTurns(short, n))
       PROVE  LastTurns(short, n)[i] = LastTurns(long, n)[i]
  <2> DEFINE k == Len(LastTurns(short, n))
  <2>1. k \in Nat /\ k <= Len(short) /\ Len(short) \in Nat /\ Len(long) \in Nat
    BY <1>1, <1>2, <1>3, <1>4, <1>7
  <2>2. LastTurns(short, n)[i] = short[Len(short) - k + i] /\ LastTurns(long, n)[i] = long[Len(long) - k + i]
    BY <1>7, <1>8, <1>9
  <2> HIDE DEF k
  <2>3. i \in 1..k
    BY <1>10 DEF k
  <2>4. Len(short) - k + i \in 1..Len(short)
        /\ Len(long) - Len(short) + (Len(short) - k + i) = Len(long) - k + i
    BY <2>1, <2>3
  <2> QED BY <1>6, <2>2, <2>4
<1>11. LastTurns(short, n) = LastTurns(long, n)
  BY <1>7, <1>8, <1>9, <1>10, SeqEqual
<1> QED BY <1>11 DEF short, long, cut

\* Of turns whose replies follow, the last are so too.
LEMMA LastRepliesFollow ==
  ASSUME NEW S, NEW s \in Seq(S), NEW n \in Nat, RepliesFollow(s)
  PROVE  RepliesFollow(LastTurns(s, n))
<1> DEFINE cut == LastTurns(s, n)
<1>1. /\ Len(s) \in Nat /\ Len(cut) \in Nat /\ Len(cut) <= Len(s)
      /\ \A i \in 1..Len(cut) : cut[i] = s[Len(s) - Len(cut) + i]
  BY LastTurnsElements, LenProperties
<1> HIDE DEF cut
<1>2. ASSUME NEW i \in 2..Len(cut), cut[i].role = "assistant"
      PROVE  cut[i - 1] = User(cut[i].of)
  <2> DEFINE k == Len(s) - Len(cut) + i
  <2>1. k \in 2..Len(s) /\ cut[i] = s[k] /\ cut[i - 1] = s[k - 1]
    BY <1>1
  <2> HIDE DEF k
  <2> QED BY <1>2, <2>1 DEF RepliesFollow
<1> QED BY <1>2 DEF RepliesFollow, cut

\* A question may follow anything, a reply its question.
LEMMA AppendedRepliesFollow ==
  ASSUME NEW S, NEW s \in Seq(S), NEW e \in S, RepliesFollow(s),
         e.role = "assistant" /\ s # <<>> => s[Len(s)] = User(e.of)
  PROVE  RepliesFollow(Append(s, e))
<1>1. /\ Len(s) \in Nat /\ Len(Append(s, e)) = Len(s) + 1
      /\ \A i \in 1..Len(s) : Append(s, e)[i] = s[i]
      /\ Append(s, e)[Len(s) + 1] = e
      /\ s = <<>> => Len(s) = 0
  BY AppendProperties, LenProperties
<1> SUFFICES ASSUME NEW i \in 2..Len(s) + 1, Append(s, e)[i].role = "assistant"
             PROVE  Append(s, e)[i - 1] = User(Append(s, e)[i].of)
  BY <1>1 DEF RepliesFollow
<1>2. CASE i = Len(s) + 1
  BY <1>1, <1>2
<1>3. CASE i \in 2..Len(s)
  BY <1>1, <1>3 DEF RepliesFollow
<1> QED BY <1>1, <1>2, <1>3

-----------------------------------------------------------------------------
(***************************************************************************)
(* 5. What goes into a prompt.                                             *)
(***************************************************************************)
AllRows  == Rows(Passages)
Contexts == [chunks : Seq(Rows(Passages)), found : SUBSET Passages]

\* A prompt holds no row twice, and no child beside its parent.
OnceEach(context) ==
  \A i, j \in DOMAIN context.chunks :
    i # j => /\ context.chunks[i] # context.chunks[j]
             /\ context.chunks[i][1] \in context.found => context.chunks[i][1] # context.chunks[j][1]


\* taken of Resolved.
Taken(s, found) ==
  CHOOSE taken : taken = [n \in 0..Len(s) |->
    IF n = 0 THEN <<>> ELSE Take(taken[n - 1], InPlaceOf(s[n], found))]

\* A function is what the first m steps make of it.
TakenUpTo(f, m, s, found) ==
  f = [n \in 0..m |-> IF n = 0 THEN <<>> ELSE Take(f[n - 1], InPlaceOf(s[n], found))]

LEMMA TakenExists ==
  ASSUME NEW s, Len(s) \in Nat, NEW found
  PROVE  TakenUpTo(Taken(s, found), Len(s), s, found)
<1> DEFINE Bad == {m \in Nat : ~\E f : TakenUpTo(f, m, s, found)}
<1>1. Bad = {}
  <2> SUFFICES ASSUME Bad # {} PROVE FALSE
    OBVIOUS
  <2>1. PICK m \in Bad : \A n \in Bad : ~(<<n, m>> \in OpToRel(<, Nat))
    BY NatLessThanWellFounded, WFMin
  <2>2. \A n \in Bad : ~(n < m)
    BY <2>1 DEF OpToRel
  <2>3. m # 0
    <3>1. \A f : f = [n \in 0..0 |-> <<>>] => TakenUpTo(f, 0, s, found)
      BY DEF TakenUpTo
    <3> QED BY <3>1
  <2>4. PICK f : TakenUpTo(f, m - 1, s, found)
    BY <2>2, <2>3
  <2> DEFINE g == [n \in 0..m |-> IF n = m THEN Take(f[m - 1], InPlaceOf(s[m], found)) ELSE f[n]]
  <2>5. m \in Nat /\ m - 1 \in Nat
    BY <2>3
  <2>6. ASSUME NEW n \in 0..m
        PROVE  g[n] = IF n = 0 THEN <<>> ELSE Take(g[n - 1], InPlaceOf(s[n], found))
    <3>1. CASE n = m
      <4>1. g[n - 1] = f[m - 1] /\ n # 0
        BY <2>3, <2>5, <3>1
      <4> QED BY <3>1, <4>1
    <3>2. CASE n # m /\ n # 0
      <4>1. g[n] = f[n] /\ g[n - 1] = f[n - 1] /\ n \in 0..m - 1
        BY <2>5, <3>2
      <4>2. f[n] = Take(f[n - 1], InPlaceOf(s[n], found))
        BY <2>4, <3>2, <4>1 DEF TakenUpTo
      <4> HIDE DEF g
      <4> QED BY <3>2, <4>1, <4>2, Zenon
    <3>3. CASE n # m /\ n = 0
      <4>1. g[n] = f[n] /\ n \in 0..m - 1
        BY <2>5, <3>3
      <4>2. f[n] = <<>>
        BY <2>4, <3>3, <4>1 DEF TakenUpTo
      <4> HIDE DEF g
      <4> QED BY <3>3, <4>1, <4>2, Zenon
    <3> QED BY <3>1, <3>2, <3>3
  <2>7. g = [n \in 0..m |-> g[n]]
    BY Zenon
  <2> HIDE DEF g
  <2>8. TakenUpTo(g, m, s, found)
    BY <2>6, <2>7 DEF TakenUpTo
  <2> QED BY <2>8
<1>2. \E f : TakenUpTo(f, Len(s), s, found)
  BY <1>1
<1> QED BY <1>2 DEF TakenUpTo, Taken

LEMMA ResolvedIsTaken ==
  ASSUME NEW s, NEW found
  PROVE  Resolved(s, found) = Taken(s, found)[Len(s)]
BY DEF Resolved, Taken

\* Rows that differ.
Apart(rows) == \A i, j \in DOMAIN rows : i # j => rows[i] # rows[j]
\* No child of a parent that is found.
NoChildOf(found, rows) == \A i \in DOMAIN rows : rows[i][1] \in found => rows[i][2] = 0

LEMMA InPlaceOfIs ==
  ASSUME NEW c \in AllRows, NEW found
  PROVE  /\ InPlaceOf(c, found) \in AllRows
         /\ InPlaceOf(c, found)[1] \in found => InPlaceOf(c, found)[2] = 0
<1>1. PICK p \in Passages, n \in 0..Children : c = <<p, n>>
  BY DEF AllRows, Rows
<1>2. 0 \in 0..Children
  BY CutsAreNat
<1>3. CASE IsChild(c) /\ c[1] \in found
  <2>1. InPlaceOf(c, found) = <<p, 0>>
    BY <1>1, <1>3 DEF InPlaceOf, ParentOf
  <2> QED BY <1>2, <2>1 DEF AllRows, Rows
<1>4. CASE ~(IsChild(c) /\ c[1] \in found)
  BY <1>4 DEF InPlaceOf, IsChild
<1> QED BY <1>3, <1>4

\* A row that is not there yet is added last.
LEMMA TakeKeeps ==
  ASSUME NEW rows \in Seq(AllRows), NEW r \in AllRows, NEW found,
         Apart(rows), NoChildOf(found, rows), r[1] \in found => r[2] = 0
  PROVE  /\ Take(rows, r) \in Seq(AllRows)
         /\ Apart(Take(rows, r)) /\ NoChildOf(found, Take(rows, r))
<1>1. CASE Contains(rows, r)
  BY <1>1 DEF Take
<1>2. CASE ~Contains(rows, r)
  <2>1. Take(rows, r) = Append(rows, r) /\ Len(rows) \in Nat /\ DOMAIN rows = 1..Len(rows)
    BY <1>2, LenProperties DEF Take
  <2>2. /\ Append(rows, r) \in Seq(AllRows) /\ Len(Append(rows, r)) = Len(rows) + 1
        /\ \A i \in 1..Len(rows) : Append(rows, r)[i] = rows[i]
        /\ Append(rows, r)[Len(rows) + 1] = r
    BY AppendProperties
  <2> DEFINE more == Append(rows, r)
  <2>3. DOMAIN more = 1..(Len(rows) + 1)
    BY <2>2, LenProperties
  <2> HIDE DEF more
  <2>4. \A i \in 1..Len(rows) : rows[i] # r
    BY <1>2 DEF Contains
  <2>5. \A i \in DOMAIN more : (i \in 1..Len(rows) /\ more[i] = rows[i]) \/ (i = Len(rows) + 1 /\ more[i] = r)
    <3>1. \A i \in 1..(Len(rows) + 1) : i \in 1..Len(rows) \/ i = Len(rows) + 1
      BY <2>1
    <3> QED BY <2>2, <2>3, <3>1 DEF more
  <2>6. Apart(more)
    BY <2>1, <2>4, <2>5 DEF Apart
  <2>7. NoChildOf(found, more)
    BY <2>1, <2>5 DEF NoChildOf
  <2> QED BY <2>1, <2>2, <2>6, <2>7 DEF more
<1> QED BY <1>1, <1>2

\* What is resolved holds no row twice, and no child of a parent that is found.
LEMMA ResolvedOnce ==
  ASSUME NEW s \in Seq(AllRows), NEW found
  PROVE  /\ Resolved(s, found) \in Seq(AllRows)
         /\ Apart(Resolved(s, found)) /\ NoChildOf(found, Resolved(s, found))
<1> DEFINE taken == Taken(s, found)
           Good(rows) == rows \in Seq(AllRows) /\ Apart(rows) /\ NoChildOf(found, rows)
           Bad == {n \in 0..Len(s) : ~Good(taken[n])}
<1>1. Len(s) \in Nat /\ \A n \in 1..Len(s) : s[n] \in AllRows
  BY LenProperties, ElementOfSeq
<1>2. \A n \in 0..Len(s) :
        taken[n] = IF n = 0 THEN <<>> ELSE Take(taken[n - 1], InPlaceOf(s[n], found))
  BY <1>1, TakenExists DEF TakenUpTo
<1> HIDE DEF taken
<1>3. Bad = {}
  <2> SUFFICES ASSUME Bad # {} PROVE FALSE
    OBVIOUS
  <2>1. PICK m \in Bad : \A n \in Bad : ~(<<n, m>> \in OpToRel(<, Nat))
    <3>1. Bad \subseteq Nat
      BY <1>1
    <3> QED BY <3>1, NatLessThanWellFounded, WFMin
  <2>2. \A n \in Bad : ~(n < m)
    <3>1. m \in Nat /\ \A n \in Bad : n \in Nat
      BY <1>1
    <3> HIDE DEF Bad
    <3> QED BY <2>1, <3>1 DEF OpToRel
  <2>3. m # 0
    <3>1. Good(<<>>)
      BY EmptySeq DEF Apart, NoChildOf
    <3> QED BY <1>1, <1>2, <3>1
  <2>4. m \in 1..Len(s) /\ m - 1 \in 0..Len(s) /\ m - 1 < m
    BY <1>1, <2>3
  <2>5. Good(taken[m - 1])
    BY <2>2, <2>4
  <2>6. taken[m] = Take(taken[m - 1], InPlaceOf(s[m], found))
    BY <1>2, <2>3, <2>4
  <2>7. /\ InPlaceOf(s[m], found) \in AllRows
        /\ InPlaceOf(s[m], found)[1] \in found => InPlaceOf(s[m], found)[2] = 0
    BY <1>1, <2>4, InPlaceOfIs
  <2>8. Good(taken[m])
    BY <2>5, <2>6, <2>7, TakeKeeps
  <2> QED BY <2>8
<1>4. Good(taken[Len(s)])
  BY <1>1, <1>3
<1> QED BY <1>4, ResolvedIsTaken DEF taken

(***************************************************************************)
(* What may be chosen is a sequence of rows.                               *)
(***************************************************************************)
LEMMA ElementsAreFinite ==
  ASSUME NEW S, NEW s \in Seq(S)
  PROVE  IsFiniteSet(ToSet(s)) /\ ToSet(s) \subseteq S
<1>1. Len(s) \in Nat /\ s \in [1..Len(s) -> S] /\ DOMAIN s = 1..Len(s)
  BY LenProperties
<1>2. IsFiniteSet(1..Len(s))
  BY <1>1, FS_Interval
<1>3. s \in Surjection(1..Len(s), ToSet(s))
  BY <1>1 DEF Surjection, ToSet
<1>4. IsFiniteSet(ToSet(s))
  BY <1>2, <1>3, FS_Surjection
<1> QED BY <1>1, <1>4 DEF ToSet

LEMMA BoundedSeqIs ==
  ASSUME NEW S, NEW n \in Nat, NEW s \in BoundedSeq(S, n)
  PROVE  s \in Seq(S)
<1>1. PICK m \in 0..n : s \in [1..m -> S]
  BY DEF BoundedSeq, SeqOf
<1> QED BY <1>1, SeqDef

LEMMA OrdersOf ==
  ASSUME NEW R, NEW S, IsFiniteSet(S), S \subseteq R, NEW s \in SetToSeqs(S)
  PROVE  s \in Seq(R)
<1>1. Cardinality(S) \in Nat
  BY FS_CardinalityType
<1>2. s \in [1..Cardinality(S) -> R]
  BY DEF SetToSeqs
<1> QED BY <1>1, <1>2, SeqDef

LEMMA SearchIs ==
  ASSUME NEW passages, passages \subseteq Passages, NEW s \in Searches(passages)
  PROVE  s \in Seq(AllRows)
<1>1. MaxHits \in Nat
  BY CutsAreNat
<1>2. s \in BoundedSeq(Rows(passages), MaxHits)
  BY DEF Searches
<1>3. s \in Seq(Rows(passages))
  BY <1>1, <1>2, BoundedSeqIs
<1>4. Rows(passages) \subseteq AllRows
  BY DEF Rows, AllRows
<1> QED BY <1>3, <1>4, SeqMonotonic

LEMMA FusedIs ==
  ASSUME NEW own, own \subseteq Passages, NEW others, others \subseteq Passages,
         NEW s \in Fused(own, others)
  PROVE  s \in Seq(AllRows)
<1>1. PICK hits \in BoundedSeq(Searches(own), MaxVectors), other \in Searches(others) :
        s \in Ranked(Merged(hits, other))
  BY DEF Fused
<1>2. hits \in Seq(Searches(own))
  BY <1>1, CutsAreNat, BoundedSeqIs
<1>3. \A i \in DOMAIN hits : hits[i] \in Searches(own)
  BY <1>2, LenProperties, ElementOfSeq
<1>4. \A i \in DOMAIN hits : IsFiniteSet(ToSet(hits[i])) /\ ToSet(hits[i]) \subseteq AllRows
  BY <1>3, SearchIs, ElementsAreFinite
<1>5. IsFiniteSet(Candidates(hits)) /\ Candidates(hits) \subseteq AllRows
  <2> DEFINE all == {ToSet(hits[i]) : i \in DOMAIN hits}
             f   == [i \in DOMAIN hits |-> ToSet(hits[i])]
  <2>1. DOMAIN hits = 1..Len(hits) /\ Len(hits) \in Nat
    BY <1>2, LenProperties
  <2>2. IsFiniteSet(DOMAIN hits)
    BY <2>1, FS_Interval
  <2>3. f \in Surjection(DOMAIN hits, all)
    BY DEF Surjection
  <2>4. IsFiniteSet(all)
    BY <2>2, <2>3, FS_Surjection
  <2>5. \A T \in all : IsFiniteSet(T) /\ T \subseteq AllRows
    BY <1>4
  <2> HIDE DEF f
  <2>6. Candidates(hits) = UNION all
    BY DEF Candidates
  <2> HIDE DEF all
  <2>7. IsFiniteSet(UNION all)
    BY <2>4, <2>5, FS_UNION
  <2> QED BY <2>5, <2>6, <2>7
<1>6. other \in Seq(AllRows) /\ <<>> \in Seq(AllRows)
  BY <1>1, SearchIs, EmptySeq
<1>7. \A o \in Seq(AllRows) : IsFiniteSet(DOMAIN Fallback(hits, o)) /\ DOMAIN Fallback(hits, o) \subseteq AllRows
  <2> SUFFICES ASSUME NEW o \in Seq(AllRows)
               PROVE  IsFiniteSet(DOMAIN Fallback(hits, o)) /\ DOMAIN Fallback(hits, o) \subseteq AllRows
    OBVIOUS
  <2>1. DOMAIN Fallback(hits, o) = Candidates(hits) \cup ToSet(o)
    BY DEF Fallback
  <2>2. IsFiniteSet(ToSet(o)) /\ ToSet(o) \subseteq AllRows
    BY ElementsAreFinite
  <2>3. IsFiniteSet(Candidates(hits) \cup ToSet(o))
    BY <1>5, <2>2, FS_Union
  <2> QED BY <1>5, <2>1, <2>2, <2>3, Zenon
<1>8. IsFiniteSet(DOMAIN Merged(hits, other)) /\ DOMAIN Merged(hits, other) \subseteq AllRows
  BY <1>6, <1>7 DEF Merged
<1>9. s \in SetToSeqs(DOMAIN Merged(hits, other))
  BY <1>1 DEF Ranked
<1> QED BY <1>8, <1>9, OrdersOf

LEMMA PrefixIs ==
  ASSUME NEW S, NEW s \in Seq(S), NEW n \in 0..Len(s)
  PROVE  /\ SubSeq(s, 1, n) \in Seq(S) /\ Len(SubSeq(s, 1, n)) = n
         /\ \A i \in 1..n : SubSeq(s, 1, n)[i] = s[i]
<1>1. Len(s) \in Nat /\ \A i \in 1..n : s[i] \in S
  BY LenProperties, ElementOfSeq
<1>2. /\ SubSeq(s, 1, n) \in Seq(S)
      /\ Len(SubSeq(s, 1, n)) = IF 1 <= n THEN n - 1 + 1 ELSE 0
      /\ \A i \in 1..n - 1 + 1 : SubSeq(s, 1, n)[i] = s[1 + i - 1]
  BY <1>1, SubSeqProperties
<1> QED BY <1>1, <1>2

LEMMA RerankedIs ==
  ASSUME NEW own, own \subseteq Passages, NEW others, others \subseteq Passages,
         NEW s \in Reranked(own, others)
  PROVE  s \in Seq(AllRows)
<1>1. PICK t \in Fused(own, others) : s \in SetToSeqs(ToSet(Best(t, RerankTopN)))
  BY DEF Reranked
<1>2. t \in Seq(AllRows) /\ Len(t) \in Nat /\ RerankTopN \in Nat
  BY FusedIs, LenProperties, CutsAreNat
<1>3. PICK n \in 0..Len(t) : Best(t, RerankTopN) = SubSeq(t, 1, n)
  BY <1>2 DEF Best
<1>4. Best(t, RerankTopN) \in Seq(AllRows)
  BY <1>2, <1>3, PrefixIs
<1> QED BY <1>1, <1>4, ElementsAreFinite, OrdersOf

LEMMA MmrSelectIs ==
  ASSUME NEW s \in Seq(AllRows), NEW t \in MmrSelect(s)
  PROVE  t \in Seq(AllRows)
<1>1. CASE Len(s) <= FinalK
  BY <1>1 DEF MmrSelect
<1>2. CASE ~(Len(s) <= FinalK)
  <2>1. t \in [1..FinalK -> ToSet(s)] /\ FinalK \in Nat
    BY <1>2, CutsAreNat DEF MmrSelect, TupleOf
  <2>2. ToSet(s) \subseteq AllRows
    BY ElementsAreFinite
  <2>3. t \in [1..FinalK -> AllRows]
    BY <2>1, <2>2
  <2> QED BY <2>1, <2>3, SeqDef
<1> QED BY <1>1, <1>2

(***************************************************************************)
(* Moving the lower half up and cutting at the budget.                     *)
(***************************************************************************)
LEMMA MiddleMoved ==
  ASSUME NEW S, NEW s \in Seq(S), NEW mid \in Nat, 2 <= mid, mid < Len(s)
  PROVE  LET t == <<s[1]>> \o SubSeq(s, mid + 1, Len(s)) \o SubSeq(s, 2, mid)
         IN  /\ t \in Seq(S) /\ Len(t) = Len(s)
             /\ \A i \in 1..Len(s) :
                  t[i] = s[IF i = 1 THEN 1
                           ELSE IF i <= Len(s) - mid + 1 THEN mid + i - 1
                           ELSE i - (Len(s) - mid)]
<1>1. Len(s) \in Nat /\ \A i \in 1..Len(s) : s[i] \in S
  BY LenProperties, ElementOfSeq
<1> DEFINE first == <<s[1]>>
           lower == SubSeq(s, mid + 1, Len(s))
           upper == SubSeq(s, 2, mid)
           two   == first \o lower
           t     == two \o upper
<1>2. first \in Seq(S) /\ Len(first) = 1 /\ first[1] = s[1]
  BY <1>1
<1>3. /\ lower \in Seq(S) /\ Len(lower) = Len(s) - mid
      /\ \A i \in 1..(Len(s) - mid) : lower[i] = s[mid + i]
  <2>1. mid + 1 \in Int /\ Len(s) \in Int /\ \A i \in (mid + 1)..Len(s) : s[i] \in S
    BY <1>1
  <2>2. /\ lower \in Seq(S)
        /\ Len(lower) = IF mid + 1 <= Len(s) THEN Len(s) - (mid + 1) + 1 ELSE 0
        /\ \A i \in 1..(Len(s) - (mid + 1) + 1) : lower[i] = s[mid + 1 + i - 1]
    BY <2>1, SubSeqProperties
  <2> HIDE DEF lower
  <2>3. Len(lower) = Len(s) - mid
    <3>1. mid + 1 <= Len(s) /\ Len(s) - (mid + 1) + 1 = Len(s) - mid
      BY <1>1
    <3> QED BY <2>2, <3>1, Zenon
  <2>4. ASSUME NEW i \in 1..(Len(s) - mid) PROVE lower[i] = s[mid + i]
    <3>1. i \in 1..(Len(s) - (mid + 1) + 1) /\ mid + 1 + i - 1 = mid + i
      BY <1>1
    <3> QED BY <2>2, <3>1
  <2> QED BY <2>2, <2>3, <2>4
<1>4. /\ upper \in Seq(S) /\ Len(upper) = mid - 1
      /\ \A i \in 1..(mid - 1) : upper[i] = s[i + 1]
  <2>1. 2 \in Int /\ mid \in Int /\ \A i \in 2..mid : s[i] \in S
    BY <1>1
  <2>2. /\ upper \in Seq(S)
        /\ Len(upper) = IF 2 <= mid THEN mid - 2 + 1 ELSE 0
        /\ \A i \in 1..(mid - 2 + 1) : upper[i] = s[2 + i - 1]
    BY <2>1, SubSeqProperties
  <2> HIDE DEF upper
  <2>3. Len(upper) = mid - 1
    BY <1>1, <2>2
  <2>4. ASSUME NEW i \in 1..(mid - 1) PROVE upper[i] = s[i + 1]
    <3>1. i \in 1..(mid - 2 + 1) /\ 2 + i - 1 = i + 1
      BY <1>1
    <3> QED BY <2>2, <3>1
  <2> QED BY <2>2, <2>3, <2>4
<1> HIDE DEF first, lower, upper
<1>5. /\ two \in Seq(S) /\ Len(two) = Len(first) + Len(lower)
      /\ \A i \in 1..Len(first) + Len(lower) :
           two[i] = IF i <= Len(first) THEN first[i] ELSE lower[i - Len(first)]
  BY <1>2, <1>3, ConcatProperties
<1> HIDE DEF two
<1>6. /\ two \in Seq(S) /\ Len(two) = Len(s) - mid + 1
      /\ \A i \in 1..(Len(s) - mid + 1) : two[i] = s[IF i = 1 THEN 1 ELSE mid + i - 1]
  <2>1. Len(two) = Len(s) - mid + 1
    BY <1>1, <1>2, <1>3, <1>5
  <2>2. ASSUME NEW i \in 1..(Len(s) - mid + 1)
        PROVE  two[i] = s[IF i = 1 THEN 1 ELSE mid + i - 1]
    <3>1. CASE i = 1
      BY <1>1, <1>2, <1>3, <1>5, <3>1
    <3>2. CASE i # 1
      <4>1. i - 1 \in 1..(Len(s) - mid) /\ ~(i <= 1) /\ i \in 1..Len(first) + Len(lower)
        BY <1>1, <1>2, <1>3, <3>2
      <4>2. two[i] = lower[i - 1]
        BY <1>2, <1>5, <4>1
      <4>3. lower[i - 1] = s[mid + (i - 1)] /\ mid + (i - 1) = mid + i - 1
        BY <1>1, <1>3, <4>1
      <4> QED BY <3>2, <4>2, <4>3
    <3> QED BY <3>1, <3>2
  <2> QED BY <1>5, <2>1, <2>2
<1>7. /\ t \in Seq(S) /\ Len(t) = Len(two) + Len(upper)
      /\ \A i \in 1..Len(two) + Len(upper) :
           t[i] = IF i <= Len(two) THEN two[i] ELSE upper[i - Len(two)]
  BY <1>4, <1>6, ConcatProperties
<1> HIDE DEF t
<1>8. Len(t) = Len(s)
  BY <1>1, <1>4, <1>6, <1>7
<1>9. ASSUME NEW i \in 1..Len(s)
      PROVE  t[i] = s[IF i = 1 THEN 1 ELSE IF i <= Len(s) - mid + 1 THEN mid + i - 1
                      ELSE i - (Len(s) - mid)]
  <2>1. i \in 1..Len(two) + Len(upper)
    BY <1>7, <1>8
  <2>2. CASE i <= Len(s) - mid + 1
    <3>1. t[i] = two[i] /\ i \in 1..(Len(s) - mid + 1)
      BY <1>1, <1>6, <1>7, <2>1, <2>2
    <3> QED BY <1>6, <2>2, <3>1
  <2>3. CASE ~(i <= Len(s) - mid + 1)
    <3>1. /\ i - (Len(s) - mid + 1) \in 1..(mid - 1) /\ i # 1
          /\ i - (Len(s) - mid + 1) + 1 = i - (Len(s) - mid)
      BY <1>1, <2>3
    <3>2. t[i] = upper[i - (Len(s) - mid + 1)]
      BY <1>6, <1>7, <2>1, <2>3
    <3> QED BY <1>4, <2>3, <3>1, <3>2
  <2> QED BY <2>2, <2>3
<1> QED BY <1>7, <1>8, <1>9 DEF t, two, first, lower, upper

LEMMA LostInMiddleKeeps ==
  ASSUME NEW rows \in Seq(AllRows), Apart(rows), NEW found, NoChildOf(found, rows)
  PROVE  /\ LostInMiddle(rows) \in Seq(AllRows) /\ Len(LostInMiddle(rows)) = Len(rows)
         /\ Apart(LostInMiddle(rows)) /\ NoChildOf(found, LostInMiddle(rows))
<1> DEFINE mid == Len(rows) \div 2
           t   == LostInMiddle(rows)
<1>1. Len(rows) \in Nat /\ DOMAIN rows = 1..Len(rows) /\ mid \in Nat
      /\ 2 * mid <= Len(rows)
  BY LenProperties
<1>2. CASE mid < 2
  BY <1>2 DEF LostInMiddle
<1>3. CASE ~(mid < 2)
  <2> DEFINE p(i) == IF i = 1 THEN 1
                     ELSE IF i <= Len(rows) - mid + 1 THEN mid + i - 1
                     ELSE i - (Len(rows) - mid)
  <2>1. t = <<rows[1]>> \o SubSeq(rows, mid + 1, Len(rows)) \o SubSeq(rows, 2, mid) /\ mid >= 2
    <3>1. t = <<rows[1]>> \o SubSeq(rows, mid + 1, Len(rows)) \o SubSeq(rows, 2, mid)
      BY <1>3, Zenon DEF LostInMiddle
    <3> HIDE DEF mid, t
    <3> QED BY <1>1, <1>3, <3>1
  <2> HIDE DEF t
  <2>2. /\ t \in Seq(AllRows) /\ Len(t) = Len(rows)
        /\ \A i \in 1..Len(rows) : t[i] = rows[p(i)]
    <3>1. mid \in Nat /\ 2 <= mid /\ mid < Len(rows)
      BY <1>1, <2>1
    <3> HIDE DEF mid
    <3> QED BY <2>1, <3>1, MiddleMoved
  <2>3. DOMAIN t = 1..Len(rows)
    BY <2>2, LenProperties
  <2> HIDE DEF mid
  <2>4. \A i \in 1..Len(rows) : p(i) \in 1..Len(rows)
    BY <1>1, <2>1
  <2>5. \A i, j \in 1..Len(rows) : i # j => p(i) # p(j)
    BY <1>1, <2>1
  <2> HIDE DEF p
  <2>6. Apart(t)
    BY <1>1, <2>2, <2>3, <2>4, <2>5 DEF Apart
  <2>7. NoChildOf(found, t)
    BY <1>1, <2>2, <2>3, <2>4 DEF NoChildOf
  <2> QED BY <2>2, <2>6, <2>7 DEF t
<1> QED BY <1>2, <1>3

\* No passage is in a prompt twice.
LEMMA PromptsHoldOnce ==
  ASSUME NEW lang \in Languages, NEW path \in {"fast", "full"}, NEW found \in SUBSET Passages,
         NEW result \in Results[lang][path][found] \ {<<>>}, NEW chunks \in InPrompt(result)
  PROVE  LET context == [chunks |-> chunks, found |-> found \cap Of(chunks)]
         IN  context \in Contexts /\ OnceEach(context)
<1>1. Own(lang) \subseteq Passages /\ Others(lang) \subseteq Passages
  BY DEF Own, Others, Passages
<1>2. result \in Retrieved(path, Own(lang), Others(lang), found) \ {<<>>}
  BY DEF Results
<1>3. PICK s \in Reranked(Own(lang), Others(lang)) :
        \E t \in MmrSelect(s) : result = Resolved(t, found)
  BY <1>2 DEF Retrieved
<1>4. PICK t \in MmrSelect(s) : result = Resolved(t, found)
  BY <1>3
<1>5. t \in Seq(AllRows)
  BY <1>1, <1>3, <1>4, RerankedIs, MmrSelectIs
<1>6. result \in Seq(AllRows) /\ Apart(result) /\ NoChildOf(found, result)
  BY <1>4, <1>5, ResolvedOnce
<1> DEFINE moved == LostInMiddle(result)
<1>7. /\ moved \in Seq(AllRows) /\ Len(moved) = Len(result)
      /\ Apart(moved) /\ NoChildOf(found, moved)
  BY <1>6, LostInMiddleKeeps
<1>8. PICK n \in 0..Len(moved) : chunks = SubSeq(moved, 1, n)
  BY <1>7 DEF InPrompt
<1> HIDE DEF moved
<1>9. /\ chunks \in Seq(AllRows) /\ DOMAIN chunks = 1..n
      /\ \A i \in 1..n : chunks[i] = moved[i] /\ i \in DOMAIN moved
  <2>1. DOMAIN moved = 1..Len(moved) /\ Len(moved) \in Nat
    BY <1>7, LenProperties
  <2>2. /\ chunks \in Seq(AllRows) /\ Len(chunks) = n
        /\ \A i \in 1..n : chunks[i] = moved[i]
    BY <1>7, <1>8, PrefixIs
  <2>3. DOMAIN chunks = 1..n
    BY <2>2, LenProperties
  <2>4. \A i \in 1..n : i \in 1..Len(moved)
    BY <1>8, <2>1
  <2> QED BY <2>1, <2>2, <2>3, <2>4
<1>10. ASSUME NEW i \in 1..n, NEW j \in 1..n, i # j
       PROVE  /\ chunks[i] # chunks[j]
              /\ chunks[i][1] \in found => chunks[i][1] # chunks[j][1]
  <2>1. chunks[i] # chunks[j]
    BY <1>7, <1>9, <1>10 DEF Apart
  <2>2. ASSUME chunks[i][1] \in found, chunks[i][1] = chunks[j][1]
        PROVE  FALSE
    <3>1. chunks[i][2] = 0 /\ chunks[j][2] = 0
      BY <1>7, <1>9, <2>2 DEF NoChildOf
    <3>2. chunks[i] \in Passages \X (0..Children) /\ chunks[j] \in Passages \X (0..Children)
      BY <1>9, ElementOfSeq, LenProperties DEF AllRows, Rows
    <3>3. \A c \in Passages \X (0..Children) : c = <<c[1], c[2]>>
      OBVIOUS
    <3>4. chunks[i] = <<chunks[i][1], 0>> /\ chunks[j] = <<chunks[j][1], 0>>
      BY <3>1, <3>2, <3>3, Zenon
    <3>5. chunks[i] = chunks[j]
      BY <2>2, <3>4, Zenon
    <3> QED BY <2>1, <3>5
  <2> QED BY <2>1, <2>2
<1> DEFINE context == [chunks |-> chunks, found |-> found \cap Of(chunks)]
<1>11. context \in Contexts
  BY <1>9 DEF Contexts, AllRows
<1>12. OnceEach(context)
  BY <1>9, <1>10 DEF OnceEach
<1> QED BY <1>11, <1>12

-----------------------------------------------------------------------------
(***************************************************************************)
(* 6. The session of the widget.                                           *)
(***************************************************************************)
ChatTurns == TurnsAbout(Nat)
Blobs     == [there : {TRUE}, token : BOOLEAN, mode : Modes, lang : Languages,
              phase : Phases, turns : Seq(ChatTurns)]

Outside == {"connecting", "accepting", "closed"}
Inside  == {"open", "asking", "writing question", "retrieving", "answering", "answered",
            "writing answer", "recorded", "writing phase"}
Writing == {"accepting", "writing question", "writing answer", "writing phase"}
Replying == {"retrieving", "answering", "answered", "writing answer"}

Handlers == [at : Outside \cup Inside, session : Blobs \cup {NoSession},
             data : Blobs \cup {NoSession}, query : Nat, context : Contexts]

ChatTypeOK ==
  /\ session \in Blobs \cup {NoSession}
  /\ socket \in [Sockets -> Handlers]
  /\ asked \in Nat
  /\ admitted \subseteq Sockets /\ IsFiniteSet(admitted)
  /\ late \subseteq Sockets
  /\ said \in Seq(ChatTurns)

\* Who is inside was accepted, who is still outside comes in time; what is
\* about to be written holds no token.
InOrder(s, h) ==
  /\ h.at \in {"connecting", "accepting"} => s \notin admitted \cup late
  /\ h.at \in Inside => s \in admitted
  /\ h.at \in Writing => h.data \in Blobs /\ ~h.data.token
  /\ h.at = "retrieving" => h.session \in Blobs

TokenSpent == admitted # {} /\ session.there => ~session.token

OpensOnce ==
  /\ ChatTypeOK
  /\ TokenSpent
  /\ AcceptanceSpendsToken
  /\ \A s \in Sockets : InOrder(s, socket[s])

\* While one WebSocket at most was accepted: what a handler is about to write
\* continues what was written, and it answers the last question.
Lone == \A s, t \in admitted : s = t

Continues(h) ==
  /\ (h.at = "accepting" /\ admitted = {}) \/ h.at = "writing phase" =>
       h.data.turns = LastTurns(said, KeptTurns)
  /\ h.at = "writing question" =>
       h.data.turns = LastTurns(Append(said, User(h.query)), KeptTurns)
  /\ h.at = "writing answer" =>
       h.data.turns = LastTurns(Append(said, Assistant(h.query)), KeptTurns)
  /\ h.at \in Replying => said # <<>> /\ said[Len(said)] = User(h.query)

LastWritten ==
  /\ RepliesFollow(said)
  /\ session.there => session.turns = LastTurns(said, KeptTurns)
  /\ admitted = {} => said = <<>>

TurnsKept == Lone => LastWritten /\ \A s \in Sockets : Continues(socket[s])

LEMMA BlobTurns ==
  ASSUME NEW b \in Blobs
  PROVE  /\ b.there /\ b.turns \in Seq(ChatTurns) /\ b.phase \in Phases
         /\ WithoutToken(b) \in Blobs /\ ~WithoutToken(b).token /\ WithoutToken(b).turns = b.turns
         /\ \A new \in Phases : /\ [b EXCEPT !.phase = new] \in Blobs
                               /\ [b EXCEPT !.phase = new].token = b.token
                               /\ [b EXCEPT !.phase = new].turns = b.turns
  BY DEF Blobs, WithoutToken

LEMMA AppendedIs ==
  ASSUME session \in Blobs, NEW turn \in ChatTurns
  PROVE  /\ Appended(turn) \in Blobs /\ Appended(turn).token = session.token
         /\ Appended(turn).turns = LastTurns(Append(session.turns, turn), KeptTurns)
<1>1. session.turns \in Seq(ChatTurns)
  BY DEF Blobs
<1>2. Append(session.turns, turn) \in Seq(ChatTurns)
  BY <1>1, AppendProperties
<1>3. LastTurns(Append(session.turns, turn), KeptTurns) \in Seq(ChatTurns)
  BY <1>2, KeptTurnsIsNat, LastTurnsElements
<1> QED BY <1>3 DEF Blobs, Appended

LEMMA TurnIs ==
  ASSUME NEW q \in Nat
  PROVE  /\ User(q) \in ChatTurns /\ User(q).role = "user" /\ User(q).of = q
         /\ Assistant(q) \in ChatTurns /\ Assistant(q).role = "assistant" /\ Assistant(q).of = q
  BY DEF ChatTurns, TurnsAbout, User, Assistant

LEMMA Openings ==
  /\ NoContext \in Contexts
  /\ Waiting \in Handlers /\ Ready \in Handlers
  /\ Waiting.at = "connecting" /\ Ready.at = "open"
  /\ [Waiting EXCEPT !.at = "closed"] \in Handlers
  /\ [Waiting EXCEPT !.at = "closed"].at = "closed"
<1>1. NoContext \in Contexts
  BY EmptySeq DEF NoContext, Contexts
<1> QED BY <1>1 DEF Waiting, Ready, Handlers, Outside, Inside

\* A handler moves on and writes nothing.
LEMMA MoveOpensOnce ==
  ASSUME OpensOnce, NEW s \in Sockets, NEW h \in Handlers, Set(s, h), InOrder(s, h),
         UNCHANGED <<session, admitted, late, said>>, asked' \in Nat
  PROVE  OpensOnce'
<1>1. ChatTypeOK' /\ TokenSpent' /\ AcceptanceSpendsToken'
  BY DEF OpensOnce, ChatTypeOK, TokenSpent, AcceptanceSpendsToken, Set
<1>2. \A t \in Sockets : socket'[t] = IF t = s THEN h ELSE socket[t]
  BY DEF OpensOnce, ChatTypeOK, Set
<1>3. \A t \in Sockets : InOrder(t, socket[t])'
  BY <1>2 DEF OpensOnce, InOrder
<1> QED BY <1>1, <1>3 DEF OpensOnce

\* A handler writes what it holds, and is inside after it.
LEMMA WriteOpensOnce ==
  ASSUME OpensOnce, NEW s \in Sockets, NEW h \in Handlers, Set(s, h), InOrder(s, h),
         socket[s].at \in Writing, session' = socket[s].data,
         said' \in Seq(ChatTurns), UNCHANGED <<admitted, late, asked>>
  PROVE  OpensOnce'
<1>1. session' \in Blobs /\ ~session'.token
  BY DEF OpensOnce, InOrder
<1>2. ChatTypeOK' /\ TokenSpent' /\ AcceptanceSpendsToken'
  BY <1>1 DEF OpensOnce, ChatTypeOK, TokenSpent, AcceptanceSpendsToken, Set
<1>3. \A t \in Sockets : socket'[t] = IF t = s THEN h ELSE socket[t]
  BY DEF OpensOnce, ChatTypeOK, Set
<1>4. \A t \in Sockets : InOrder(t, socket[t])'
  BY <1>3 DEF OpensOnce, InOrder
<1> QED BY <1>2, <1>4 DEF OpensOnce

LEMMA ConnectsOpensOnce ==
  ASSUME OpensOnce, NEW s \in Sockets, Connects(s)
  PROVE  OpensOnce'
<1> DEFINE h == IF session.there /\ session.token
                THEN [socket[s] EXCEPT !.at = "accepting", !.data = WithoutToken(session)]
                ELSE [Waiting EXCEPT !.at = "closed"]
<1>1. /\ socket[s].at = "connecting" /\ socket[s] \in Handlers
      /\ s \notin admitted \cup late
      /\ Set(s, h)
      /\ UNCHANGED <<session, asked, admitted, said>>
      /\ late' = IF admitted # {} THEN late \cup {s} ELSE late
  BY DEF OpensOnce, ChatTypeOK, InOrder, Connects
<1>2. /\ h \in Handlers
      /\ h.at \in {"accepting", "closed"}
      /\ admitted # {} => h.at = "closed"
      /\ h.at = "accepting" => h.data \in Blobs /\ ~h.data.token
  <2>1. CASE session.there /\ session.token
    <3>1. session \in Blobs
      BY <2>1 DEF OpensOnce, ChatTypeOK, NoSession
    <3>2. WithoutToken(session) \in Blobs /\ ~WithoutToken(session).token
      BY <3>1, BlobTurns
    <3>3. admitted = {}
      BY <2>1 DEF OpensOnce, TokenSpent
    <3>4. h = [socket[s] EXCEPT !.at = "accepting", !.data = WithoutToken(session)]
      BY <2>1, Zenon
    <3> HIDE DEF h
    <3> QED BY <1>1, <3>2, <3>3, <3>4 DEF Handlers, Outside
  <2>2. CASE ~(session.there /\ session.token)
    <3>1. h = [Waiting EXCEPT !.at = "closed"]
      BY <2>2, Zenon
    <3> QED BY <3>1, Openings, Zenon
  <2> QED BY <2>1, <2>2
<1> HIDE DEF h
<1>3. ChatTypeOK' /\ TokenSpent' /\ AcceptanceSpendsToken'
  BY <1>1, <1>2 DEF OpensOnce, ChatTypeOK, TokenSpent, AcceptanceSpendsToken, Set
<1>4. \A t \in Sockets : socket'[t] = IF t = s THEN h ELSE socket[t]
  BY <1>1 DEF OpensOnce, ChatTypeOK, Set
<1>5. \A t \in Sockets : InOrder(t, socket[t])'
  <2>1. InOrder(s, socket[s])'
    BY <1>1, <1>2, <1>4 DEF InOrder, Writing, Inside
  <2>2. ASSUME NEW t \in Sockets \ {s} PROVE InOrder(t, socket[t])'
    BY <1>1, <1>4 DEF OpensOnce, InOrder
  <2> QED BY <2>1, <2>2
<1> QED BY <1>3, <1>5 DEF OpensOnce

LEMMA AcceptsOpensOnce ==
  ASSUME OpensOnce, NEW s \in Sockets, Accepts(s)
  PROVE  OpensOnce'
<1>1. /\ socket[s].at = "accepting" /\ s \notin late
      /\ socket[s].data \in Blobs /\ ~socket[s].data.token
  BY DEF OpensOnce, InOrder, Accepts, Writing
<1>2. /\ session' = socket[s].data /\ admitted' = admitted \cup {s}
      /\ Set(s, Ready) /\ UNCHANGED <<asked, late, said>>
  BY DEF Accepts
<1>3. IsFiniteSet(admitted')
  BY <1>2, FS_AddElement DEF OpensOnce, ChatTypeOK
<1>4. ChatTypeOK' /\ TokenSpent' /\ AcceptanceSpendsToken'
  BY <1>1, <1>2, <1>3, Openings DEF OpensOnce, ChatTypeOK, TokenSpent, AcceptanceSpendsToken, Set
<1>5. \A t \in Sockets : socket'[t] = IF t = s THEN Ready ELSE socket[t]
  BY <1>2 DEF OpensOnce, ChatTypeOK, Set
<1>6. \A t \in Sockets : InOrder(t, socket[t])'
  BY <1>2, <1>5, Openings DEF OpensOnce, InOrder, Inside, Writing
<1> QED BY <1>4, <1>6 DEF OpensOnce

\* Of a handler that stays inside, or closes.
LEMMA StaysInOrder ==
  ASSUME OpensOnce, NEW s \in Sockets, socket[s].at \in Inside, NEW h,
         h.at \in Inside \cup {"closed"},
         h.at \in Writing => h.data \in Blobs /\ ~h.data.token,
         h.at = "retrieving" => h.session \in Blobs
  PROVE  InOrder(s, h)
  BY DEF OpensOnce, InOrder, Inside

LEMMA TalkOpensOnce ==
  ASSUME OpensOnce, NEW s \in Sockets,
         Receives(s) \/ Retrieves(s) \/ Answers(s) \/ ModelFails(s)
  PROVE  OpensOnce'
<1>1. /\ socket[s] \in Handlers /\ socket[s].at \in Inside
      /\ UNCHANGED <<session, admitted, late, said>> /\ asked' \in Nat
  <2>1. socket[s] \in Handlers /\ asked \in Nat
    BY DEF OpensOnce, ChatTypeOK
  <2>2. socket[s].at \in {"open", "retrieving", "answering"}
    BY DEF Receives, Retrieves, Answers, ModelFails
  <2>3. UNCHANGED <<session, admitted, late, said>> /\ asked' \in {asked, asked + 1}
    BY DEF Receives, Retrieves, Answers, ModelFails
  <2>4. asked' \in Nat
    BY <2>1, <2>3
  <2>5. socket[s].at \in Inside
    BY <2>2 DEF Inside
  <2> QED BY <2>1, <2>3, <2>4, <2>5, Zenon
<1>2. PICK h \in Handlers : Set(s, h) /\ h.at \in {"asking", "answering", "answered", "open"}
  <2>1. CASE Receives(s)
    <3> DEFINE h == [socket[s] EXCEPT !.at = "asking", !.query = asked + 1]
    <3>1. Set(s, h)
      BY <2>1 DEF Receives
    <3>2. asked + 1 \in Nat
      BY DEF OpensOnce, ChatTypeOK
    <3>3. h \in Handlers /\ h.at = "asking"
      BY <1>1, <3>2 DEF Handlers, Inside
    <3> QED BY <3>1, <3>3, Zenon
  <2>2. CASE Retrieves(s)
    <3>1. socket[s].at = "retrieving" /\ socket[s].session \in Blobs
      BY <2>2 DEF Retrieves, OpensOnce, InOrder
    <3>2. PICK context \in Contexts : Set(s, [socket[s] EXCEPT !.at = "answering", !.context = context])
      <4>1. CASE Set(s, [socket[s] EXCEPT !.at = "answering", !.context = NoContext])
        BY <4>1, Openings
      <4>2. CASE \E path \in {"fast", "full"}, found \in SUBSET Passages :
                   \E result \in Results[socket[s].session.lang][path][found] \ {<<>>} :
                     \E chunks \in InPrompt(result) :
                       Set(s, [socket[s] EXCEPT !.at = "answering",
                                 !.context = [chunks |-> chunks, found |-> found \cap Of(chunks)]])
        <5>1. socket[s].session.lang \in Languages
          BY <3>1 DEF Blobs
        <5> QED BY <4>2, <5>1, PromptsHoldOnce
      <4> QED BY <2>2, <4>1, <4>2 DEF Retrieves
    <3> DEFINE h == [socket[s] EXCEPT !.at = "answering", !.context = context]
    <3>3. h \in Handlers /\ h.at = "answering"
      BY <1>1 DEF Handlers, Inside
    <3> QED BY <3>2, <3>3, Zenon
  <2>3. CASE Answers(s)
    <3> DEFINE h == [socket[s] EXCEPT !.at = "answered", !.context = NoContext]
    <3>1. Set(s, h)
      BY <2>3 DEF Answers
    <3>2. h \in Handlers /\ h.at = "answered"
      BY <1>1, Openings DEF Handlers, Inside
    <3> QED BY <3>1, <3>2, Zenon
  <2>4. CASE ModelFails(s)
    BY <2>4, Openings DEF ModelFails
  <2> QED BY <2>1, <2>2, <2>3, <2>4
<1>3. InOrder(s, h)
  BY <1>1, <1>2, StaysInOrder DEF Inside, Writing
<1> QED BY <1>1, <1>2, <1>3, MoveOpensOnce

LEMMA EndsOpensOnce ==
  ASSUME OpensOnce, NEW s \in Sockets, Ends(s)
  PROVE  OpensOnce'
<1>1. InOrder(s, [Waiting EXCEPT !.at = "closed"])
  BY Openings DEF InOrder, Inside, Writing
<1> QED BY <1>1, Openings, MoveOpensOnce DEF Ends, OpensOnce, ChatTypeOK

\* What append_turn read holds no token.
LEMMA ReadOpensOnce ==
  ASSUME OpensOnce, NEW s \in Sockets,
         NEW from \in Inside, NEW to \in Inside, NEW missing \in {"closed", "recorded"},
         NEW turn \in ChatTurns, to # "retrieving",
         ReadsToAppend(s, from, to, missing, turn)
  PROVE  OpensOnce'
<1>1. socket[s] \in Handlers /\ socket[s].at \in Inside /\ s \in admitted
  BY DEF OpensOnce, ChatTypeOK, InOrder, ReadsToAppend
<1>2. CASE session.there
  <2>1. session \in Blobs /\ ~session.token
    BY <1>1, <1>2 DEF OpensOnce, ChatTypeOK, TokenSpent, NoSession
  <2>2. Appended(turn) \in Blobs /\ ~Appended(turn).token
    BY <2>1, AppendedIs
  <2> DEFINE h == [socket[s] EXCEPT !.at = to, !.data = Appended(turn)]
  <2>3. h \in Handlers /\ h.at = to /\ h.data = Appended(turn)
    BY <1>1, <2>2 DEF Handlers, Inside
  <2>4. Set(s, h) /\ UNCHANGED <<session, asked, admitted, late, said>>
    BY <1>2 DEF ReadsToAppend
  <2> HIDE DEF h
  <2>5. InOrder(s, h)
    BY <1>1, <2>2, <2>3, StaysInOrder
  <2> QED BY <2>3, <2>4, <2>5, MoveOpensOnce DEF OpensOnce, ChatTypeOK
<1>3. CASE ~session.there
  <2> DEFINE h == [socket[s] EXCEPT !.at = missing]
  <2>1. h \in Handlers /\ h.at = missing
    BY <1>1 DEF Handlers, Outside, Inside
  <2>2. Set(s, h) /\ UNCHANGED <<session, asked, admitted, late, said>>
    BY <1>3 DEF ReadsToAppend
  <2> HIDE DEF h
  <2>3. InOrder(s, h)
    BY <1>1, <2>1, StaysInOrder DEF Inside, Writing
  <2> QED BY <2>1, <2>2, <2>3, MoveOpensOnce DEF OpensOnce, ChatTypeOK
<1> QED BY <1>2, <1>3

LEMMA AppendsOpensOnce ==
  ASSUME OpensOnce, NEW s \in Sockets,
         \/ ReadsForQuestion(s) \/ WritesQuestion(s)
         \/ ReadsForAnswer(s) \/ WritesAnswer(s)
  PROVE  OpensOnce'
<1>1. socket[s] \in Handlers /\ socket[s].query \in Nat
  BY DEF OpensOnce, ChatTypeOK, Handlers
<1>2. User(socket[s].query) \in ChatTurns /\ Assistant(socket[s].query) \in ChatTurns
  BY <1>1, TurnIs
<1>3. CASE ReadsForQuestion(s)
  BY <1>2, <1>3, ReadOpensOnce DEF ReadsForQuestion, Inside
<1>4. CASE ReadsForAnswer(s)
  BY <1>2, <1>4, ReadOpensOnce DEF ReadsForAnswer, Inside
<1>5. CASE WritesQuestion(s) \/ WritesAnswer(s)
  <2>1. /\ socket[s].at \in {"writing question", "writing answer"}
        /\ session' = socket[s].data
        /\ UNCHANGED <<asked, admitted, late>>
    BY <1>5 DEF WritesQuestion, WritesAnswer, Writes
  <2>2. said' \in Seq(ChatTurns)
    <3>1. PICK turn \in ChatTurns : said' = Append(said, turn)
      BY <1>2, <1>5 DEF WritesQuestion, WritesAnswer, Writes
    <3> QED BY <3>1, AppendProperties DEF OpensOnce, ChatTypeOK
  <2>3. socket[s].data \in Blobs
    BY <2>1 DEF OpensOnce, InOrder, Writing
  <2>4. PICK h \in Handlers : /\ Set(s, h) /\ h.at \in {"retrieving", "recorded"}
                              /\ h.at = "retrieving" => h.session \in Blobs
    <3>1. CASE WritesQuestion(s)
      <4> DEFINE h == [socket[s] EXCEPT !.at = "retrieving", !.session = socket[s].data,
                                        !.data = NoSession]
      <4>1. Set(s, h)
        BY <3>1 DEF WritesQuestion
      <4>2. h \in Handlers /\ h.at = "retrieving" /\ h.session \in Blobs
        BY <1>1, <2>3 DEF Handlers, Inside
      <4> QED BY <4>1, <4>2, Zenon
    <3>2. CASE WritesAnswer(s)
      <4> DEFINE h == [socket[s] EXCEPT !.at = "recorded", !.data = NoSession]
      <4>1. Set(s, h)
        BY <3>2 DEF WritesAnswer
      <4>2. h \in Handlers /\ h.at = "recorded"
        BY <1>1 DEF Handlers, Inside
      <4> QED BY <4>1, <4>2
    <3> QED BY <1>5, <3>1, <3>2
  <2>5. InOrder(s, h)
    BY <2>1, <2>4, StaysInOrder DEF Inside, Writing
  <2> QED BY <2>1, <2>2, <2>4, <2>5, WriteOpensOnce DEF Writing
<1> QED BY <1>3, <1>4, <1>5

LEMMA PhaseOpensOnce ==
  ASSUME OpensOnce, NEW s \in Sockets, ReadsPhase(s) \/ WritesPhase(s)
  PROVE  OpensOnce'
<1>1. socket[s] \in Handlers /\ socket[s].at \in Inside /\ s \in admitted
  BY DEF OpensOnce, ChatTypeOK, InOrder, ReadsPhase, WritesPhase, Inside
<1>2. InOrder(s, Ready)
  BY <1>1, Openings, StaysInOrder DEF Inside, Writing
<1>3. CASE ReadsPhase(s)
  <2>1. CASE Set(s, Ready)
    BY <1>2, <1>3, <2>1, Openings, MoveOpensOnce DEF ReadsPhase, OpensOnce, ChatTypeOK
  <2>2. CASE ~Set(s, Ready)
    <3>1. PICK new \in Phases \ {session.phase} :
            Set(s, [socket[s] EXCEPT !.at = "writing phase", !.data = [session EXCEPT !.phase = new]])
      BY <1>3, <2>2 DEF ReadsPhase, Current
    <3>2. session \in Blobs /\ ~session.token
      <4>1. session.there
        BY <1>3, <2>2 DEF ReadsPhase
      <4>2. session \in Blobs
        BY <4>1 DEF OpensOnce, ChatTypeOK, NoSession
      <4> QED BY <1>1, <4>1, <4>2 DEF OpensOnce, TokenSpent
    <3> DEFINE blob == [session EXCEPT !.phase = new]
               h    == [socket[s] EXCEPT !.at = "writing phase", !.data = blob]
    <3>3. blob \in Blobs /\ ~blob.token
      BY <3>2, BlobTurns
    <3>4. Set(s, h)
      BY <3>1
    <3> HIDE DEF blob
    <3>5. h \in Handlers /\ h.at = "writing phase" /\ h.data = blob
      BY <1>1, <3>3 DEF Handlers, Inside
    <3> HIDE DEF h
    <3>6. InOrder(s, h)
      BY <1>1, <3>3, <3>5, StaysInOrder DEF Inside
    <3>7. UNCHANGED <<session, asked, admitted, late, said>>
      BY <1>3 DEF ReadsPhase
    <3> QED BY <3>4, <3>5, <3>6, <3>7, MoveOpensOnce DEF OpensOnce, ChatTypeOK
  <2> QED BY <2>1, <2>2
<1>4. CASE WritesPhase(s)
  BY <1>2, <1>4, Openings, WriteOpensOnce DEF WritesPhase, Writing, OpensOnce, ChatTypeOK
<1> QED BY <1>3, <1>4

LEMMA StepOpensOnce ==
  ASSUME OpensOnce, [ChatNext]_chatVars
  PROVE  OpensOnce'
<1>1. CASE SessionExpires
  BY <1>1 DEF SessionExpires, OpensOnce, ChatTypeOK, TokenSpent, AcceptanceSpendsToken, InOrder, NoSession
<1>2. CASE UNCHANGED chatVars
  BY <1>2 DEF chatVars, OpensOnce, ChatTypeOK, TokenSpent, AcceptanceSpendsToken, InOrder
<1>3. ASSUME NEW s \in Sockets,
             \/ Connects(s) \/ Accepts(s) \/ Receives(s)
             \/ ReadsForQuestion(s) \/ WritesQuestion(s) \/ Retrieves(s)
             \/ Answers(s) \/ ModelFails(s) \/ Ends(s)
             \/ ReadsForAnswer(s) \/ WritesAnswer(s) \/ ReadsPhase(s) \/ WritesPhase(s)
      PROVE  OpensOnce'
  BY <1>3, ConnectsOpensOnce, AcceptsOpensOnce, TalkOpensOnce, EndsOpensOnce, AppendsOpensOnce,
     PhaseOpensOnce
<1> QED BY <1>1, <1>2, <1>3 DEF ChatNext

LEMMA InitOpensOnce == ChatInit => OpensOnce
<1> SUFFICES ASSUME ChatInit PROVE OpensOnce
  OBVIOUS
<1>1. session \in Blobs
  <2>1. PICK mode \in Modes, lang \in Languages : session = Fresh(mode, lang)
    BY DEF ChatInit
  <2>2. <<>> \in Seq(ChatTurns) /\ "GREETING" \in Phases
    BY EmptySeq DEF Phases
  <2> QED BY <2>1, <2>2 DEF Fresh, Blobs
<1>2. IsFiniteSet(admitted)
  BY FS_EmptySet DEF ChatInit
<1>3. said \in Seq(ChatTurns)
  BY EmptySeq DEF ChatInit
<1>4. \A s \in Sockets : socket[s] = Waiting /\ Waiting \in Handlers /\ Waiting.at = "connecting"
  BY Openings DEF ChatInit
<1>5. \A s \in Sockets : InOrder(s, socket[s])
  BY <1>4 DEF ChatInit, InOrder, Inside, Writing
<1> QED BY <1>1, <1>2, <1>3, <1>4, <1>5 DEF ChatInit, OpensOnce, ChatTypeOK, TokenSpent, AcceptanceSpendsToken

LEMMA OpensOnceHolds == ChatSpec => []OpensOnce
<1> QED BY InitOpensOnce, StepOpensOnce, PTL DEF ChatSpec

\* A WebSocket that is accepted spends its token: a handler that reads the
\* session after that is refused, whatever is written in between.  (Two that
\* read before either is accepted may both be: TokenIsSingleUse is refuted.)
THEOREM AcceptedSpendsToken == ChatSpec => []AcceptanceSpendsToken
<1>1. OpensOnce => AcceptanceSpendsToken
  BY DEF OpensOnce
<1> QED BY <1>1, OpensOnceHolds, PTL

\* One WebSocket at most was accepted.
LEMMA LoneIs ==
  ASSUME OpensOnce, Cardinality(admitted) <= 1
  PROVE  Lone
<1>1. IsFiniteSet(admitted)
  BY DEF OpensOnce, ChatTypeOK
<1>2. Cardinality(admitted) \in Nat
  BY <1>1, FS_CardinalityType
<1>3. Cardinality(admitted) = 0 \/ Cardinality(admitted) = 1
  BY <1>2
<1>4. admitted = {} \/ \E s : admitted = {s}
  BY <1>1, <1>3, FS_EmptySet, FS_Singleton
<1> QED BY <1>4 DEF Lone

LEMMA MoveKeepsTurns ==
  ASSUME OpensOnce, TurnsKept, NEW s \in Sockets, NEW h, Set(s, h), Lone => Continues(h),
         UNCHANGED <<session, admitted, said>>
  PROVE  TurnsKept'
<1>1. \A t \in Sockets : socket'[t] = IF t = s THEN h ELSE socket[t]
  BY DEF OpensOnce, ChatTypeOK, Set
<1>2. Lone' => Lone /\ LastWritten'
  BY DEF TurnsKept, Lone, LastWritten
<1>3. Lone => \A t \in Sockets : Continues(socket[t])'
  BY <1>1 DEF TurnsKept, Continues
<1> QED BY <1>2, <1>3 DEF TurnsKept

\* Only one handler is inside.
LEMMA WriteKeepsTurns ==
  ASSUME OpensOnce, TurnsKept, NEW s \in Sockets, NEW h, Set(s, h), socket[s].at \in Inside,
         admitted' = admitted, Lone => LastWritten' /\ Continues(h)'
  PROVE  TurnsKept'
<1>1. \A t \in Sockets : socket'[t] = IF t = s THEN h ELSE socket[t]
  BY DEF OpensOnce, ChatTypeOK, Set
<1>2. s \in admitted /\ (Lone' => Lone)
  BY DEF OpensOnce, InOrder, Lone
<1>3. ASSUME Lone, NEW t \in Sockets \ {s}
      PROVE  Continues(socket[t])'
  <2>1. socket[t].at \notin Inside
    BY <1>2, <1>3 DEF OpensOnce, InOrder, Lone
  <2>2. socket'[t] = socket[t] /\ admitted' # {}
    BY <1>1, <1>2
  <2> QED BY <2>1, <2>2 DEF Continues, Inside, Replying
<1>4. Lone => Continues(socket[s])'
  BY <1>1
<1> QED BY <1>2, <1>3, <1>4 DEF TurnsKept

LEMMA OutsideKeepsTurns ==
  ASSUME OpensOnce, TurnsKept, NEW s \in Sockets, Connects(s) \/ Accepts(s)
  PROVE  TurnsKept'
<1>1. LastTurns(<<>>, KeptTurns) = <<>>
  BY KeptTurnsIsNat, EmptySeq DEF LastTurns
<1>2. CASE Connects(s)
  <2> DEFINE h == IF session.there /\ session.token
                  THEN [socket[s] EXCEPT !.at = "accepting", !.data = WithoutToken(session)]
                  ELSE [Waiting EXCEPT !.at = "closed"]
  <2>1. Set(s, h) /\ UNCHANGED <<session, admitted, said>> /\ socket[s] \in Handlers
    BY <1>2 DEF Connects, OpensOnce, ChatTypeOK
  <2>2. Lone => Continues(h)
    <3>1. CASE session.there /\ session.token
      <4>1. session \in Blobs
        BY <3>1 DEF OpensOnce, ChatTypeOK, NoSession
      <4>2. WithoutToken(session).turns = session.turns
        BY <4>1, BlobTurns
      <4>3. h.at = "accepting" /\ h.data = WithoutToken(session)
        BY <2>1, <3>1 DEF Handlers
      <4>4. Lone => session.turns = LastTurns(said, KeptTurns)
        BY <3>1 DEF TurnsKept, LastWritten
      <4> HIDE DEF h
      <4> QED BY <4>2, <4>3, <4>4 DEF Continues, Replying
    <3>2. CASE ~(session.there /\ session.token)
      <4>1. h.at = "closed"
        BY <3>2, Openings
      <4> HIDE DEF h
      <4> QED BY <4>1 DEF Continues, Replying
    <3> QED BY <3>1, <3>2
  <2> HIDE DEF h
  <2> QED BY <2>1, <2>2, MoveKeepsTurns
<1>3. CASE Accepts(s)
  <2>1. /\ session' = socket[s].data /\ admitted' = admitted \cup {s}
        /\ Set(s, Ready) /\ UNCHANGED <<said>>
        /\ socket[s].at = "accepting" /\ s \notin admitted
    BY <1>3 DEF Accepts, OpensOnce, InOrder
  <2>2. \A t \in Sockets : socket'[t] = IF t = s THEN Ready ELSE socket[t]
    BY <2>1 DEF OpensOnce, ChatTypeOK, Set
  <2> SUFFICES ASSUME Lone' PROVE LastWritten' /\ \A t \in Sockets : Continues(socket[t])'
    BY DEF TurnsKept
  <2>3. admitted = {} /\ Lone
    BY <2>1 DEF Lone
  <2>4. said = <<>> /\ RepliesFollow(said) /\ Continues(socket[s])
    BY <2>3 DEF TurnsKept, LastWritten
  <2>5. session'.turns = LastTurns(said, KeptTurns)
    BY <2>1, <2>3, <2>4 DEF Continues
  <2>6. LastWritten'
    BY <2>1, <2>4, <2>5 DEF LastWritten
  <2>7. ASSUME NEW t \in Sockets PROVE Continues(socket[t])'
    <3>1. CASE t = s
      BY <2>2, <3>1, Openings DEF Continues, Replying
    <3>2. CASE t # s
      <4>1. socket[t].at \notin Inside
        BY <2>3 DEF OpensOnce, InOrder
      <4>2. socket'[t] = socket[t] /\ admitted' # {}
        BY <2>1, <2>2, <3>2
      <4> QED BY <4>1, <4>2 DEF Continues, Inside, Replying
    <3> QED BY <3>1, <3>2
  <2> QED BY <2>6, <2>7
<1> QED BY <1>2, <1>3

LEMMA TalkKeepsTurns ==
  ASSUME OpensOnce, TurnsKept, NEW s \in Sockets,
         Receives(s) \/ Retrieves(s) \/ Answers(s) \/ ModelFails(s) \/ Ends(s)
  PROVE  TurnsKept'
<1>1. socket[s] \in Handlers /\ UNCHANGED <<session, admitted, said>>
  BY DEF OpensOnce, ChatTypeOK, Receives, Retrieves, Answers, ModelFails, Ends
<1>2. PICK h : /\ Set(s, h) /\ h.at \in {"asking", "answering", "answered", "open", "closed"}
               /\ h.at \in Replying => socket[s].at \in Replying /\ h.query = socket[s].query
  <2>1. CASE Receives(s)
    <3> DEFINE h == [socket[s] EXCEPT !.at = "asking", !.query = asked + 1]
    <3>1. Set(s, h) /\ h.at = "asking"
      BY <1>1, <2>1 DEF Receives, Handlers
    <3> HIDE DEF h
    <3> QED BY <3>1 DEF Replying
  <2>2. CASE Retrieves(s)
    <3>1. PICK context : Set(s, [socket[s] EXCEPT !.at = "answering", !.context = context])
      BY <2>2 DEF Retrieves
    <3> DEFINE h == [socket[s] EXCEPT !.at = "answering", !.context = context]
    <3>2. h.at = "answering" /\ h.query = socket[s].query /\ socket[s].at = "retrieving"
      BY <1>1, <2>2 DEF Handlers, Retrieves
    <3> HIDE DEF h
    <3> QED BY <3>1, <3>2 DEF Replying, h
  <2>3. CASE Answers(s)
    <3> DEFINE h == [socket[s] EXCEPT !.at = "answered", !.context = NoContext]
    <3>1. Set(s, h) /\ h.at = "answered" /\ h.query = socket[s].query /\ socket[s].at = "answering"
      BY <1>1, <2>3 DEF Handlers, Answers
    <3> HIDE DEF h
    <3> QED BY <3>1 DEF Replying
  <2>4. CASE ModelFails(s)
    BY <2>4, Openings DEF ModelFails, Replying
  <2>5. CASE Ends(s)
    BY <2>5, Openings DEF Ends, Replying
  <2> QED BY <2>1, <2>2, <2>3, <2>4, <2>5
<1>3. Lone => Continues(h)
  BY <1>2 DEF TurnsKept, Continues
<1> QED BY <1>1, <1>2, <1>3, MoveKeepsTurns

LEMMA ReadKeepsTurns ==
  ASSUME OpensOnce, TurnsKept, NEW s \in Sockets, ReadsForQuestion(s) \/ ReadsForAnswer(s)
  PROVE  TurnsKept'
<1>1. /\ socket[s] \in Handlers /\ socket[s].query \in Nat /\ said \in Seq(ChatTurns)
      /\ UNCHANGED <<session, admitted, said>>
  BY DEF OpensOnce, ChatTypeOK, Handlers, ReadsForQuestion, ReadsForAnswer, ReadsToAppend
<1>2. CASE ~session.there
  <2>1. PICK missing \in {"closed", "recorded"} : Set(s, [socket[s] EXCEPT !.at = missing])
    BY <1>2 DEF ReadsForQuestion, ReadsForAnswer, ReadsToAppend
  <2> DEFINE h == [socket[s] EXCEPT !.at = missing]
  <2>2. Set(s, h) /\ h.at = missing
    BY <1>1, <2>1 DEF Handlers
  <2> HIDE DEF h
  <2>3. Continues(h)
    BY <2>2 DEF Continues, Replying
  <2> QED BY <1>1, <2>2, <2>3, MoveKeepsTurns
<1>3. CASE session.there
  <2>1. session \in Blobs
    BY <1>3 DEF OpensOnce, ChatTypeOK, NoSession
  <2>2. ASSUME NEW turn \in ChatTurns, Lone
        PROVE  Appended(turn).turns = LastTurns(Append(said, turn), KeptTurns)
    <3>1. session.turns = LastTurns(said, KeptTurns)
      BY <1>3, <2>2 DEF TurnsKept, LastWritten
    <3>2. Appended(turn).turns = LastTurns(Append(session.turns, turn), KeptTurns)
      BY <2>1, AppendedIs
    <3> QED BY <1>1, <3>1, <3>2, KeptTurnsIsNat, LastTurnsOfAppend
  <2>3. CASE ReadsForQuestion(s)
    <3> DEFINE turn == User(socket[s].query)
               h    == [socket[s] EXCEPT !.at = "writing question", !.data = Appended(turn)]
    <3>1. Set(s, h)
      BY <1>3, <2>3 DEF ReadsForQuestion, ReadsToAppend
    <3>2. h.at = "writing question" /\ h.data = Appended(turn) /\ h.query = socket[s].query
      BY <1>1 DEF Handlers
    <3> HIDE DEF h
    <3>3. Lone => h.data.turns = LastTurns(Append(said, User(h.query)), KeptTurns)
      <4>1. turn \in ChatTurns /\ turn = User(h.query)
        BY <1>1, <3>2, TurnIs
      <4> HIDE DEF turn
      <4>2. Lone => Appended(turn).turns = LastTurns(Append(said, turn), KeptTurns)
        BY <2>2, <4>1
      <4> QED BY <3>2, <4>1, <4>2, Zenon
    <3>4. Lone => Continues(h)
      BY <3>2, <3>3 DEF Continues, Replying
    <3> QED BY <1>1, <3>1, <3>4, MoveKeepsTurns
  <2>4. CASE ReadsForAnswer(s)
    <3> DEFINE turn == Assistant(socket[s].query)
               h    == [socket[s] EXCEPT !.at = "writing answer", !.data = Appended(turn)]
    <3>1. Set(s, h) /\ socket[s].at = "answered"
      BY <1>3, <2>4 DEF ReadsForAnswer, ReadsToAppend
    <3>2. h.at = "writing answer" /\ h.data = Appended(turn) /\ h.query = socket[s].query
      BY <1>1 DEF Handlers
    <3> HIDE DEF h
    <3>3. Lone => h.data.turns = LastTurns(Append(said, Assistant(h.query)), KeptTurns)
      <4>1. turn \in ChatTurns /\ turn = Assistant(h.query)
        BY <1>1, <3>2, TurnIs
      <4> HIDE DEF turn
      <4>2. Lone => Appended(turn).turns = LastTurns(Append(said, turn), KeptTurns)
        BY <2>2, <4>1
      <4> QED BY <3>2, <4>1, <4>2, Zenon
    <3>4. Lone => said # <<>> /\ said[Len(said)] = User(h.query)
      BY <3>1, <3>2 DEF TurnsKept, Continues, Replying
    <3>5. Lone => Continues(h)
      BY <3>2, <3>3, <3>4 DEF Continues, Replying
    <3> QED BY <1>1, <3>1, <3>5, MoveKeepsTurns
  <2> QED BY <2>3, <2>4
<1> QED BY <1>2, <1>3

LEMMA WriteTurnKeepsTurns ==
  ASSUME OpensOnce, TurnsKept, NEW s \in Sockets, WritesQuestion(s) \/ WritesAnswer(s)
  PROVE  TurnsKept'
<1>1. /\ socket[s] \in Handlers /\ socket[s].query \in Nat /\ said \in Seq(ChatTurns)
      /\ session' = socket[s].data /\ admitted' = admitted
      /\ socket[s].at \in Inside /\ admitted # {}
  BY DEF OpensOnce, ChatTypeOK, Handlers, InOrder, WritesQuestion, WritesAnswer, Writes, Inside
<1>2. CASE WritesQuestion(s)
  <2> DEFINE turn == User(socket[s].query)
  <2> PICK h : h = [socket[s] EXCEPT !.at = "retrieving", !.session = socket[s].data, !.data = NoSession]
    OBVIOUS
  <2>1. /\ Set(s, h) /\ said' = Append(said, turn) /\ socket[s].at = "writing question"
        /\ turn \in ChatTurns /\ turn.role = "user"
    BY <1>1, <1>2, TurnIs DEF WritesQuestion, Writes
  <2>2. h.at = "retrieving" /\ h.query = socket[s].query
    BY <1>1 DEF Handlers
  <2>3. said' # <<>> /\ said'[Len(said')] = User(h.query)
    <3>1. turn = User(h.query)
      BY <2>2
    <3> HIDE DEF turn
    <3>2. /\ Append(said, turn) # <<>> /\ Len(Append(said, turn)) = Len(said) + 1
          /\ Append(said, turn)[Len(said) + 1] = turn
      <4>1. said \in Seq(ChatTurns) /\ turn \in ChatTurns
        BY <1>1, <2>1
      <4> QED BY <4>1, AppendProperties, Zenon
    <3> QED BY <2>1, <3>1, <3>2
  <2>4. Continues(h)'
    BY <2>2, <2>3 DEF Continues, Replying
  <2>5. Lone => LastWritten'
    <3> SUFFICES ASSUME Lone PROVE LastWritten'
      OBVIOUS
    <3>1. RepliesFollow(said')
      <4>1. RepliesFollow(said)
        BY DEF TurnsKept, LastWritten
      <4> HIDE DEF turn
      <4> QED BY <1>1, <2>1, <4>1, AppendedRepliesFollow
    <3>2. session'.turns = LastTurns(said', KeptTurns)
      BY <1>1, <2>1 DEF TurnsKept, Continues
    <3> QED BY <1>1, <3>1, <3>2 DEF LastWritten
  <2> QED BY <1>1, <2>1, <2>4, <2>5, WriteKeepsTurns
<1>3. CASE WritesAnswer(s)
  <2> DEFINE turn == Assistant(socket[s].query)
  <2> PICK h : h = [socket[s] EXCEPT !.at = "recorded", !.data = NoSession]
    OBVIOUS
  <2>1. /\ Set(s, h) /\ said' = Append(said, turn) /\ socket[s].at = "writing answer"
        /\ turn \in ChatTurns /\ turn.of = socket[s].query
    BY <1>1, <1>3, TurnIs DEF WritesAnswer, Writes
  <2>2. h.at = "recorded"
    BY <1>1 DEF Handlers
  <2>3. Continues(h)'
    BY <2>2 DEF Continues, Replying
  <2>4. Lone => LastWritten'
    <3> SUFFICES ASSUME Lone PROVE LastWritten'
      OBVIOUS
    <3>1. RepliesFollow(said')
      <4>1. RepliesFollow(said) /\ said[Len(said)] = User(turn.of)
        BY <2>1 DEF TurnsKept, LastWritten, Continues, Replying
      <4> HIDE DEF turn
      <4> QED BY <1>1, <2>1, <4>1, AppendedRepliesFollow
    <3>2. session'.turns = LastTurns(said', KeptTurns)
      BY <1>1, <2>1 DEF TurnsKept, Continues
    <3> QED BY <1>1, <3>1, <3>2 DEF LastWritten
  <2> QED BY <1>1, <2>1, <2>3, <2>4, WriteKeepsTurns
<1> QED BY <1>2, <1>3

LEMMA PhaseKeepsTurns ==
  ASSUME OpensOnce, TurnsKept, NEW s \in Sockets, ReadsPhase(s) \/ WritesPhase(s)
  PROVE  TurnsKept'
<1>1. socket[s] \in Handlers /\ admitted' = admitted /\ said' = said
  BY DEF OpensOnce, ChatTypeOK, ReadsPhase, WritesPhase
<1>2. Continues(Ready)
  BY Openings DEF Continues, Replying
<1>3. CASE ReadsPhase(s)
  <2>1. session' = session
    BY <1>3 DEF ReadsPhase
  <2>2. CASE Set(s, Ready)
    BY <1>1, <1>2, <2>1, <2>2, MoveKeepsTurns
  <2>3. CASE ~Set(s, Ready)
    <3>1. PICK new \in Phases \ {session.phase} :
            Set(s, [socket[s] EXCEPT !.at = "writing phase", !.data = [session EXCEPT !.phase = new]])
      BY <1>3, <2>3 DEF ReadsPhase, Current
    <3>2. session.there
      BY <1>3, <2>3 DEF ReadsPhase
    <3>3. session \in Blobs
      BY <3>2 DEF OpensOnce, ChatTypeOK, NoSession
    <3> DEFINE blob == [session EXCEPT !.phase = new]
               h    == [socket[s] EXCEPT !.at = "writing phase", !.data = blob]
    <3>4. blob.turns = session.turns
      BY <3>3, BlobTurns
    <3>5. Set(s, h)
      BY <3>1
    <3> HIDE DEF blob
    <3>6. h.at = "writing phase" /\ h.data = blob
      BY <1>1 DEF Handlers
    <3> HIDE DEF h
    <3>7. Lone => Continues(h)
      BY <3>2, <3>4, <3>6 DEF TurnsKept, LastWritten, Continues, Replying
    <3> QED BY <1>1, <2>1, <3>5, <3>7, MoveKeepsTurns
  <2> QED BY <2>2, <2>3
<1>4. CASE WritesPhase(s)
  <2>1. /\ Set(s, Ready) /\ socket[s].at = "writing phase" /\ session' = socket[s].data
        /\ socket[s].at \in Inside
    BY <1>4 DEF WritesPhase, Inside
  <2>2. Continues(Ready)'
    BY Openings DEF Continues, Replying
  <2>3. Lone => LastWritten'
    BY <1>1, <2>1 DEF TurnsKept, LastWritten, Continues
  <2> QED BY <1>1, <2>1, <2>2, <2>3, WriteKeepsTurns
<1> QED BY <1>3, <1>4

LEMMA StepKeepsTurns ==
  ASSUME OpensOnce, TurnsKept, [ChatNext]_chatVars
  PROVE  TurnsKept'
<1>1. CASE SessionExpires
  BY <1>1 DEF SessionExpires, TurnsKept, Lone, LastWritten, Continues, NoSession
<1>2. CASE UNCHANGED chatVars
  BY <1>2 DEF chatVars, TurnsKept, Lone, LastWritten, Continues
<1>3. ASSUME NEW s \in Sockets,
             \/ Connects(s) \/ Accepts(s) \/ Receives(s)
             \/ ReadsForQuestion(s) \/ WritesQuestion(s) \/ Retrieves(s)
             \/ Answers(s) \/ ModelFails(s) \/ Ends(s)
             \/ ReadsForAnswer(s) \/ WritesAnswer(s) \/ ReadsPhase(s) \/ WritesPhase(s)
      PROVE  TurnsKept'
  BY <1>3, OutsideKeepsTurns, TalkKeepsTurns, ReadKeepsTurns, WriteTurnKeepsTurns, PhaseKeepsTurns
<1> QED BY <1>1, <1>2, <1>3 DEF ChatNext

LEMMA InitKeepsTurns == ChatInit => TurnsKept
<1> SUFFICES ASSUME ChatInit PROVE TurnsKept
  OBVIOUS
<1>1. said = <<>> /\ session.turns = <<>> /\ LastTurns(<<>>, KeptTurns) = <<>>
  BY KeptTurnsIsNat, EmptySeq DEF ChatInit, Fresh, LastTurns
<1>2. LastWritten
  BY <1>1, EmptySeq DEF LastWritten, RepliesFollow
<1>3. \A s \in Sockets : socket[s].at = "connecting"
  BY Openings DEF ChatInit
<1> QED BY <1>2, <1>3 DEF TurnsKept, Continues, Replying

\* While one WebSocket at most has been accepted a session holds the last turns
\* written, each reply after its question, whatever fails in between.
THEOREM SessionKeepsTurns == ChatSpec => []ChatIsKept
<1>1. OpensOnce /\ TurnsKept => ChatIsKept
  <2> SUFFICES ASSUME OpensOnce, TurnsKept, session.there, Cardinality(admitted) <= 1
               PROVE  /\ session.turns = LastTurns(said, KeptTurns)
                      /\ RepliesFollow(session.turns)
    BY DEF ChatIsKept
  <2>1. session.turns = LastTurns(said, KeptTurns) /\ RepliesFollow(said)
    BY LoneIs DEF TurnsKept, LastWritten
  <2> QED BY <2>1, KeptTurnsIsNat, LastRepliesFollow DEF OpensOnce, ChatTypeOK
<1>2. ChatSpec => [](OpensOnce /\ TurnsKept)
  <2>1. ChatInit => OpensOnce /\ TurnsKept
    BY InitOpensOnce, InitKeepsTurns
  <2>2. (OpensOnce /\ TurnsKept) /\ [ChatNext]_chatVars => (OpensOnce /\ TurnsKept)'
    BY StepOpensOnce, StepKeepsTurns
  <2> QED BY <2>1, <2>2, PTL DEF ChatSpec
<1> QED BY <1>1, <1>2, PTL

\* What a handler holds for its prompt came from one retrieval, or is empty.
LEMMA StepPromptsOnce ==
  ASSUME OpensOnce, NoPassageTwice, [ChatNext]_chatVars
  PROVE  NoPassageTwice'
<1>1. OnceEach(NoContext)
  BY DEF OnceEach, NoContext
<1>2. ASSUME NEW s \in Sockets, NEW h, Set(s, h), OnceEach(h.context)
      PROVE  NoPassageTwice'
  <2>1. \A t \in Sockets : socket'[t] = IF t = s THEN h ELSE socket[t]
    BY <1>2 DEF OpensOnce, ChatTypeOK, Set
  <2>2. \A t \in Sockets : OnceEach(socket[t].context)
    BY DEF NoPassageTwice, OnceEach
  <2>3. \A t \in Sockets : OnceEach(socket'[t].context)
    BY <1>2, <2>1, <2>2
  <2> QED BY <2>3 DEF NoPassageTwice, OnceEach
<1>3. ASSUME NEW s \in Sockets, NEW h, Set(s, h),
             h.context = socket[s].context \/ h.context = NoContext
      PROVE  NoPassageTwice'
  <2>1. OnceEach(socket[s].context)
    BY DEF NoPassageTwice, OnceEach
  <2> QED BY <1>1, <1>2, <1>3, <2>1
<1>4. \A s \in Sockets : socket[s] \in Handlers
  BY DEF OpensOnce, ChatTypeOK
<1>5. /\ Waiting.context = NoContext /\ Ready.context = NoContext
      /\ [Waiting EXCEPT !.at = "closed"].context = NoContext
  BY DEF Waiting, Ready
<1>6. ASSUME NEW s \in Sockets, Connects(s) PROVE NoPassageTwice'
  <2>1. PICK h : /\ h = IF session.there /\ session.token
                        THEN [socket[s] EXCEPT !.at = "accepting", !.data = WithoutToken(session)]
                        ELSE [Waiting EXCEPT !.at = "closed"]
                 /\ Set(s, h)
    BY <1>6 DEF Connects
  <2>2. h.context = socket[s].context \/ h.context = NoContext
    BY <1>4, <1>5, <2>1 DEF Handlers
  <2> QED BY <1>3, <2>1, <2>2
<1>7. ASSUME NEW s \in Sockets, NEW from, NEW to, NEW missing, NEW turn,
             ReadsToAppend(s, from, to, missing, turn)
      PROVE  NoPassageTwice'
  <2>1. PICK h : /\ h = IF session.there
                        THEN [socket[s] EXCEPT !.at = to, !.data = Appended(turn)]
                        ELSE [socket[s] EXCEPT !.at = missing]
                 /\ Set(s, h)
    BY <1>7 DEF ReadsToAppend
  <2>2. h.context = socket[s].context
    BY <1>4, <2>1 DEF Handlers
  <2> QED BY <1>3, <2>1, <2>2
<1>8. ASSUME NEW s \in Sockets, Receives(s) \/ WritesQuestion(s) \/ WritesAnswer(s)
      PROVE  NoPassageTwice'
  <2>1. PICK h : /\ \/ h = [socket[s] EXCEPT !.at = "asking", !.query = asked + 1]
                    \/ h = [socket[s] EXCEPT !.at = "retrieving", !.session = socket[s].data,
                                              !.data = NoSession]
                    \/ h = [socket[s] EXCEPT !.at = "recorded", !.data = NoSession]
                 /\ Set(s, h)
    BY <1>8 DEF Receives, WritesQuestion, WritesAnswer
  <2>2. h.context = socket[s].context
    BY <1>4, <2>1 DEF Handlers
  <2> QED BY <1>3, <2>1, <2>2
<1>9. ASSUME NEW s \in Sockets, Accepts(s) \/ ModelFails(s) \/ Ends(s) \/ WritesPhase(s)
      PROVE  NoPassageTwice'
  <2>1. PICK h \in {Ready, [Waiting EXCEPT !.at = "closed"]} : Set(s, h)
    BY <1>9 DEF Accepts, ModelFails, Ends, WritesPhase
  <2> QED BY <1>3, <1>5, <2>1
<1>10. ASSUME NEW s \in Sockets, Answers(s) PROVE NoPassageTwice'
  <2>1. PICK h : h = [socket[s] EXCEPT !.at = "answered", !.context = NoContext] /\ Set(s, h)
    BY <1>10 DEF Answers
  <2>2. h.context = NoContext
    BY <1>4, <2>1 DEF Handlers
  <2> QED BY <1>3, <2>1, <2>2
<1>11. ASSUME NEW s \in Sockets, ReadsPhase(s) PROVE NoPassageTwice'
  <2>1. PICK h : /\ Set(s, h)
                 /\ \/ h = Ready
                    \/ \E blob : h = [socket[s] EXCEPT !.at = "writing phase", !.data = blob]
    BY <1>11 DEF ReadsPhase
  <2>2. h.context = NoContext \/ h.context = socket[s].context
    BY <1>4, <1>5, <2>1 DEF Handlers
  <2> QED BY <1>3, <2>1, <2>2
<1>12. ASSUME NEW s \in Sockets, Retrieves(s) PROVE NoPassageTwice'
  <2>1. socket[s].session \in Blobs
    BY <1>12 DEF Retrieves, OpensOnce, InOrder
  <2>2. socket[s].session.lang \in Languages
    BY <2>1 DEF Blobs
  <2>3. PICK context : /\ OnceEach(context)
                       /\ Set(s, [socket[s] EXCEPT !.at = "answering", !.context = context])
    <3>1. CASE Set(s, [socket[s] EXCEPT !.at = "answering", !.context = NoContext])
      BY <1>1, <3>1
    <3>2. CASE \E path \in {"fast", "full"}, found \in SUBSET Passages :
                 \E result \in Results[socket[s].session.lang][path][found] \ {<<>>} :
                   \E chunks \in InPrompt(result) :
                     Set(s, [socket[s] EXCEPT !.at = "answering",
                               !.context = [chunks |-> chunks, found |-> found \cap Of(chunks)]])
      BY <2>2, <3>2, PromptsHoldOnce
    <3> QED BY <1>12, <3>1, <3>2 DEF Retrieves
  <2>4. PICK h : h = [socket[s] EXCEPT !.at = "answering", !.context = context]
    OBVIOUS
  <2>5. h.context = context
    BY <1>4, <2>4 DEF Handlers
  <2> QED BY <1>2, <2>3, <2>4, <2>5
<1>13. CASE UNCHANGED socket
  BY <1>13 DEF NoPassageTwice
<1>14. ASSUME NEW s \in Sockets, ReadsForQuestion(s) \/ ReadsForAnswer(s) PROVE NoPassageTwice'
  BY <1>7, <1>14 DEF ReadsForQuestion, ReadsForAnswer
<1> QED BY <1>6, <1>8, <1>9, <1>10, <1>11, <1>12, <1>13, <1>14
     DEF ChatNext, chatVars, SessionExpires

\* The model is given no passage twice, whatever is found and however it is
\* ranked, merged, chosen, resolved and cut.
THEOREM PromptsAreDistinct == ChatSpec => []NoPassageTwice
<1>1. ChatInit => NoPassageTwice
  BY DEF ChatInit, Waiting, NoContext, NoPassageTwice
<1>2. (OpensOnce /\ NoPassageTwice) /\ [ChatNext]_chatVars => (OpensOnce /\ NoPassageTwice)'
  BY StepOpensOnce, StepPromptsOnce
<1> QED BY <1>1, <1>2, InitOpensOnce, PTL DEF ChatSpec

-----------------------------------------------------------------------------
(***************************************************************************)
(* 7. The context of a social channel.                                     *)
(***************************************************************************)
ThreadTurns == TurnsAbout(Messages)
TaskStates  == [at : {"waiting", "replying", "saving", "done", "failed"}, history : Seq(ThreadTurns)]

SocialTypeOK ==
  /\ thread \in Seq(ThreadTurns)
  /\ told \in Seq(ThreadTurns)
  /\ task \in [Messages -> TaskStates]

\* Messages, each with its reply.
Paired(turns) ==
  \E k \in Nat : /\ Len(turns) = 2 * k
                 /\ \A i \in 1..k : \E m \in Messages : /\ turns[2 * i - 1] = User(m)
                                                        /\ turns[2 * i] = Assistant(m)

\* A task holds whole pairs and its own message.
TasksHoldPairs ==
  \A m \in Tasks : \E turns \in Seq(ThreadTurns) :
    Paired(turns) /\ task[m].history = Append(turns, User(m))

\* One task at a time continues what was told.
OneTaskContinues ==
  /\ thread = LastTurns(told, 2 * KeptPairs)
  /\ \A m, n \in Tasks : m = n
  /\ \A m \in Tasks : task[m].history = Append(thread, User(m))

PairsKept ==
  /\ SocialTypeOK
  /\ Paired(thread)
  /\ TasksHoldPairs
  /\ ~crossed => OneTaskContinues

LEMMA TurnIsOf ==
  ASSUME NEW m \in Messages
  PROVE  User(m) \in ThreadTurns /\ Assistant(m) \in ThreadTurns
  BY DEF ThreadTurns, TurnsAbout

\* One pair more.
LEMMA PairedAfter ==
  ASSUME NEW turns \in Seq(ThreadTurns), Paired(turns), NEW m \in Messages
  PROVE  Paired(Append(Append(turns, User(m)), Assistant(m)))
<1> DEFINE asked1 == Append(turns, User(m))
           both   == Append(asked1, Assistant(m))
<1>1. PICK k \in Nat : /\ Len(turns) = 2 * k
                       /\ \A i \in 1..k : \E n \in Messages : /\ turns[2 * i - 1] = User(n)
                                                              /\ turns[2 * i] = Assistant(n)
  BY DEF Paired
<1>2. /\ asked1 \in Seq(ThreadTurns) /\ Len(asked1) = Len(turns) + 1
      /\ \A i \in 1..Len(turns) : asked1[i] = turns[i]
      /\ asked1[Len(turns) + 1] = User(m)
  BY TurnIsOf, AppendProperties
<1> HIDE DEF asked1
<1>3. /\ Len(both) = Len(asked1) + 1
      /\ \A i \in 1..Len(asked1) : both[i] = asked1[i]
      /\ both[Len(asked1) + 1] = Assistant(m)
  BY <1>2, TurnIsOf, AppendProperties
<1> HIDE DEF both
<1>4. /\ Len(both) = 2 * (k + 1) /\ k + 1 \in Nat
      /\ \A i \in 1..2 * k : both[i] = turns[i]
      /\ both[2 * (k + 1) - 1] = User(m) /\ both[2 * (k + 1)] = Assistant(m)
  BY <1>1, <1>2, <1>3
<1>5. ASSUME NEW i \in 1..k + 1
      PROVE  \E n \in Messages : both[2 * i - 1] = User(n) /\ both[2 * i] = Assistant(n)
  <2>1. CASE i = k + 1
    BY <1>4, <2>1
  <2>2. CASE i \in 1..k
    <3>1. 2 * i - 1 \in 1..2 * k /\ 2 * i \in 1..2 * k
      BY <1>1, <2>2
    <3>2. both[2 * i - 1] = turns[2 * i - 1] /\ both[2 * i] = turns[2 * i]
      BY <1>4, <3>1
    <3> QED BY <1>1, <2>2, <3>2
  <2> QED BY <1>1, <2>1, <2>2
<1>6. Paired(both)
  BY <1>4, <1>5 DEF Paired
<1> QED BY <1>6 DEF both, asked1

\* The last pairs are whole.
LEMMA LastPairs ==
  ASSUME NEW turns \in Seq(ThreadTurns), Paired(turns), NEW n \in Nat
  PROVE  Paired(LastTurns(turns, 2 * n))
<1> DEFINE cut == LastTurns(turns, 2 * n)
<1>1. PICK k \in Nat : /\ Len(turns) = 2 * k
                       /\ \A i \in 1..k : \E m \in Messages : /\ turns[2 * i - 1] = User(m)
                                                              /\ turns[2 * i] = Assistant(m)
  BY DEF Paired
<1>2. /\ Len(cut) = IF Len(turns) > 2 * n THEN 2 * n ELSE Len(turns)
      /\ \A i \in 1..Len(cut) : cut[i] = turns[Len(turns) - Len(cut) + i]
  BY LastTurnsElements
<1> HIDE DEF cut
<1>3. PICK l \in 0..k : Len(cut) = 2 * l
  <2>1. CASE k > n
    BY <1>1, <1>2, <2>1
  <2>2. CASE ~(k > n)
    BY <1>1, <1>2, <2>2
  <2> QED BY <2>1, <2>2
<1>4. ASSUME NEW i \in 1..l
      PROVE  \E m \in Messages : cut[2 * i - 1] = User(m) /\ cut[2 * i] = Assistant(m)
  <2> DEFINE j == k - l + i
  <2>1. j \in 1..k /\ 2 * j - 1 = 2 * k - 2 * l + (2 * i - 1) /\ 2 * j = 2 * k - 2 * l + 2 * i
        /\ 2 * i - 1 \in 1..2 * l /\ 2 * i \in 1..2 * l
    BY <1>1, <1>3, <1>4
  <2> HIDE DEF j
  <2>2. cut[2 * i - 1] = turns[2 * j - 1] /\ cut[2 * i] = turns[2 * j]
    <3>1. \A e \in 1..2 * l : cut[e] = turns[2 * k - 2 * l + e]
      BY <1>1, <1>2, <1>3
    <3> QED BY <2>1, <3>1
  <2> QED BY <1>1, <2>1, <2>2
<1>5. l \in Nat
  BY <1>1, <1>3
<1>6. Paired(cut)
  BY <1>3, <1>4, <1>5 DEF Paired
<1> QED BY <1>6 DEF cut

\* Whole pairs begin with a message, and each reply follows its own.
LEMMA PairsFollow ==
  ASSUME NEW turns \in Seq(ThreadTurns), Paired(turns)
  PROVE  RepliesFollow(turns) /\ (turns # <<>> => Head(turns).role = "user")
<1>1. PICK k \in Nat : /\ Len(turns) = 2 * k
                       /\ \A i \in 1..k : \E m \in Messages : /\ turns[2 * i - 1] = User(m)
                                                              /\ turns[2 * i] = Assistant(m)
  BY DEF Paired
<1>2. ASSUME NEW i \in 2..Len(turns), turns[i].role = "assistant"
      PROVE  turns[i - 1] = User(turns[i].of)
  <2>1. PICK j \in 1..k : i = 2 * j \/ i = 2 * j - 1
    <3>1. CASE i % 2 = 0
      <4>1. i = 2 * (i \div 2) /\ i \div 2 \in 1..k
        BY <1>1, <3>1
      <4> QED BY <4>1
    <3>2. CASE i % 2 # 0
      <4>1. i = 2 * ((i + 1) \div 2) - 1 /\ (i + 1) \div 2 \in 1..k
        BY <1>1, <3>2
      <4> QED BY <4>1
    <3> QED BY <3>1, <3>2
  <2>2. PICK m \in Messages : turns[2 * j - 1] = User(m) /\ turns[2 * j] = Assistant(m)
    BY <1>1
  <2>3. User(m).role = "user" /\ Assistant(m).of = m
    BY DEF User, Assistant
  <2>4. i = 2 * j
    BY <1>2, <2>1, <2>2, <2>3
  <2>5. i - 1 = 2 * j - 1
    BY <2>4
  <2> QED BY <2>2, <2>3, <2>4, <2>5
<1>3. ASSUME turns # <<>>
      PROVE  Head(turns).role = "user"
  <2>1. Len(turns) \in Nat \ {0}
    BY <1>3, EmptySeq
  <2>2. 1 \in 1..k /\ 2 * 1 - 1 = 1
    BY <1>1, <2>1
  <2>3. PICK m \in Messages : turns[1] = User(m)
    BY <1>1, <2>2
  <2> QED BY <1>3, <2>3 DEF User
<1> QED BY <1>2, <1>3 DEF RepliesFollow

LEMMA NoTurns == <<>> \in Seq(ThreadTurns) /\ Paired(<<>>) /\ LastTurns(<<>>, 2 * KeptPairs) = <<>>
<1>1. Paired(<<>>)
  BY EmptySeq DEF Paired
<1>2. LastTurns(<<>>, 2 * KeptPairs) = <<>>
  BY KeptPairsIsNat, EmptySeq DEF LastTurns
<1> QED BY <1>1, <1>2, EmptySeq

\* What two turns add to the last is what they add to all.
LEMMA LastTurnsOfPair ==
  ASSUME NEW S, NEW s \in Seq(S), NEW d \in S, NEW e \in S, NEW n \in Nat
  PROVE  LastTurns(Append(Append(LastTurns(s, n), d), e), n) = LastTurns(Append(Append(s, d), e), n)
<1>1. LastTurns(s, n) \in Seq(S)
  BY LastTurnsElements
<1> DEFINE cut == Append(LastTurns(s, n), d)
           all == Append(s, d)
<1>2. cut \in Seq(S) /\ all \in Seq(S)
  BY <1>1, AppendProperties
<1>3. LastTurns(cut, n) = LastTurns(all, n)
  BY LastTurnsOfAppend
<1> HIDE DEF cut, all
<1>4. /\ LastTurns(Append(LastTurns(cut, n), e), n) = LastTurns(Append(cut, e), n)
      /\ LastTurns(Append(LastTurns(all, n), e), n) = LastTurns(Append(all, e), n)
  BY <1>2, LastTurnsOfAppend
<1>5. LastTurns(Append(cut, e), n) = LastTurns(Append(all, e), n)
  BY <1>3, <1>4, Zenon
<1> QED BY <1>5 DEF cut, all

\* A task changes, the context does not.
LEMMA TaskMoves ==
  ASSUME PairsKept, NEW m \in Messages, NEW stage, NEW history, Put(m, stage, history),
         [at |-> stage, history |-> history] \in TaskStates,
         UNCHANGED <<thread, told>>, crossed => crossed',
         stage \in {"replying", "saving"} =>
           /\ \E turns \in Seq(ThreadTurns) : Paired(turns) /\ history = Append(turns, User(m))
           /\ ~crossed' => Tasks \subseteq {m} /\ history = Append(thread, User(m))
  PROVE  PairsKept'
<1> DEFINE r == [at |-> stage, history |-> history]
<1>1. /\ task' = [task EXCEPT ![m] = r] /\ r.at = stage /\ r.history = history
      /\ task \in [Messages -> TaskStates]
  BY DEF Put, PairsKept, SocialTypeOK
<1>2. \A n \in Messages : task'[n] = IF n = m THEN r ELSE task[n]
  BY <1>1
<1> HIDE DEF r
<1>3. SocialTypeOK' /\ Paired(thread)'
  BY <1>1 DEF PairsKept, SocialTypeOK, r
<1>4. Tasks' = (Tasks \ {m}) \cup (IF stage \in {"replying", "saving"} THEN {m} ELSE {})
  BY <1>1, <1>2 DEF Tasks
<1>5. TasksHoldPairs'
  BY <1>1, <1>2, <1>4 DEF PairsKept, TasksHoldPairs, Tasks
<1>6. ~crossed' => OneTaskContinues'
  BY <1>1, <1>2, <1>4 DEF PairsKept, OneTaskContinues, Tasks
<1> QED BY <1>3, <1>5, <1>6 DEF PairsKept

LEMMA LoadsKeepsPairs ==
  ASSUME PairsKept, NEW m \in Messages, Loads(m)
  PROVE  PairsKept'
<1> DEFINE history == Append(thread, User(m))
<1>1. /\ thread \in Seq(ThreadTurns) /\ Paired(thread)
      /\ Put(m, "replying", history) /\ crossed' = (crossed \/ Tasks # {})
      /\ UNCHANGED <<thread, told>>
  BY DEF PairsKept, SocialTypeOK, Loads
<1>2. history \in Seq(ThreadTurns)
  BY <1>1, TurnIsOf, AppendProperties
<1>3. [at |-> "replying", history |-> history] \in TaskStates
  BY <1>2 DEF TaskStates
<1>4. \E turns \in Seq(ThreadTurns) : Paired(turns) /\ history = Append(turns, User(m))
  BY <1>1
<1>5. ~crossed' => Tasks \subseteq {m}
  BY <1>1
<1> HIDE DEF history
<1>6. history = Append(thread, User(m))
  BY DEF history
<1> QED BY <1>1, <1>3, <1>4, <1>5, <1>6, TaskMoves

LEMMA RepliesKeepsPairs ==
  ASSUME PairsKept, NEW m \in Messages, Replies(m)
  PROVE  PairsKept'
<1>1. /\ m \in Tasks /\ task[m] \in TaskStates
      /\ Put(m, "saving", task[m].history) /\ UNCHANGED <<thread, told, crossed>>
  BY DEF PairsKept, SocialTypeOK, Replies, Tasks
<1>2. [at |-> "saving", history |-> task[m].history] \in TaskStates
  BY <1>1 DEF TaskStates
<1>3. \E turns \in Seq(ThreadTurns) : Paired(turns) /\ task[m].history = Append(turns, User(m))
  BY <1>1 DEF PairsKept, TasksHoldPairs
<1>4. ~crossed' => Tasks \subseteq {m} /\ task[m].history = Append(thread, User(m))
  BY <1>1 DEF PairsKept, OneTaskContinues
<1> QED BY <1>1, <1>2, <1>3, <1>4, TaskMoves

LEMMA SavesKeepsPairs ==
  ASSUME PairsKept, NEW m \in Messages, SavesContext(m)
  PROVE  PairsKept'
<1>1. /\ m \in Tasks /\ KeptPairs \in Nat /\ 2 * KeptPairs \in Nat
      /\ thread \in Seq(ThreadTurns) /\ told \in Seq(ThreadTurns)
      /\ User(m) \in ThreadTurns /\ Assistant(m) \in ThreadTurns
  BY KeptPairsIsNat, TurnIsOf DEF PairsKept, SocialTypeOK, SavesContext, Tasks
<1>2. PICK turns \in Seq(ThreadTurns) : Paired(turns) /\ task[m].history = Append(turns, User(m))
  BY <1>1 DEF PairsKept, TasksHoldPairs
<1> DEFINE both == Append(Append(turns, User(m)), Assistant(m))
<1>3. /\ thread' = LastTurns(both, 2 * KeptPairs)
      /\ told' = told \o <<User(m), Assistant(m)>>
      /\ task' = [task EXCEPT ![m] = [at |-> "done", history |-> <<>>]]
      /\ UNCHANGED crossed
  BY <1>2 DEF SavesContext, History, Put, NewThread
<1>4. both \in Seq(ThreadTurns) /\ Paired(both)
  BY <1>1, <1>2, AppendProperties, PairedAfter
<1>5. told' = Append(Append(told, User(m)), Assistant(m))
  BY <1>1, <1>3
<1> HIDE DEF both
<1>6. thread' \in Seq(ThreadTurns) /\ Paired(thread')
  <2>1. LastTurns(both, 2 * KeptPairs) \in Seq(ThreadTurns)
    BY <1>1, <1>4, LastTurnsElements
  <2>2. Paired(LastTurns(both, 2 * KeptPairs))
    BY <1>1, <1>4, LastPairs
  <2> QED BY <1>3, <2>1, <2>2, Zenon
<1>7. told' \in Seq(ThreadTurns)
  BY <1>1, <1>5, AppendProperties
<1>8. /\ SocialTypeOK'
      /\ \A n \in Messages : n # m => task'[n] = task[n]
      /\ Tasks' = Tasks \ {m}
  <2>1. [at |-> "done", history |-> <<>>] \in TaskStates
    BY EmptySeq DEF TaskStates
  <2>2. task \in [Messages -> TaskStates]
    BY DEF PairsKept, SocialTypeOK
  <2>3. task' \in [Messages -> TaskStates]
    BY <1>3, <2>1, <2>2
  <2>4. \A n \in Messages : task'[n] = IF n = m THEN [at |-> "done", history |-> <<>>] ELSE task[n]
    BY <1>3, <2>2
  <2> QED BY <1>6, <1>7, <2>3, <2>4 DEF SocialTypeOK, Tasks
<1>9. TasksHoldPairs'
  BY <1>8 DEF PairsKept, TasksHoldPairs, Tasks
<1>10. ASSUME ~crossed
       PROVE  OneTaskContinues'
  <2>1. Tasks = {m} /\ task[m].history = Append(thread, User(m)) /\ thread = LastTurns(told, 2 * KeptPairs)
    BY <1>1, <1>10 DEF PairsKept, OneTaskContinues
  <2>2. both = Append(Append(LastTurns(told, 2 * KeptPairs), User(m)), Assistant(m))
    BY <1>2, <2>1 DEF both
  <2>3. LastTurns(both, 2 * KeptPairs)
          = LastTurns(Append(Append(told, User(m)), Assistant(m)), 2 * KeptPairs)
    BY <1>1, <2>2, LastTurnsOfPair
  <2>4. thread' = LastTurns(told', 2 * KeptPairs)
    BY <1>3, <1>5, <2>3, Zenon
  <2>5. Tasks' = {}
    BY <1>8, <2>1
  <2> QED BY <2>4, <2>5 DEF OneTaskContinues
<1> QED BY <1>3, <1>6, <1>8, <1>9, <1>10 DEF PairsKept

LEMMA StepKeepsPairs ==
  ASSUME PairsKept, [SocialNext]_socialVars
  PROVE  PairsKept'
<1>1. CASE ThreadExpires
  BY <1>1, NoTurns DEF ThreadExpires, NewThread, PairsKept, SocialTypeOK, TasksHoldPairs,
       OneTaskContinues, Tasks
<1>2. CASE UNCHANGED socialVars
  BY <1>2 DEF socialVars, PairsKept, SocialTypeOK, TasksHoldPairs, OneTaskContinues, Tasks
<1>3. ASSUME NEW m \in Messages, TaskFails(m)
      PROVE  PairsKept'
  <2>1. [at |-> "failed", history |-> <<>>] \in TaskStates
    BY EmptySeq DEF TaskStates
  <2> QED BY <1>3, <2>1, TaskMoves DEF TaskFails, NewThread
<1>4. ASSUME NEW m \in Messages, Loads(m) \/ Replies(m) \/ SavesContext(m) \/ TaskFails(m)
      PROVE  PairsKept'
  BY <1>3, <1>4, LoadsKeepsPairs, RepliesKeepsPairs, SavesKeepsPairs
<1> QED BY <1>1, <1>2, <1>4 DEF SocialNext

LEMMA InitKeepsPairs == SocialInit => PairsKept
<1> SUFFICES ASSUME SocialInit PROVE PairsKept
  OBVIOUS
<1>1. Idle \in TaskStates /\ Idle.at = "waiting"
  BY EmptySeq DEF Idle, NewThread, TaskStates
<1>2. Tasks = {}
  BY <1>1 DEF SocialInit, Tasks
<1> QED BY <1>1, <1>2, NoTurns DEF SocialInit, NewThread, PairsKept, SocialTypeOK, TasksHoldPairs,
          OneTaskContinues

\* However tasks overlap a context is made of whole pairs; and it is the last
\* that was written as long as no two overlapped.
THEOREM ThreadKeepsPairs == SocialSpec => []ThreadIsKept
<1>1. PairsKept => ThreadIsKept
  BY PairsFollow DEF PairsKept, SocialTypeOK, OneTaskContinues, ThreadIsKept
<1> QED BY <1>1, InitKeepsPairs, StepKeepsPairs, PTL DEF SocialSpec
=============================================================================
