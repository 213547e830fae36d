----------------------------- MODULE Knowledge ------------------------------
(***************************************************************************)
(* How the knowledge base of the staff assistant is filled: documents are  *)
(* cut, enriched, embedded and stored by DocumentIngester (rag/            *)
(* ingestion.py).  The application calls it at start-up, every night,      *)
(* after a call and for an administrator (rag/router.py), while the script *)
(* scripts/backfill_rag.py makes passes over the whole database.  Every    *)
(* await of an ingestion lets the others run.                              *)
(* The words of a document are abstract: its content is what it was made   *)
(* from, its sentences are numbered, and a vector is the text it embeds.   *)
(***************************************************************************)
EXTENDS Naturals, FiniteSets, SequencesExt

CONSTANTS
  Files, Calls, CaseTypes, Tiers, Labels, Callers, \* what documents are made from
  Names,          \* caller_name: callers who share one are one set of Names
  Sizes,          \* Sizes[n]: the tokens of each sentence of a text about n records;
                  \* the last stands for longer texts
  ParentLimit,    \* _PARENT_TOKEN_LIMIT, 400 in the code
  ChildLimit,     \* _CHILD_TOKEN_LIMIT, 100 in the code
  Seeds,          \* PYTHONHASHSEED: the orders in which sets are listed
  Batch,          \* --batch: ingestions the script gathers at a time
  MaxRecords,     \* bound: records behind one document
  MaxEvents,      \* bound: what the application, its users and time do
  MaxPasses,      \* bound: passes of the script
  MaxFaults       \* bound: failures of OpenAI, of the database and kills

ASSUME LimitsAssumption == ParentLimit \in Nat /\ ChildLimit \in Nat
ASSUME SizesAssumption  == Sizes \in Seq(Seq(Nat)) /\ Sizes # <<>>

VARIABLES
  docs,     \* knowledge_documents with their knowledge_chunks
  emb,      \* the texts whose vectors are in Redis, emb:cache:*
  jobs,     \* calls of ingest_document that are under way
  records,  \* how many records there are behind each document
  at,       \* the source the script is at; 0 when it does not run
  todo,     \* documents of that source not given to ingest_document yet
  seed,     \* of the script's process
  begun, passes, faults,   \* bounded
  (* Consumed by the properties only: *)
  pass      \* what may be relied on about the last pass

script == <<at, todo, seed, passes>>
vars   == <<docs, emb, jobs, records, script, begun, faults, pass>>

Things == Files \cup Calls \cup CaseTypes \cup Tiers \cup Labels \cup Callers

-----------------------------------------------------------------------------
(***************************************************************************)
(* The documents of each source.  A title is kind (source_type and         *)
(* wording), subject and the count it carries, 0 when it carries none; a   *)
(* content also says who it is about and in which order a set was listed.  *)
(***************************************************************************)
Doc(kind, subject, count, of, n, order) ==
  [title   |-> [kind |-> kind, of |-> subject, n |-> count],
   content |-> [kind |-> kind, of |-> of, n |-> n, order |-> order]]

NameOf(c) == CHOOSE name \in Names : c \in name
SumOver(S, r) == FoldSet(LAMBDA t, sum : r[t] + sum, 0, S)
Summed(S) == SumOver(S, records)
Known(S)  == {x \in S : records[x] > 0}

Prompts     == {Doc("prompt", f, 0, f, records[f], 0) : f \in Known(Files)}
Transcripts == {Doc("transcript", c, 0, c, 1, 0) : c \in Known(Calls)}
\* Up to five of the set of urgency reasons are listed, in the order of a set.
Intakes(s)  == {Doc("guide", t, records[t], t, records[t], IF records[t] > 1 THEN s ELSE 0) :
                  t \in Known(CaseTypes)}
Summaries   == {Doc("summary", c, 0, c, 1, 0) : c \in Known(Calls)}
Scores      == {Doc("score", t, records[t], t, records[t], 0) : t \in Known(Tiers)}
Alerts      == {Doc("alert", l, records[l], l, records[l], 0) : l \in Known(Labels)}
Patterns    == {Doc("patterns", "all", Summed(CaseTypes), "all", Summed(CaseTypes), 0) :
                  t \in Known(CaseTypes)}
\* Grouped by name and number, titled by name and how often they called.
Profiles    == {Doc("profile", NameOf(c), records[c], c, records[c], 0) : c \in Known(Callers)}

Source(i, s) ==
  CASE i = 1 -> Prompts [] i = 2 -> Transcripts [] i = 3 -> Intakes(s) [] i = 4 -> Summaries
    [] i = 5 -> Scores  [] i = 6 -> Alerts      [] i = 7 -> Patterns   [] i = 8 -> Profiles
LastSource == 8
Gathered   == {2, 4}   \* sources whose documents are ingested concurrently

\* What the application ingests by itself.
Frequent     == {t \in CaseTypes : records[t] >= 2}
NightlyDocs  == {Doc("nightly", "month", 0, "month", Summed(Frequent), 0) : t \in Frequent}
\* A transcript under the title the script gives it or, when the date of
\* started_at is another or an outcome is missing, one of its own.
CallDocs(c, own) == {Doc("transcript", c, own, c, 1, 0)}
CallerDocs(c) == {Doc("profile", NameOf(c), 1, c, records[c], 3)}
UploadDocs   == {Doc("prompt", f, 0, f, 1, 2) : f \in Files}

-----------------------------------------------------------------------------
(***************************************************************************)
(* Cutting a document into chunks, and their vectors                       *)
(***************************************************************************)
\* Sentence k joins the chunk that began with sentence c.from, or the next one.
CutStep(c, k, sizes, limit) ==
  IF c.tokens + sizes[k] > limit /\ k > c.from
  THEN [done |-> Append(c.done, <<c.from, k - 1>>), from |-> k, tokens |-> sizes[k]]
  ELSE [done |-> c.done, from |-> c.from, tokens |-> c.tokens + sizes[k]]

\* The sentences from..to in chunks of at most limit tokens, as <<first, last>>;
\* a sentence that is longer is a chunk by itself.  cut[n]: n sentences are dealt
\* with.
Cut(sizes, from, to, limit) ==
  LET cut[n \in 0..(to + 1 - from)] ==
        IF n = 0 THEN [done |-> <<>>, from |-> from, tokens |-> 0]
        ELSE CutStep(cut[n - 1], from + n - 1, sizes, limit)
      last == cut[to + 1 - from]
  IN  IF last.from > to THEN last.done ELSE Append(last.done, <<last.from, to>>)

SizesOf(content) == Sizes[IF content.n \in DOMAIN Sizes THEN content.n ELSE Len(Sizes)]

NoSpan == <<0, 0>>

\* A parent and its children, whose parent_chunk_id is here its span.
Family(content, span, prefixed) ==
  LET children == Cut(SizesOf(content), span[1], span[2], ChildLimit)
  IN  <<[of |-> content, span |-> span, parent |-> NoSpan, prefix |-> prefixed]>>
      \o [k \in DOMAIN children |->
            [of |-> content, span |-> children[k], parent |-> span, prefix |-> FALSE]]

\* Parents, each followed by its children, as all_texts lists them; those in
\* prefixed got a context_prefix from the LLM.
Parents(content) == Cut(SizesOf(content), 1, Len(SizesOf(content)), ParentLimit)
Chunks(content, prefixed) ==
  LET parents == Parents(content)
      listed[n \in 0..Len(parents)] ==
        IF n = 0 THEN <<>> ELSE listed[n - 1] \o Family(content, parents[n], n \in prefixed)
  IN  listed[Len(parents)]

TextOf(chunk) == [of |-> chunk.of, span |-> chunk.span, prefix |-> chunk.prefix]
NoVector      == [of |-> [kind |-> "none"], span |-> NoSpan, prefix |-> FALSE]

\* uncached_indices, in their order, and uncached_texts.
Uncached(texts) == {i \in DOMAIN texts : texts[i] \notin emb}
Nth(i, indices) == Cardinality({k \in indices : k <= i})
Asked(texts)    == [n \in 1..Cardinality(Uncached(texts)) |->
                      texts[CHOOSE i \in Uncached(texts) : Nth(i, Uncached(texts)) = n]]

\* Faulty variant: a new vector is put where it stands in the answer.
VectorsAsAnswered(texts, works) ==
  LET answer == Asked(texts)
  IN  [i \in DOMAIN texts |->
         IF texts[i] \in emb THEN texts[i]
         ELSE IF works /\ i \in DOMAIN answer THEN answer[i] ELSE NoVector]

\* Cached vectors, and for the other texts one request to OpenAI, whose answer
\* lists the vectors in the order asked; zero vectors when it fails.
Vectors(texts, works) ==
  LET answer == Asked(texts)
  IN  [i \in DOMAIN texts |->
         IF texts[i] \in emb THEN texts[i]
         ELSE IF works THEN answer[Nth(i, Uncached(texts))] ELSE NoVector]

\* What is stored for a document: its chunks, their texts and vectors.
Embedded(content, prefixed, works) ==
  LET chunks  == Chunks(content, prefixed)
      texts   == [i \in DOMAIN chunks |-> TextOf(chunks[i])]
      vectors == Vectors(texts, works)
  IN  [i \in DOMAIN chunks |-> [span |-> chunks[i].span, parent |-> chunks[i].parent,
                                text |-> texts[i], vector |-> vectors[i]]]

-----------------------------------------------------------------------------
Job(by, doc) == [by |-> by, title |-> doc.title, content |-> doc.content,
                 step |-> "check", chunks |-> <<>>, embedded |-> FALSE,
                 old |-> {}, alone |-> TRUE]

ScriptJobs == {j \in jobs : j.by = "script"}

Init ==
  /\ docs = {} /\ emb = {} /\ jobs = {}
  /\ records = [x \in Things |-> IF x \in CaseTypes THEN 2 ELSE 1]
  /\ at = 0 /\ todo = {} /\ seed \in Seeds
  /\ begun = 0 /\ passes = 0 /\ faults = 0
  /\ pass = "none"

\* The pass under way, or the last one, is not alone with unchanged data.
Disturbed == pass' = "none"

(***************************************************************************)
(* ingest_document, one action per stretch between awaits that others see  *)
(***************************************************************************)
\* The script goes on after an exception only where it gathers.
Ended(j, ok) ==
  /\ jobs' = jobs \ {j}
  /\ IF ok \/ j.by # "script" \/ at \in Gathered
     THEN UNCHANGED <<at, todo>>
     ELSE at' = 0 /\ todo' = {}
  /\ UNCHANGED <<seed, passes>>

\* Faulty variant: a document is looked up by its title.
TitleStored(j) == \E d \in docs : d.title = j.title

Stored(j) == \E d \in docs : d.content = j.content

FindsDuplicate(j) ==
  /\ j.step = "check" /\ Stored(j)
  /\ Ended(j, TRUE)
  /\ UNCHANGED <<docs, emb, records, begun, faults, pass>>

\* No duplicate: chunks, prefixes, scores and vectors; failures of OpenAI are
\* swallowed.
Prepares(j) ==
  /\ j.step = "check" /\ ~Stored(j)
  /\ \E prefixed \in SUBSET (1..Len(Parents(j.content))), works \in BOOLEAN :
       LET chunks == Embedded(j.content, prefixed, works)
           failed == (IF prefixed = 1..Len(Parents(j.content)) THEN 0 ELSE 1)
                     + (IF works THEN 0 ELSE 1)
       IN  /\ faults + failed <= MaxFaults /\ faults' = faults + failed
           /\ emb' = IF works THEN emb \cup {c.text : c \in ToSet(chunks)} ELSE emb
           /\ jobs' = (jobs \ {j}) \cup {[j EXCEPT !.step = "store", !.embedded = works,
                                                 !.chunks = chunks]}
  /\ UNCHANGED <<docs, records, script, begun, pass>>

\* Faulty variant: fetchrow, which sees one previous version only.
OneVersion(title) == LET S == {d \in docs : d.title = title}
                     IN  IF S = {} THEN {} ELSE {CHOOSE d \in S : TRUE}

\* Faulty variant: documents are only ever added.
NoVersion(title) == {}

Versions(title) == {d \in docs : d.title = title}

\* The transaction begins; it sees what others committed, statement by statement.
SelectsVersions(j) ==
  LET rivals == {k \in jobs : k.step = "insert" /\ k.title = j.title}
  IN  /\ j.step = "store"
      /\ jobs' = ((jobs \ {j}) \ rivals)
                 \cup {[k EXCEPT !.alone = FALSE] : k \in rivals}
                 \cup {[j EXCEPT !.step = "insert", !.old = Versions(j.title),
                                 !.alone = (rivals = {})]}
      /\ UNCHANGED <<docs, emb, records, script, begun, faults, pass>>

\* DELETE, INSERT of the document and its chunks, COMMIT.  UNIQUE(content_hash)
\* fails the transaction when the content is there by now.
Inserts(j) ==
  /\ j.step = "insert"
  /\ IF \E d \in docs \ j.old : d.content = j.content
     THEN /\ Ended(j, FALSE)
          /\ Disturbed
          /\ UNCHANGED docs
     ELSE /\ docs' = (docs \ j.old) \cup
                     {[title |-> j.title, content |-> j.content, chunks |-> j.chunks,
                       embedded |-> j.embedded]}
          /\ Ended(j, TRUE)
          /\ IF j.by = "script" THEN UNCHANGED pass ELSE Disturbed
  /\ UNCHANGED <<emb, records, begun, faults>>

\* The database refuses or does not answer.
DatabaseFails(j) ==
  /\ faults < MaxFaults /\ faults' = faults + 1
  /\ Ended(j, FALSE)
  /\ Disturbed
  /\ UNCHANGED <<docs, emb, records, begun>>

-----------------------------------------------------------------------------
(***************************************************************************)
(* The application                                                         *)
(***************************************************************************)
\* Nothing of it can be told apart from the same ingestion begun already.
AppIngests(ds) ==
  /\ begun < MaxEvents /\ begun' = begun + 1
  /\ ds # {} /\ jobs' = jobs \cup {Job("app", d) : d \in ds}
  /\ Disturbed
  /\ UNCHANGED <<docs, emb, records, script, faults>>

\* A start of the application, which ends what its predecessor was doing.
SyncPrompts ==
  /\ begun < MaxEvents /\ begun' = begun + 1
  /\ jobs' = ScriptJobs \cup {Job("app", d) : d \in Prompts}
  /\ Disturbed
  /\ UNCHANGED <<docs, emb, records, script, faults>>

AggregateIntakePatterns == AppIngests(NightlyDocs)
IngestTranscript(c)     == \E own \in {0, 1} : AppIngests(CallDocs(c, own))
IngestCallerProfile(c)  == AppIngests(CallerDocs(c))
AdminIngests            == \E d \in UploadDocs : AppIngests({d})

AdminDeletes(d) ==
  /\ begun < MaxEvents /\ begun' = begun + 1
  /\ docs' = docs \ {d}
  /\ Disturbed
  /\ UNCHANGED <<emb, jobs, records, script, faults>>

\* The calls of the day, an edited file.
NewRecord(x) ==
  /\ begun < MaxEvents /\ begun' = begun + 1
  /\ records[x] < MaxRecords
  /\ records' = [records EXCEPT ![x] = @ + 1]
  /\ Disturbed
  /\ UNCHANGED <<docs, emb, jobs, script, faults>>

EmbeddingsExpire ==
  /\ begun < MaxEvents /\ begun' = begun + 1
  /\ emb # {} /\ emb' = {}
  /\ UNCHANGED <<docs, jobs, records, script, faults, pass>>

-----------------------------------------------------------------------------
(***************************************************************************)
(* The script                                                              *)
(***************************************************************************)
PassStarts ==
  /\ at = 0 /\ ScriptJobs = {} /\ passes < MaxPasses
  /\ passes' = passes + 1
  /\ seed' \in Seeds
  /\ at' = 1 /\ todo' = Source(1, seed')
  /\ pass' = IF jobs # {} THEN "none" ELSE IF pass = "covered" THEN "again" ELSE "first"
  /\ UNCHANGED <<docs, emb, jobs, records, begun, faults>>

\* The rows of a source are read when its turn comes.
NextSource ==
  /\ at # 0 /\ todo = {} /\ ScriptJobs = {}
  /\ IF at = LastSource
     THEN /\ at' = 0 /\ todo' = {}
          /\ pass' = IF pass = "none" THEN "none" ELSE "covered"
     ELSE at' = at + 1 /\ todo' = Source(at + 1, seed) /\ UNCHANGED pass
  /\ UNCHANGED <<docs, emb, jobs, records, seed, passes, begun, faults>>

Takes(d) ==
  /\ d \in todo
  /\ Cardinality(ScriptJobs) < (IF at \in Gathered THEN Batch ELSE 1)
  /\ todo' = todo \ {d}
  /\ jobs' = jobs \cup {Job("script", d)}
  /\ UNCHANGED <<docs, emb, records, at, seed, passes, begun, faults, pass>>

ScriptKilled ==
  /\ at # 0 /\ faults < MaxFaults /\ faults' = faults + 1
  /\ jobs' = jobs \ ScriptJobs
  /\ at' = 0 /\ todo' = {}
  /\ Disturbed
  /\ UNCHANGED <<docs, emb, records, seed, passes, begun>>

-----------------------------------------------------------------------------
IngestStep ==
  \E j \in jobs : \/ FindsDuplicate(j) \/ Prepares(j) \/ SelectsVersions(j)
                  \/ Inserts(j) \/ DatabaseFails(j)

AppStep ==
  \/ SyncPrompts \/ AggregateIntakePatterns \/ AdminIngests \/ EmbeddingsExpire
  \/ \E c \in Known(Calls) : IngestTranscript(c)
  \/ \E c \in Known(Callers) : IngestCallerProfile(c)
  \/ \E d \in docs : AdminDeletes(d)
  \/ \E x \in Things \ Calls : NewRecord(x)

ScriptStep == PassStarts \/ NextSource \/ ScriptKilled \/ \E d \in todo : Takes(d)

Next == IngestStep \/ AppStep \/ ScriptStep
Spec == Init /\ [][Next]_vars
-----------------------------------------------------------------------------
(***************************************************************************)
(* Properties                                                              *)
(***************************************************************************)
\* The tokens of the first n sentences.
TokensUpTo(sizes) ==
  LET upTo[n \in 0..Len(sizes)] == IF n = 0 THEN 0 ELSE upTo[n - 1] + sizes[n] IN upTo

\* Each sentence from..to is in one of the spans, and a span that does not fit
\* the limit is a single sentence.
Partition(spans, sizes, from, to, limit) ==
  /\ \A k \in from..to : \E s \in spans : k \in s[1]..s[2]
  /\ \A s, t \in spans : s # t => s[2] < t[1] \/ t[2] < s[1]
  /\ \A s \in spans :
       /\ from <= s[1] /\ s[1] <= s[2] /\ s[2] <= to
       /\ s[1] = s[2] \/ TokensUpTo(sizes)[s[2]] - TokensUpTo(sizes)[s[1] - 1] <= limit

SpansOf(chunks, parent) == {chunks[i].span : i \in {k \in DOMAIN chunks : chunks[k].parent = parent}}

IsItsText(d) ==
  /\ \A i \in DOMAIN d.chunks :
       d.chunks[i].vector = d.chunks[i].text \/ (d.chunks[i].vector = NoVector /\ ~d.embedded)
  /\ \A i, k \in DOMAIN d.chunks :
       i # k => d.chunks[i].span # d.chunks[k].span \/ d.chunks[i].parent # d.chunks[k].parent
  /\ Partition(SpansOf(d.chunks, NoSpan), SizesOf(d.content), 1, Len(SizesOf(d.content)), ParentLimit)
  /\ \A p \in SpansOf(d.chunks, NoSpan) :
       Partition(SpansOf(d.chunks, p), SizesOf(d.content), p[1], p[2], ChildLimit)

\* What is searched is what was written: no sentence is lost or doubled by the
\* cutting, and unless OpenAI failed every chunk has got the vector of its own
\* text, though some vectors come from the cache and others from one answer.
StoredChunksAreTheText == \A d \in docs : IsItsText(d)

\* A pass that nothing disturbs leaves a current document about everything in
\* the database, whatever earlier passes and the application left behind.
\* (Callers whose profiles have the same title overwrite each other's.  A
\* transcript may be there under the title the application gave it.)
SharesTitle(d) == \E e \in Profiles \ {d} : e.title = d.title

PassCoversEverySource ==
  pass = "covered" =>
    \A i \in 1..LastSource : \A d \in Source(i, seed) :
      ~SharesTitle(d) => \E x \in docs : x.content = d.content

\* "Re-running is safe" (the script's docstring): a pass after a complete one
\* over unchanged data never adds a document to those there are, even where the
\* new process lists a set in another order.
RerunAddsNothing ==
  [][pass = "again" /\ pass' # "none" => Cardinality(docs') <= Cardinality(docs)]_vars

\* Two ingestions of one title at a time both leave their version; one that
\* nobody overlaps removes every older version.
LoneIngestHeals ==
  [][\A j \in jobs :
       (/\ j.step = "insert" /\ j.alone
        /\ \E d \in docs' \ docs : d.title = j.title /\ d.content = j.content)
       => Cardinality({d \in docs' : d.title = j.title}) = 1]_vars
=============================================================================
