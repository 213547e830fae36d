------------------------- MODULE ConversationProofs --------------------------
(***************************************************************************)
(* Proofs about Conversation, for any window, block and summary size, any  *)
(* number of questions and any number of rounds.                           *)
(***************************************************************************)
EXTENDS Conversation, FiniteSetTheorems, SequenceTheorems, TLAPS

USE DEF context, phases

(***************************************************************************)
(* The end of a sequence                                                   *)
(***************************************************************************)

\* What is said last is at the end of both.
LEMMA SuffixGrows ==
  ASSUME NEW S, NEW s \in Seq(S), NEW t \in Seq(S), NEW e \in S, IsSuffixOf(s, t)
  PROVE  IsSuffixOf(Append(s, e), Append(t, e))
<1>1. /\ Len(Append(s, e)) = Len(s) + 1 /\ Len(Append(t, e)) = Len(t) + 1
      /\ Len(s) \in Nat /\ Len(t) \in Nat /\ Len(s) <= Len(t)
  BY AppendProperties, LenProperties DEF IsSuffixOf
<1>2. ASSUME NEW k \in 1..(Len(s) + 1)
      PROVE  Append(s, e)[k] = Append(t, e)[Len(t) - Len(s) + k]
  <2>1. CASE k = Len(s) + 1
    BY <1>1, <2>1, AppendProperties
  <2>2. CASE k \in 1..Len(s)
    <3>1. Len(t) - Len(s) + k \in 1..Len(t)
      BY <1>1, <2>2
    <3>2. Append(s, e)[k] = s[k] /\ Append(t, e)[Len(t) - Len(s) + k] = t[Len(t) - Len(s) + k]
      BY <2>2, <3>1, AppendProperties
    <3> QED BY <2>2, <3>2 DEF IsSuffixOf
  <2> QED BY <1>1, <2>1, <2>2
<1>3. \A k \in 1..Len(Append(s, e)) :
        Append(s, e)[k] = Append(t, e)[Len(Append(t, e)) - Len(Append(s, e)) + k]
  <2>1. Len(Append(t, e)) - Len(Append(s, e)) = Len(t) - Len(s)
    BY <1>1
  <2> QED BY <1>1, <1>2, <2>1
<1>4. Len(Append(s, e)) <= Len(Append(t, e))
  BY <1>1
<1> QED BY <1>3, <1>4, Zenon DEF IsSuffixOf

\* The last n elements of a sequence.
LEMMA SuffixElements ==
  ASSUME NEW S, NEW s \in Seq(S), NEW n \in 0..Len(s)
  PROVE  /\ Suffix(s, n) \in Seq(S) /\ Len(Suffix(s, n)) = n
         /\ \A k \in 1..n : Suffix(s, n)[k] = s[Len(s) - n + k]
<1>1. Len(s) \in Nat /\ n \in Nat /\ n <= Len(s)
  BY LenProperties
<1>2. \A i \in (Len(s) - n + 1)..Len(s) : s[i] \in S
  BY <1>1, ElementOfSeq
<1>3. Len(s) - n + 1 \in Int /\ Len(s) \in Int
  BY <1>1
<1> DEFINE m == Len(s) - n + 1
<1>4. \A q \in Seq(S), i, j \in Int :
        (\A k \in i..j : q[k] \in S) =>
          /\ SubSeq(q, i, j) \in Seq(S)
          /\ Len(SubSeq(q, i, j)) = IF i <= j THEN j - i + 1 ELSE 0
          /\ \A k \in 1 .. j - i + 1 : SubSeq(q, i, j)[k] = q[i + k - 1]
  BY SubSeqProperties
<1>5. /\ Suffix(s, n) \in Seq(S)
      /\ Len(Suffix(s, n)) = IF m <= Len(s) THEN Len(s) - m + 1 ELSE 0
      /\ \A k \in 1 .. Len(s) - m + 1 : Suffix(s, n)[k] = s[m + k - 1]
  BY <1>2, <1>3, <1>4, Zenon DEF Suffix
<1>6. (IF m <= Len(s) THEN Len(s) - m + 1 ELSE 0) = n /\ Len(s) - m + 1 = n
  BY <1>1
<1>7. \A k \in 1..n : m + k - 1 = Len(s) - n + k
  BY <1>1
<1> HIDE DEF m
<1> QED BY <1>5, <1>6, <1>7

\* Cutting a sequence in front leaves it the end of what it was the end of.
LEMMA SuffixCut ==
  ASSUME NEW S, NEW s \in Seq(S), NEW t \in Seq(S), NEW n \in 0..Len(s), IsSuffixOf(s, t)
  PROVE  IsSuffixOf(Suffix(s, n), t)
<1>1. Len(s) \in Nat /\ Len(t) \in Nat /\ n <= Len(s) /\ Len(s) <= Len(t)
  BY LenProperties DEF IsSuffixOf
<1>2. ASSUME NEW k \in 1..n
      PROVE  Suffix(s, n)[k] = t[Len(t) - n + k]
  <2>1. Suffix(s, n)[k] = s[Len(s) - n + k]
    BY SuffixElements
  <2>2. Len(s) - n + k \in 1..Len(s)
    BY <1>1
  <2>3. s[Len(s) - n + k] = t[Len(t) - Len(s) + (Len(s) - n + k)]
    BY <2>2 DEF IsSuffixOf
  <2> QED BY <1>1, <2>1, <2>3
<1>3. Len(Suffix(s, n)) = n
  BY SuffixElements
<1> QED BY <1>1, <1>2, <1>3 DEF IsSuffixOf

\* Cutting the first of two sequences in front cuts both.
LEMMA CutBoth ==
  ASSUME NEW S, NEW s \in Seq(S), NEW t \in Seq(S), NEW n \in 0..Len(s)
  PROVE  /\ n + Len(t) \in 0..Len(s \o t)
         /\ Suffix(s, n) \o t = Suffix(s \o t, n + Len(t))
<1>1. Len(s) \in Nat /\ Len(t) \in Nat /\ n <= Len(s) /\ n \in Nat
  BY LenProperties
<1>2. /\ s \o t \in Seq(S) /\ Len(s \o t) = Len(s) + Len(t)
      /\ \A i \in 1..Len(s) + Len(t) : (s \o t)[i] = IF i <= Len(s) THEN s[i] ELSE t[i - Len(s)]
  BY ConcatProperties
<1>3. n + Len(t) \in 0..Len(s \o t)
  BY <1>1, <1>2
<1>4. /\ Suffix(s, n) \in Seq(S) /\ Len(Suffix(s, n)) = n
      /\ \A k \in 1..n : Suffix(s, n)[k] = s[Len(s) - n + k]
  BY SuffixElements
<1>5. /\ Suffix(s \o t, n + Len(t)) \in Seq(S)
      /\ Len(Suffix(s \o t, n + Len(t))) = n + Len(t)
      /\ \A k \in 1..(n + Len(t)) :
           Suffix(s \o t, n + Len(t))[k] = (s \o t)[Len(s) - n + k]
  <2> DEFINE st == s \o t
  <2>1. st \in Seq(S) /\ n + Len(t) \in 0..Len(st) /\ Len(st) - (n + Len(t)) = Len(s) - n
    BY <1>1, <1>2, <1>3
  <2> HIDE DEF st
  <2>2. /\ Suffix(st, n + Len(t)) \in Seq(S)
        /\ Len(Suffix(st, n + Len(t))) = n + Len(t)
        /\ \A k \in 1..(n + Len(t)) :
             Suffix(st, n + Len(t))[k] = st[Len(st) - (n + Len(t)) + k]
    BY <2>1, SuffixElements
  <2>3. \A k \in 1..(n + Len(t)) : Suffix(st, n + Len(t))[k] = st[Len(s) - n + k]
    BY <2>1, <2>2
  <2> QED BY <2>2, <2>3, Zenon DEF st
<1>6. /\ Suffix(s, n) \o t \in Seq(S) /\ Len(Suffix(s, n) \o t) = n + Len(t)
      /\ \A i \in 1..n + Len(t) :
           (Suffix(s, n) \o t)[i] = IF i <= n THEN Suffix(s, n)[i] ELSE t[i - n]
  <2> DEFINE u == Suffix(s, n)
  <2>1. u \in Seq(S) /\ Len(u) = n
    BY <1>4
  <2> HIDE DEF u
  <2>2. /\ u \o t \in Seq(S) /\ Len(u \o t) = Len(u) + Len(t)
        /\ \A i \in 1..Len(u) + Len(t) : (u \o t)[i] = IF i <= Len(u) THEN u[i] ELSE t[i - Len(u)]
    BY <2>1, ConcatProperties
  <2>3. /\ u \o t \in Seq(S) /\ Len(u \o t) = n + Len(t)
        /\ \A i \in 1..n + Len(t) : (u \o t)[i] = IF i <= n THEN u[i] ELSE t[i - n]
    BY <2>1, <2>2
  <2> QED BY <2>3 DEF u
<1>7. ASSUME NEW k \in 1..(n + Len(t))
      PROVE  (Suffix(s, n) \o t)[k] = Suffix(s \o t, n + Len(t))[k]
  <2>1. Suffix(s \o t, n + Len(t))[k] = (s \o t)[Len(s) - n + k]
    BY <1>5, Zenon
  <2>2. Len(s) - n + k \in 1..Len(s) + Len(t)
    BY <1>1
  <2>3. CASE k <= n
    BY <1>1, <1>2, <1>4, <1>6, <2>1, <2>2, <2>3
  <2>4. CASE ~(k <= n)
    <3>1. ~(Len(s) - n + k <= Len(s)) /\ Len(s) - n + k - Len(s) = k - n
      BY <1>1, <2>4
    <3>2. (s \o t)[Len(s) - n + k] = t[k - n]
      BY <1>2, <2>2, <3>1
    <3> QED BY <1>6, <2>1, <2>4, <3>2
  <2> QED BY <2>3, <2>4
<1>8. Suffix(s, n) \o t = Suffix(s \o t, n + Len(t))
  BY <1>5, <1>6, <1>7, SeqEqual
<1> QED BY <1>3, <1>8

\* Taking the first elements of a sequence leaves the others.
LEMMA Halves ==
  ASSUME NEW S, NEW s \in Seq(S), NEW n \in 1..(Len(s) - 1)
  PROVE  /\ SubSeq(s, 1, n) \in Seq(S) /\ Len(SubSeq(s, 1, n)) = n
         /\ SubSeq(s, n + 1, Len(s)) \in Seq(S) /\ SubSeq(s, n + 1, Len(s)) # <<>>
         /\ SubSeq(s, 1, n) \o SubSeq(s, n + 1, Len(s)) = s
<1>1. /\ Len(s) \in Nat /\ n \in Nat /\ 1 <= n /\ n < Len(s)
      /\ 1 \in Int /\ n \in Int /\ Len(s) \in Int /\ n + 1 \in Int
  BY LenProperties
<1>2. \A i \in 1..Len(s) : s[i] \in S
  BY ElementOfSeq
<1>3. SubSeq(s, 1, n) \in Seq(S) /\ Len(SubSeq(s, 1, n)) = n
  <2>1. \A i \in 1..n : s[i] \in S
    BY <1>1, <1>2
  <2> QED BY <1>1, <2>1, SubSeqProperties
<1>4. SubSeq(s, n + 1, Len(s)) \in Seq(S) /\ SubSeq(s, n + 1, Len(s)) # <<>>
  <2>1. \A i \in (n + 1)..Len(s) : s[i] \in S
    BY <1>1, <1>2
  <2>2. /\ SubSeq(s, n + 1, Len(s)) \in Seq(S)
        /\ Len(SubSeq(s, n + 1, Len(s))) = IF n + 1 <= Len(s) THEN Len(s) - (n + 1) + 1 ELSE 0
    BY <1>1, <2>1, SubSeqProperties
  <2>3. Len(SubSeq(s, n + 1, Len(s))) # 0
    BY <1>1, <2>2
  <2> QED BY <2>2, <2>3, EmptySeq
<1>5. SubSeq(s, 1, n) \o SubSeq(s, n + 1, Len(s)) = SubSeq(s, 1, Len(s))
  <2>1. 1 \in 1..Len(s) + 1 /\ n \in 1 - 1..Len(s) /\ Len(s) \in n..Len(s)
    BY <1>1
  <2> QED BY <2>1, ConcatAdjacentSubSeq
<1>6. SubSeq(s, 1, Len(s)) = s
  BY SubSeqFull
<1> QED BY <1>3, <1>4, <1>5, <1>6

(***************************************************************************)
(* The invariant                                                           *)
(***************************************************************************)

\* What of the older turns is neither in the window nor lost.
Taken == IF dropped = <<>> THEN taken ELSE dropped

\* The memory of the call is the end of the call.
Contiguous == IsSuffixOf(summary \o Taken \o window, said)

\* Where turns can be on the way, and where they can be lost.
InPlace ==
  /\ pc # "compressing" => taken = <<>>
  /\ pc = "compressing" => Len(taken) = TURNS_TO_COMPRESS /\ window # <<>>
  /\ pc \notin {"over", "finalized"} => dropped = <<>>
  /\ dropped # <<>> => Len(dropped) = TURNS_TO_COMPRESS /\ window # <<>> /\ taken = <<>>

\* The words that have not been handed over are the latest.
Latest ==
  /\ pc \in {"asking", "compressing"} => said # <<>>
  /\ pc = "asking" => said[Len(said)] = Turn("caller")
  /\ pc = "compressing" /\ said[Len(said)].who = "caller" => said[Len(said)] = Turn("caller")

Before == {"compressing", "asking", "replying", "noting"}

\* An answer was taken in an earlier round, or at the end of this one.
Answered ==
  \A f \in Fields : pc # "finalized" /\ Heard(f) =>
     intake[f] <= round /\ (pc \in Before => intake[f] < round)

Types ==
  /\ pc \in {"greeting", "listening", "compressing", "asking", "replying", "noting", "saving",
             "over", "finalized"}
  /\ round \in 0..MaxRounds
  /\ window \in Seq(Turns) /\ taken \in Seq(Turns) /\ summary \in Seq(Turns)
  /\ said \in Seq(Turns) /\ dropped \in Seq(Turns)

Memory == Types /\ Contiguous /\ InPlace

\* The other types.
Rest ==
  /\ history \in Seq(Turns)
  /\ agentPhase \in ConversationPhase /\ statePhase \in ConversationPhase
  /\ intake \in [Fields -> 0..Known]
  /\ score \in 0..100

Inv == Memory /\ Rest /\ Latest /\ HistoryKnowsTheCall /\ Answered /\ AnswersInOrder

(***************************************************************************)
(* The context                                                             *)
(***************************************************************************)

\* Putting three sequences of turns end to end, the grouping does not matter.
LEMMA TurnsAssociative ==
  \A a, b, c \in Seq(Turns) : (a \o b) \o c = a \o (b \o c)
<1>1. ASSUME NEW a \in Seq(Turns), NEW b \in Seq(Turns), NEW c \in Seq(Turns)
      PROVE  (a \o b) \o c = a \o (b \o c)
  BY ConcatAssociative, SMTT(30)
<1> QED BY <1>1, Zenon

\* A new turn keeps the memory the end of the call, compressed or not.
LEMMA AddTurnKeepsMemory ==
  ASSUME Memory, pc \notin {"compressing", "over", "finalized"}, NEW t \in Turns, AddTurn(t),
         round' \in 0..MaxRounds, dropped' = dropped
  PROVE  Memory'
<1> USE DEF Memory, Types
<1>1. taken = <<>> /\ dropped = <<>> /\ Taken = <<>>
  BY DEF InPlace, Taken
<1> DEFINE w == Append(window, t)
<1>2. /\ w \in Seq(Turns) /\ Len(w) = Len(window) + 1 /\ w # <<>>
      /\ Append(said, t) \in Seq(Turns)
  BY AppendProperties
<1>3. IsSuffixOf(summary \o w, said')
  <2>1. summary \o <<>> = summary
    BY ConcatEmptySeq
  <2>2. IsSuffixOf(summary \o window, said)
    BY <1>1, <2>1 DEF Contiguous
  <2>3. summary \o window \in Seq(Turns)
    BY ConcatProperties
  <2>4. IsSuffixOf(Append(summary \o window, t), said')
    BY <2>2, <2>3, SuffixGrows DEF AddTurn
  <2>5. Append(summary \o window, t) = (summary \o window) \o <<t>>
    BY <2>3, AppendIsConcat
  <2>6. <<t>> \in Seq(Turns)
    OBVIOUS
  <2>7. (summary \o window) \o <<t>> = summary \o (window \o <<t>>)
    <3>1. summary \in Seq(Turns) /\ window \in Seq(Turns)
      OBVIOUS
    <3> HIDE DEF Memory, Types, w
    <3> QED BY <2>6, <3>1, TurnsAssociative, Zenon
  <2>8. window \o <<t>> = w
    BY AppendIsConcat
  <2> QED BY <2>4, <2>5, <2>7, <2>8
<1>4. CASE Len(w) > HISTORY_MAX_TURNS
  <2> DEFINE B == TURNS_TO_COMPRESS
  <2>1. /\ taken' = SubSeq(w, 1, B) /\ window' = SubSeq(w, B + 1, Len(w))
        /\ pc' = "compressing" /\ summary' = summary /\ said' = Append(said, t)
    BY <1>4 DEF AddTurn
  <2>2. B \in Nat /\ B >= 1 /\ Len(w) \in Nat /\ B < Len(w)
    BY <1>2, <1>4, LenProperties, WindowAssumption
  <2>3. B \in 1..(Len(w) - 1)
    BY <2>2
  <2>4. taken' \in Seq(Turns) /\ Len(taken') = B
    BY <1>2, <2>1, <2>3, Halves
  <2>5. window' \in Seq(Turns) /\ window' # <<>>
    BY <1>2, <2>1, <2>3, Halves
  <2>6. taken' \o window' = w
    BY <1>2, <2>1, <2>3, Halves
  <2>7. (summary \o taken') \o window' = summary \o w
    <3>1. summary \in Seq(Turns) /\ taken' \in Seq(Turns) /\ window' \in Seq(Turns)
      BY <2>4, <2>5
    <3> HIDE DEF Memory, Types, w, B
    <3>2. (summary \o taken') \o window' = summary \o (taken' \o window')
      BY <3>1, TurnsAssociative, Zenon
    <3> QED BY <2>6, <3>2
  <2>8. Contiguous'
    BY <1>1, <1>3, <2>1, <2>7 DEF Contiguous, Taken
  <2>9. InPlace'
    BY <1>1, <2>1, <2>4, <2>5 DEF InPlace
  <2> QED BY <1>2, <2>1, <2>4, <2>5, <2>8, <2>9
<1>5. CASE ~(Len(w) > HISTORY_MAX_TURNS)
  <2>1. /\ taken' = taken /\ window' = w /\ summary' = summary /\ said' = Append(said, t)
        /\ pc' \in {"asking", "noting"}
    BY <1>5 DEF AddTurn, After
  <2>2. summary \o <<>> = summary
    BY ConcatEmptySeq
  <2>3. Contiguous'
    BY <1>1, <1>3, <2>1, <2>2 DEF Contiguous, Taken
  <2>4. InPlace'
    BY <1>1, <2>1 DEF InPlace
  <2> QED BY <1>1, <1>2, <2>1, <2>3, <2>4
<1> QED BY <1>4, <1>5

\* The summary of the oldest turns takes their place, and may lose its own beginning.
LEMMA CompressedKeepsMemory ==
  ASSUME Memory, Compressed
  PROVE  Memory'
<1> USE DEF Memory, Types
<1>1. dropped = <<>> /\ Taken = taken /\ pc = "compressing"
  BY DEF InPlace, Taken, Compressed
<1>2. /\ pc' \in {"asking", "noting"} /\ summary' = Merged /\ taken' = <<>>
      /\ UNCHANGED <<window, said, dropped, round>>
  BY DEF Compressed, After
<1> DEFINE both == summary \o taken
<1>3. both \in Seq(Turns) /\ IsSuffixOf(both \o window, said)
  BY <1>1, ConcatProperties DEF Contiguous
<1>4. Merged \in Seq(Turns) /\ IsSuffixOf(Merged \o window, said)
  <2>1. CASE summary # <<>> /\ Len(both) > SummaryTurns
    <3>1. Merged = Suffix(both, SummaryTurns)
      BY <2>1 DEF Merged
    <3>2. SummaryTurns \in 0..Len(both)
      BY <1>3, <2>1, LenProperties, SummaryAssumption
    <3>3. both \o window \in Seq(Turns)
      BY <1>3, ConcatProperties
    <3>4. /\ SummaryTurns + Len(window) \in 0..Len(both \o window)
          /\ Merged \o window = Suffix(both \o window, SummaryTurns + Len(window))
      BY <1>3, <3>1, <3>2, CutBoth
    <3>5. IsSuffixOf(Suffix(both \o window, SummaryTurns + Len(window)), said)
      BY <1>3, <3>3, <3>4, SuffixCut
    <3>6. Merged \in Seq(Turns)
      BY <1>3, <3>1, <3>2, SuffixElements
    <3> QED BY <3>4, <3>5, <3>6
  <2>2. CASE ~(summary # <<>> /\ Len(both) > SummaryTurns)
    BY <1>3, <2>2 DEF Merged
  <2> QED BY <2>1, <2>2
<1>5. Merged \o <<>> = Merged
  BY <1>4, ConcatEmptySeq
<1>6. Contiguous'
  BY <1>1, <1>2, <1>4, <1>5 DEF Contiguous, Taken
<1>7. InPlace'
  BY <1>1, <1>2 DEF InPlace
<1> QED BY <1>2, <1>4, <1>6, <1>7

\* Turns that could not be summarised go back where they came from.
LEMMA FailedCompressionKeepsMemory ==
  ASSUME Memory, CompressionFails
  PROVE  Memory'
<1> USE DEF Memory, Types
<1>1. dropped = <<>> /\ Taken = taken /\ pc = "compressing"
  BY DEF InPlace, Taken, CompressionFails
<1>2. /\ pc' \in {"asking", "noting"} /\ window' = taken \o window /\ taken' = <<>>
      /\ UNCHANGED <<summary, said, dropped, round>>
  BY DEF CompressionFails, After
<1>3. window' \in Seq(Turns)
  BY <1>2, ConcatProperties
<1>4. (summary \o <<>>) \o (taken \o window) = (summary \o taken) \o window
  <2>1. summary \in Seq(Turns) /\ taken \in Seq(Turns) /\ window \in Seq(Turns)
    OBVIOUS
  <2>2. summary \o <<>> = summary
    BY <2>1, ConcatEmptySeq
  <2>3. (summary \o taken) \o window = summary \o (taken \o window)
    BY <2>1, TurnsAssociative, Zenon
  <2> QED BY <2>2, <2>3
<1>5. Contiguous'
  BY <1>1, <1>2, <1>4 DEF Contiguous, Taken
<1>6. InPlace'
  BY <1>1, <1>2 DEF InPlace
<1> QED BY <1>2, <1>3, <1>5, <1>6

\* A hang-up only renames what was being compressed.
LEMMA HangUpKeepsMemory ==
  ASSUME Memory, HangUp
  PROVE  Memory'
<1> USE DEF Memory, Types
<1>1. dropped = <<>> /\ Taken = taken
  BY DEF InPlace, Taken, HangUp
<1>2. /\ pc' = "over" /\ dropped' = taken /\ taken' = <<>>
      /\ UNCHANGED <<window, summary, said, round>>
  BY DEF HangUp
<1>3. Taken' = taken
  BY <1>2 DEF Taken
<1>4. Contiguous'
  BY <1>1, <1>2, <1>3 DEF Contiguous
<1>5. InPlace'
  BY <1>2, EmptySeq DEF InPlace
<1> QED BY <1>2, <1>4, <1>5

(***************************************************************************)
(* Every step                                                              *)
(***************************************************************************)

LEMMA TurnsAreTurns ==
  ASSUME round \in 0..MaxRounds
  PROVE  \A who \in {"caller", "agent", "partial"} : Turn(who) \in Turns
BY RoundsAssumption DEF Turn, Turns

\* What AddTurn does to the list of turns and to the loop.
LEMMA AddTurnSays ==
  ASSUME said \in Seq(Turns), NEW t \in Turns, AddTurn(t)
  PROVE  /\ said' \in Seq(Turns) /\ said' # <<>> /\ Len(said') = Len(said) + 1
         /\ said'[Len(said')] = t
         /\ \A k \in DOMAIN said : said'[k] = said[k]
         /\ pc' \in {"compressing", After(t)}
         /\ DOMAIN said = 1..Len(said) /\ DOMAIN said' = 1..(Len(said) + 1)
<1>1. said' = Append(said, t) /\ pc' \in {"compressing", After(t)}
  BY DEF AddTurn
<1>2. Len(said) \in Nat /\ DOMAIN said = 1..Len(said)
  BY LenProperties
<1>3. /\ said' \in Seq(Turns) /\ said' # <<>> /\ Len(said') = Len(said) + 1
      /\ \A i \in 1..Len(said) : said'[i] = said[i]
      /\ said'[Len(said) + 1] = t
  BY <1>1, AppendProperties
<1>4. DOMAIN said' = 1..Len(said')
  BY <1>3, LenProperties
<1> QED BY <1>1, <1>2, <1>3, <1>4

\* A turn taken from the queue, with the round it opens.
LEMMA CallerTurnIsATurn ==
  ASSUME round \in 0..MaxRounds, CallerTurn
  PROVE  /\ round' \in 0..MaxRounds /\ Turn("caller")' = [who |-> "caller", round |-> round + 1]
         /\ [who |-> "caller", round |-> round + 1] \in Turns
BY RoundsAssumption DEF CallerTurn, Turn, Turns

LEMMA MemoryStep ==
  ASSUME Inv, [Next]_vars
  PROVE  Memory'
<1> USE DEF Inv
<1>1. round \in 0..MaxRounds
  BY DEF Memory, Types
<1>2. CASE CallerTurn
  <2>1. AddTurn([who |-> "caller", round |-> round + 1]) /\ pc = "listening" /\ dropped' = dropped
    BY <1>2 DEF CallerTurn
  <2> QED BY <1>1, <1>2, <2>1, CallerTurnIsATurn, AddTurnKeepsMemory
<1>3. CASE ReplyRead \/ ReplyCut
  <2>1. pc = "replying" /\ dropped' = dropped /\ round' = round
    BY <1>3 DEF ReplyRead, ReplyCut
  <2>2. CASE AddTurn(Turn("agent"))
    BY <1>1, <2>1, <2>2, TurnsAreTurns, AddTurnKeepsMemory
  <2>3. CASE AddTurn(Turn("partial"))
    BY <1>1, <2>1, <2>3, TurnsAreTurns, AddTurnKeepsMemory
  <2>4. CASE pc' = "listening" /\ UNCHANGED context
    BY <2>1, <2>4 DEF Memory, Types, Contiguous, InPlace, Taken
  <2> QED BY <1>3, <2>2, <2>3, <2>4 DEF ReplyRead, ReplyCut
<1>4. CASE Compressed
  BY <1>4, CompressedKeepsMemory
<1>5. CASE CompressionFails
  BY <1>5, FailedCompressionKeepsMemory
<1>6. CASE HangUp
  BY <1>6, HangUpKeepsMemory
<1>7. CASE Greet \/ Ask \/ NoteAnswer \/ StateSaved \/ Finalize \/ UNCHANGED vars
  <2>1. UNCHANGED <<window, taken, summary, said, dropped, round>>
    BY <1>7 DEF Greet, Ask, NoteAnswer, StateSaved, Finalize, vars
  <2>2. \/ pc' = pc
        \/ pc # "compressing" /\ pc' \in {"listening", "replying", "saving"} /\ pc \notin {"over", "finalized"}
        \/ pc = "over" /\ pc' = "finalized"
    BY <1>7 DEF Greet, Ask, NoteAnswer, StateSaved, Finalize, vars
  <2> QED BY <2>1, <2>2 DEF Memory, Types, Contiguous, InPlace, Taken
<1> QED BY <1>2, <1>3, <1>4, <1>5, <1>6, <1>7 DEF Next

\* A score is clamped, whatever the LLM makes of the caller.
LEMMA ScoresAreScores ==
  ASSUME NEW value \in Nat, NEW readiness \in Nat, NEW facts \in Nat
  PROVE  LeadScore(value, UrgencyScore, readiness, facts) \in 0..100
<1>1. Min2((5 * UrgencyScore + 1) \div 2, 25) \in Nat
  BY DEF UrgencyScore, Min2
<1>2. (25 * facts) \div CriticalFields \in Nat
  <2>1. \A k \in Nat : k \div 6 \in Nat
    OBVIOUS
  <2>2. 25 * facts \in Nat
    OBVIOUS
  <2> QED BY <2>1, <2>2, Zenon DEF CriticalFields
<1>3. Min2((25 * facts) \div CriticalFields, 25) \in Nat
  BY <1>2 DEF Min2
<1>4. \A a \in Nat, b \in Nat : a + b \in Nat
  OBVIOUS
<1>5. value + Min2((5 * UrgencyScore + 1) \div 2, 25) + readiness
        + Min2((25 * facts) \div CriticalFields, 25) \in Nat
  BY <1>1, <1>3, <1>4, Zenon
<1>6. \A k \in Nat : Min2(k, 100) \in 0..100
  BY DEF Min2
<1> QED BY <1>5, <1>6, Zenon DEF LeadScore

LEMMA RestStep ==
  ASSUME Inv, [Next]_vars
  PROVE  Rest'
<1> USE DEF Inv, Rest
<1>1. round \in 0..MaxRounds
  BY DEF Memory, Types
<1>2. /\ Turn("caller") \in Turns /\ Turn("agent") \in Turns
  BY <1>1, TurnsAreTurns
<1>3. CASE Greet \/ Ask \/ ReplyRead
  <2>1. history' \in Seq(Turns)
    BY <1>2, <1>3, AppendProperties DEF Greet, Ask, ReplyRead
  <2>2. agentPhase' \in ConversationPhase
    BY <1>3, MarkersAssumption DEF Greet, Ask, ReplyRead, MaybeAdvancePhase
  <2> QED BY <1>3, <2>1, <2>2 DEF Greet, Ask, ReplyRead
<1>4. CASE NoteAnswer
  <2>1. round \in 0..Known
    BY <1>1, RoundsAssumption DEF Known
  <2>2. intake' \in [Fields -> 0..Known]
    BY <1>4, <2>1 DEF NoteAnswer
  <2> QED BY <1>4, <2>2 DEF NoteAnswer
<1>5. CASE Finalize
  <2>1. PICK found \in SUBSET Fields, readiness \in Readiness :
          LET answers == [f \in Fields |-> IF f \in found THEN Extracted ELSE intake[f]] IN
          /\ intake' = answers
          /\ \E value \in IF answers[CaseType] = Missing THEN {UnknownCase} ELSE CaseValues :
               score' = LeadScore(value, UrgencyScore, readiness, Facts(answers))
    BY <1>5 DEF Finalize
  <2> DEFINE answers == [f \in Fields |-> IF f \in found THEN Extracted ELSE intake[f]]
  <2>2. Extracted \in 0..Known
    BY RoundsAssumption DEF Extracted, Known
  <2>3. intake' = answers /\ answers \in [Fields -> 0..Known]
    BY <2>1, <2>2
  <2>4. Facts(answers) \in Nat
    <3>1. IsFiniteSet(Fields)
      BY QuestionsAssumption, FS_Interval DEF Fields
    <3>2. Cardinality({f \in Fields : answers[f] # Missing}) \in Nat
      BY <3>1, FS_Subset, FS_CardinalityType
    <3> QED BY <3>2 DEF Facts
  <2>5. readiness \in Nat
    BY DEF Readiness, DefaultReadiness
  <2>6. \A value \in Nat : LeadScore(value, UrgencyScore, readiness, Facts(answers)) \in 0..100
    BY <2>4, <2>5, ScoresAreScores
  <2>7. score' \in 0..100
    <3>1. \A value \in IF answers[CaseType] = Missing THEN {UnknownCase} ELSE CaseValues : value \in Nat
      BY DEF UnknownCase, CaseValues
    <3>2. \E value \in IF answers[CaseType] = Missing THEN {UnknownCase} ELSE CaseValues :
            score' = LeadScore(value, UrgencyScore, readiness, Facts(answers))
      BY <2>1
    <3> QED BY <2>6, <3>1, <3>2, Zenon
  <2> QED BY <1>5, <2>3, <2>7 DEF Finalize
<1>6. CASE CallerTurn \/ Compressed \/ CompressionFails \/ ReplyCut \/ StateSaved \/ HangUp \/ UNCHANGED vars
  BY <1>6 DEF CallerTurn, Compressed, CompressionFails, ReplyCut, StateSaved, HangUp, vars
<1> QED BY <1>3, <1>4, <1>5, <1>6 DEF Next

LEMMA LatestStep ==
  ASSUME Inv, [Next]_vars
  PROVE  Latest'
<1> USE DEF Inv, Latest
<1>1. round \in 0..MaxRounds /\ said \in Seq(Turns)
  BY DEF Memory, Types
<1>2. CASE CallerTurn
  <2> DEFINE t == [who |-> "caller", round |-> round + 1]
  <2>1. AddTurn(t) /\ t \in Turns /\ Turn("caller")' = t
    BY <1>1, <1>2, CallerTurnIsATurn DEF CallerTurn
  <2>2. said' # <<>> /\ said'[Len(said')] = t
    BY <1>1, <2>1, AddTurnSays
  <2> QED BY <2>1, <2>2
<1>3. CASE ReplyRead \/ ReplyCut
  <2>1. ASSUME NEW who \in {"agent", "partial"}, AddTurn(Turn(who))
        PROVE  Latest'
    <3>1. Turn(who) \in Turns /\ Turn(who).who # "caller" /\ After(Turn(who)) = "noting"
      BY <1>1, TurnsAreTurns DEF Turn, After
    <3>2. said' # <<>> /\ said'[Len(said')] = Turn(who) /\ pc' \in {"compressing", "noting"}
      BY <1>1, <2>1, <3>1, AddTurnSays
    <3> QED BY <3>1, <3>2
  <2>2. CASE pc' = "listening"
    BY <2>2
  <2> QED BY <1>3, <2>1, <2>2 DEF ReplyRead, ReplyCut
<1>4. CASE Compressed \/ CompressionFails
  <2>1. pc = "compressing" /\ pc' = After(said[Len(said)]) /\ UNCHANGED <<said, round>>
    BY <1>4 DEF Compressed, CompressionFails
  <2> QED BY <2>1 DEF After, Turn
<1>5. CASE Greet \/ Ask \/ NoteAnswer \/ StateSaved \/ HangUp \/ Finalize \/ UNCHANGED vars
  BY <1>5 DEF Greet, Ask, NoteAnswer, StateSaved, HangUp, Finalize, vars, Turn
<1> QED BY <1>2, <1>3, <1>4, <1>5 DEF Next

\* Where the words of the caller may not be known to the agent yet.
Pending == {"compressing", "asking", "over", "finalized"}

Among(h, t) == \E k \in DOMAIN h : h[k] = t

\* Turn k of s is known to history h, or need not be when the loop is at p.
Excused(h, s, p, k) ==
  \/ Among(h, s[k])
  \/ s[k].who = "partial"
  \/ k = Len(s) /\ s[k].who = "caller" /\ p \in Pending

Knows(h, s, p) == \A k \in DOMAIN s : Excused(h, s, p, k)

LEMMA KnowsTheCall ==
  /\ HistoryKnowsTheCall <=> Knows(history, said, pc)
  /\ HistoryKnowsTheCall' <=> Knows(history', said', pc')
BY DEF HistoryKnowsTheCall, Knows, Excused, Among, InHistory, Pending

\* What is appended is known from then on, and nothing is forgotten.
LEMMA AppendKnows ==
  ASSUME NEW h \in Seq(Turns), NEW t \in Turns
  PROVE  /\ Among(Append(h, t), t)
         /\ \A u : Among(h, u) => Among(Append(h, t), u)
<1>1. /\ Len(h) \in Nat /\ DOMAIN h = 1..Len(h) /\ DOMAIN Append(h, t) = 1..(Len(h) + 1)
      /\ Append(h, t)[Len(h) + 1] = t
      /\ \A k \in 1..Len(h) : Append(h, t)[k] = h[k]
  BY AppendProperties, LenProperties
<1> QED BY <1>1 DEF Among

\* A turn is added to a call whose turns are known to the history.
LEMMA AddTurnKnows ==
  ASSUME said \in Seq(Turns), NEW t \in Turns, AddTurn(t),
         \A k \in DOMAIN said : Among(history', said[k]) \/ said[k].who = "partial",
         Among(history', t) \/ t.who = "partial" \/ (t.who = "caller" /\ pc' \in Pending)
  PROVE  Knows(history', said', pc')
<1>1. /\ said'[Len(said')] = t /\ Len(said') = Len(said) + 1
      /\ \A k \in DOMAIN said : said'[k] = said[k]
      /\ DOMAIN said = 1..Len(said) /\ DOMAIN said' = 1..(Len(said) + 1)
  BY AddTurnSays
<1>2. Len(said) \in Nat
  BY LenProperties
<1>3. ASSUME NEW k \in DOMAIN said'
      PROVE  Excused(history', said', pc', k)
  <2>1. CASE k = Len(said')
    BY <1>1, <2>1 DEF Excused, Among
  <2>2. CASE k \in DOMAIN said
    BY <1>1, <2>2 DEF Excused
  <2> QED BY <1>1, <1>2, <2>1, <2>2
<1> QED BY <1>3 DEF Knows

LEMMA HistoryStep ==
  ASSUME Inv, [Next]_vars
  PROVE  HistoryKnowsTheCall'
<1> USE DEF Inv
<1>1. round \in 0..MaxRounds /\ said \in Seq(Turns) /\ history \in Seq(Turns)
  BY DEF Memory, Types, Rest
<1>2. Knows(history, said, pc)
  BY KnowsTheCall
<1>3. pc \notin Pending => \A k \in DOMAIN said : Among(history, said[k]) \/ said[k].who = "partial"
  BY <1>2 DEF Knows, Excused
<1>4. \A who \in {"caller", "agent", "partial"} : Turn(who) \in Turns /\ Turn(who).who = who
  BY <1>1, TurnsAreTurns DEF Turn
<1>5. SUFFICES Knows(history', said', pc')
  BY KnowsTheCall
<1>6. CASE CallerTurn
  <2> DEFINE t == [who |-> "caller", round |-> round + 1]
  <2>1. AddTurn(t) /\ t \in Turns /\ pc \notin Pending /\ history' = history
    BY <1>1, <1>6, CallerTurnIsATurn DEF CallerTurn, Pending
  <2>2. pc' \in {"compressing", After(t)}
    BY <1>1, <2>1, AddTurnSays
  <2>3. t.who = "caller" /\ pc' \in Pending
    BY <2>2 DEF After, Pending
  <2> QED BY <1>1, <1>3, <2>1, <2>3, AddTurnKnows
<1>7. CASE Ask
  <2>1. history' = Append(history, Turn("caller")) /\ said' = said /\ said[Len(said)] = Turn("caller")
    BY <1>7 DEF Ask, Latest
  <2>2. Among(history', Turn("caller")) /\ \A u : Among(history, u) => Among(history', u)
    BY <1>1, <1>4, <2>1, AppendKnows
  <2> QED BY <1>2, <2>1, <2>2 DEF Knows, Excused
<1>8. CASE ReplyRead
  <2>1. history' = Append(history, Turn("agent")) /\ pc \notin Pending
    BY <1>8 DEF ReplyRead, Pending
  <2>2. Among(history', Turn("agent")) /\ \A u : Among(history, u) => Among(history', u)
    BY <1>1, <1>4, <2>1, AppendKnows
  <2>3. \A k \in DOMAIN said : Among(history', said[k]) \/ said[k].who = "partial"
    BY <1>3, <2>1, <2>2
  <2>4. CASE UNCHANGED context
    <3>1. said' = said
      BY <2>4
    <3> QED BY <2>3, <3>1 DEF Knows, Excused
  <2>5. CASE AddTurn(Turn("agent"))
    <3> DEFINE t == Turn("agent")
    <3>1. t \in Turns /\ AddTurn(t) /\ Among(history', t)
      BY <1>4, <2>2, <2>5
    <3> HIDE DEF t
    <3> QED BY <1>1, <2>3, <3>1, AddTurnKnows
  <2> QED BY <1>8, <2>4, <2>5 DEF ReplyRead
<1>9. CASE ReplyCut
  <2>1. history' = history /\ pc \notin Pending
    BY <1>9 DEF ReplyCut, Pending
  <2>2. \A k \in DOMAIN said : Among(history', said[k]) \/ said[k].who = "partial"
    BY <1>3, <2>1
  <2>3. CASE UNCHANGED context
    <3>1. said' = said
      BY <2>3
    <3> QED BY <2>2, <3>1 DEF Knows, Excused
  <2>4. CASE AddTurn(Turn("partial"))
    <3> DEFINE t == Turn("partial")
    <3>1. t \in Turns /\ AddTurn(t) /\ t.who = "partial"
      BY <1>4, <2>4
    <3> HIDE DEF t
    <3> QED BY <1>1, <2>2, <3>1, AddTurnKnows
  <2> QED BY <1>9, <2>3, <2>4 DEF ReplyCut
<1>10. CASE Greet
  <2>1. pc \notin Pending /\ said' = said /\ (history' = history \/ history' = Append(history, Turn("agent")))
    BY <1>10 DEF Greet, Pending
  <2>2. \A u : Among(history, u) => Among(history', u)
    BY <1>1, <1>4, <2>1, AppendKnows
  <2> QED BY <1>3, <2>1, <2>2 DEF Knows, Excused
<1>11. CASE Compressed \/ CompressionFails
  <2>1. pc = "compressing" /\ pc' = After(said[Len(said)]) /\ UNCHANGED <<said, history>>
    BY <1>11 DEF Compressed, CompressionFails
  <2> QED BY <1>2, <2>1 DEF Knows, Excused, After, Pending
<1>12. CASE NoteAnswer \/ StateSaved \/ HangUp \/ Finalize \/ UNCHANGED vars
  <2>1. UNCHANGED <<said, history>> /\ (pc \in Pending => pc' \in Pending)
    BY <1>12 DEF NoteAnswer, StateSaved, HangUp, Finalize, vars, Pending
  <2> QED BY <1>2, <2>1 DEF Knows, Excused
<1> QED BY <1>6, <1>7, <1>8, <1>9, <1>10, <1>11, <1>12 DEF Next

\* Rounds only pass between answers.
LEMMA AnsweredStep ==
  ASSUME Inv, [Next]_vars
  PROVE  Answered'
<1> USE DEF Inv, Before
<1>1. round \in 0..MaxRounds /\ intake \in [Fields -> 0..Known] /\ MaxRounds \in Nat
  BY RoundsAssumption DEF Memory, Types, Rest
<1>2. CASE CallerTurn
  <2>1. round' = round + 1 /\ intake' = intake /\ pc = "listening" /\ pc' # "finalized"
    BY <1>2 DEF CallerTurn, AddTurn, After
  <2> QED BY <1>1, <2>1 DEF Answered, Heard
<1>3. CASE NoteAnswer
  <2>1. pc = "noting" /\ pc' = "saving" /\ round' = round
    BY <1>3 DEF NoteAnswer
  <2>2. \A f \in Fields : intake'[f] = intake[f] \/ intake'[f] = round
    BY <1>1, <1>3 DEF NoteAnswer
  <2> QED BY <1>1, <2>1, <2>2 DEF Answered, Heard
<1>4. CASE Finalize
  BY <1>4 DEF Finalize, Answered
<1>5. CASE \/ Compressed \/ CompressionFails \/ Ask \/ ReplyRead \/ ReplyCut
           \/ Greet \/ StateSaved \/ HangUp \/ UNCHANGED vars
  <2>1. intake' = intake /\ round' = round
    BY <1>5 DEF Compressed, CompressionFails, Ask, ReplyRead, ReplyCut, Greet, StateSaved, HangUp, vars
  <2>2. (pc' \in Before => pc \in Before) /\ (pc = "finalized" => pc' = "finalized")
    BY <1>5 DEF Compressed, CompressionFails, Ask, ReplyRead, ReplyCut, Greet, StateSaved, HangUp, vars,
                AddTurn, After, Turn
  <2> QED BY <2>1, <2>2 DEF Answered, Heard
<1> QED BY <1>2, <1>3, <1>4, <1>5 DEF Next

LEMMA OrderStep ==
  ASSUME Inv, [Next]_vars
  PROVE  AnswersInOrder'
<1> USE DEF Inv
<1>1. round \in 0..MaxRounds /\ intake \in [Fields -> 0..Known] /\ MaxRounds \in Nat /\ Fields \subseteq Nat
  BY RoundsAssumption, QuestionsAssumption DEF Memory, Types, Rest, Fields
<1>2. CASE NoteAnswer /\ intake' # intake
  <2>1. PICK h \in Fields : IsNextQuestion(h) /\ intake' = [intake EXCEPT ![h] = round]
    BY <1>2 DEF NoteAnswer
  <2>2. pc = "noting" /\ pc' = "saving"
    BY <1>2 DEF NoteAnswer
  <2>3. intake[h] = Missing /\ \A g \in Fields : intake[g] = Missing => h <= g
    BY <2>1 DEF IsNextQuestion, Unanswered
  <2>4. intake'[h] = round /\ \A f \in Fields : f # h => intake'[f] = intake[f]
    BY <1>1, <2>1
  <2>5. \A f \in Fields : Heard(f) => intake[f] < round
    BY <2>2 DEF Answered, Before
  <2>6. ASSUME NEW f \in Fields, NEW g \in Fields, f < g, Heard(g)'
        PROVE  intake'[f] # Missing /\ (Heard(f)' => intake'[f] < intake'[g])
    <3>1. CASE g = h
      <4>1. f # h /\ intake[f] # Missing
        BY <1>1, <2>3, <2>6, <3>1
      <4> QED BY <2>4, <2>5, <3>1, <4>1 DEF Heard
    <3>2. CASE g # h
      <4>1. intake'[g] = intake[g] /\ Heard(g)
        BY <2>4, <2>6, <3>2 DEF Heard
      <4>2. intake[f] # Missing /\ (Heard(f) => intake[f] < intake[g])
        BY <2>2, <2>6, <4>1 DEF AnswersInOrder
      <4>3. f # h
        BY <2>3, <4>2
      <4> QED BY <2>4, <4>1, <4>2, <4>3 DEF Heard
    <3> QED BY <3>1, <3>2
  <2> QED BY <2>6 DEF AnswersInOrder
<1>3. CASE intake' = intake
  <2>1. pc = "finalized" => pc' = "finalized"
    BY DEF Next, CallerTurn, Compressed, CompressionFails, Ask, ReplyRead, ReplyCut, Greet,
           NoteAnswer, StateSaved, HangUp, Finalize, vars
  <2> QED BY <1>3, <2>1 DEF AnswersInOrder, Heard
<1>4. CASE Finalize
  BY <1>4 DEF Finalize, AnswersInOrder
<1> QED BY <1>2, <1>3, <1>4 DEF Next, CallerTurn, Compressed, CompressionFails, Ask, ReplyRead, ReplyCut,
                                Greet, StateSaved, HangUp, vars

LEMMA InvStep == Inv /\ [Next]_vars => Inv'
BY MemoryStep, RestStep, LatestStep, HistoryStep, AnsweredStep, OrderStep DEF Inv

LEMMA InvInit == Init => Inv
<1> SUFFICES ASSUME Init PROVE Inv
  OBVIOUS
<1> USE DEF Init
<1>1. <<>> \in Seq(Turns) /\ 0 \in 0..MaxRounds
  BY EmptySeq, RoundsAssumption
<1>2. Memory
  <2>1. (<<>> \o <<>>) \o <<>> = <<>>
    BY <1>1, ConcatEmptySeq
  <2>2. Contiguous
    BY <2>1 DEF Contiguous, Taken, IsSuffixOf
  <2> QED BY <1>1, <2>2 DEF Memory, Types, InPlace
<1>3. Rest
  <2>1. Turn("caller") \in Turns
    BY <1>1, TurnsAreTurns
  <2>2. <<Turn("caller")>> \in Seq(Turns)
    BY <2>1
  <2>3. intake \in [Fields -> 0..Known]
    BY RoundsAssumption DEF Missing, Known
  <2> QED BY <2>2, <2>3 DEF Rest, ConversationPhase
<1>4. Latest /\ HistoryKnowsTheCall
  BY DEF Latest, HistoryKnowsTheCall
<1>5. \A f \in Fields : ~Heard(f)
  BY RoundsAssumption DEF Heard, Missing, Known
<1> QED BY <1>2, <1>3, <1>4, <1>5 DEF Inv, Answered, AnswersInOrder

LEMMA Invariance == Spec => []Inv
BY InvInit, InvStep, PTL DEF Spec

(***************************************************************************)
(* The theorems                                                            *)
(***************************************************************************)

\* The variables of a call keep their types, and its score stays in its range.
THEOREM TypeCorrect == Spec => []TypeOK
<1>1. Inv => TypeOK
  BY DEF Inv, Memory, Types, Rest, TypeOK
<1> QED BY <1>1, Invariance, PTL

\* The context is the latest part of the call, for any window and any summary.
THEOREM ContextFollowsTheCall == Spec => []ContextIsRecentPast
<1>1. Inv => ContextIsRecentPast
  BY DEF Inv, Memory, Contiguous, Taken, ContextIsRecentPast
<1> QED BY <1>1, Invariance, PTL

\* Nothing but a hang-up in the middle of a compression loses a turn.
THEOREM OnlyHangUpsLoseTurns == Spec => []HangUpLosesOneBlock
<1>1. Inv => HangUpLosesOneBlock
  BY DEF Inv, Memory, Types, InPlace, Contiguous, Taken, HangUpLosesOneBlock
<1> QED BY <1>1, Invariance, PTL

\* The agent knows every turn that the context knows, but for cut replies.
THEOREM AgentKnowsTheCall == Spec => []HistoryKnowsTheCall
<1>1. Inv => HistoryKnowsTheCall
  BY DEF Inv
<1> QED BY <1>1, Invariance, PTL

\* Each answer comes from words of its own, in the order of the questions.
THEOREM OneAnswerPerUtterance == Spec => []AnswersInOrder
<1>1. Inv => AnswersInOrder
  BY DEF Inv
<1> QED BY <1>1, Invariance, PTL
=============================================================================
