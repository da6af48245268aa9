---------------------------- MODULE SuggestProofs ----------------------------
(***************************************************************************)
(* Theorems about Suggest for any hub, model and GPU.                      *)
(***************************************************************************)
EXTENDS Suggest, FiniteSetTheorems, TLAPS

\* A candidate as a search reported it.
Hit == [id : Variant, downloads : Nat]

\* What can be worked out about a variant, with or without its configuration.
Estimates(id) ==
  LET content == About[id].content
  IN {Estimate(content, cfg, Tokens) : cfg \in {content.config, NoConfig}}

Suggestion == {s \in [id : Variant, est : UNION {Estimates(v) : v \in Variant}] :
                 s.est \in Estimates(s.id)}

Typed ==
  /\ downloads \in [Variant -> 0 .. MaxDownloads]
  /\ pc \in {"search", "collect", "rank", "fetch", "config", "done", "failed"}
  /\ query \in 0 .. Queries
  /\ answer \in Seq(Hit) /\ found \in Seq(Hit) /\ ranked \in Seq(Hit)
  /\ suggestions \in Seq(Suggestion)
  /\ passed \subseteq Variant

\* The searches find no more than they may.
Room ==
  /\ Len(answer) <= Limit
  /\ Len(found) + Len(answer) <= query * Limit
  /\ pc = "search" => query < Queries

\* One candidate for each model, and none for the model asked about.
FoundDiffer ==
  /\ \A i, j \in DOMAIN found : About[found[i].id].key = About[found[j].id].key => i = j
  /\ \A i \in DOMAIN found : About[found[i].id].key # Base

Deciding == pc \in {"fetch", "config", "done"}

\* Nothing is looked at before the ranking.
Unranked == ~Deciding => ranked = <<>> /\ suggestions = <<>> /\ passed = {}

\* The ranking: found candidates, each once, and before each of them all that
\* have more downloads.
Ranked ==
  /\ Len(ranked) <= MaxFetches
  /\ \A k \in DOMAIN ranked : \E i \in DOMAIN found : ranked[k] = found[i]
  /\ \A k, l \in DOMAIN ranked : ranked[k] = ranked[l] => k = l
  /\ \A i \in DOMAIN found, l \in DOMAIN ranked :
       found[i].downloads > ranked[l].downloads
         => \E k \in DOMAIN ranked : k < l /\ ranked[k] = found[i]

\* What was looked at is a prefix of the ranking, and was decided.
LookedAt ==
  /\ IsFiniteSet(passed) /\ Looked <= Len(ranked)
  /\ Len(suggestions) <= MaxSuggestions
  /\ Suggested \cup passed = {ranked[k].id : k \in 1 .. Looked}
  /\ pc = "config" => ~Exhausted

\* A suggestion is worth having by the estimate it was made on.
AllSuitable ==
  \A i \in DOMAIN suggestions :
    Suitable(About[suggestions[i].id].content, suggestions[i].est)

SuggestInv ==
  /\ Typed /\ Room /\ FoundDiffer /\ Unranked /\ Ranked /\ LookedAt
  /\ SuggestionsDiffer /\ AllSuitable

-----------------------------------------------------------------------------
\* A sequence, its elements and its extension by one.
LEMMA OneMore ==
  ASSUME NEW S, NEW s \in Seq(S), NEW e \in S
  PROVE  /\ Append(s, e) \in Seq(S)
         /\ Len(Append(s, e)) = Len(s) + 1
         /\ DOMAIN s = 1 .. Len(s) /\ DOMAIN Append(s, e) = 1 .. Len(s) + 1
         /\ Append(s, e)[Len(s) + 1] = e
         /\ \A i \in 1 .. Len(s) : Append(s, e)[i] = s[i]
OBVIOUS

LEMMA Elements ==
  ASSUME NEW S, NEW s \in Seq(S)
  PROVE  /\ Len(s) \in Nat /\ DOMAIN s = 1 .. Len(s)
         /\ \A i \in 1 .. Len(s) : s[i] \in S
OBVIOUS

LEMMA FirstAndRest ==
  ASSUME NEW S, NEW s \in Seq(S), s # <<>>
  PROVE  /\ Head(s) \in S /\ Tail(s) \in Seq(S)
         /\ Len(Tail(s)) = Len(s) - 1 /\ Len(s) \in Nat \ {0}
OBVIOUS

LEMMA Empty ==
  ASSUME NEW S
  PROVE  <<>> \in Seq(S) /\ Len(<<>>) = 0 /\ DOMAIN <<>> = {}
OBVIOUS

\* The answer to a search: at most Limit models.
LEMMA AnswerType ==
  ASSUME NEW s \in Answer
  PROVE  s \in Seq(Variant) /\ Len(s) \in Nat /\ Len(s) <= Limit /\ DOMAIN s = 1 .. Len(s)
<1>1. s \in BoundedSeq(Variant, Limit)
  BY DEF Answer
<1>2. PICK n \in 0 .. Limit : s \in [1 .. n -> Variant]
  BY <1>1, SuggestAssumption DEF BoundedSeq, SeqOf
<1>3. n \in Nat /\ n <= Limit
  BY <1>2, SuggestAssumption
<1> QED BY <1>2, <1>3

-----------------------------------------------------------------------------
\* The facts of the invariant that are used one by one.
LEMMA Lengths ==
  ASSUME Typed
  PROVE  /\ Len(found) \in Nat /\ DOMAIN found = 1 .. Len(found)
         /\ Len(answer) \in Nat /\ DOMAIN answer = 1 .. Len(answer)
         /\ Len(ranked) \in Nat /\ DOMAIN ranked = 1 .. Len(ranked)
         /\ Len(suggestions) \in Nat /\ DOMAIN suggestions = 1 .. Len(suggestions)
         /\ \A i \in DOMAIN found : found[i] \in Hit
         /\ \A i \in DOMAIN ranked : ranked[i] \in Hit
         /\ \A i \in DOMAIN suggestions : suggestions[i] \in Suggestion
<1>1. found \in Seq(Hit) /\ answer \in Seq(Hit) /\ ranked \in Seq(Hit) /\ suggestions \in Seq(Suggestion)
  BY Zenon DEF Typed
<1>2. /\ Len(found) \in Nat /\ DOMAIN found = 1 .. Len(found)
      /\ \A i \in DOMAIN found : found[i] \in Hit
  BY <1>1, Elements
<1>3. Len(answer) \in Nat /\ DOMAIN answer = 1 .. Len(answer)
  BY <1>1, Elements
<1>4. /\ Len(ranked) \in Nat /\ DOMAIN ranked = 1 .. Len(ranked)
      /\ \A i \in DOMAIN ranked : ranked[i] \in Hit
  BY <1>1, Elements
<1>5. /\ Len(suggestions) \in Nat /\ DOMAIN suggestions = 1 .. Len(suggestions)
      /\ \A i \in DOMAIN suggestions : suggestions[i] \in Suggestion
  BY <1>1, Elements
<1> QED BY <1>2, <1>3, <1>4, <1>5

LEMMA InitSuggest == Init => SuggestInv
<1> SUFFICES ASSUME Init PROVE SuggestInv
  OBVIOUS
<1>1. /\ downloads \in [Variant -> 0 .. MaxDownloads]
      /\ pc = "search" /\ query = 0
      /\ answer = <<>> /\ found = <<>> /\ ranked = <<>> /\ suggestions = <<>> /\ passed = {}
  BY DEF Init
<1>2. Typed
  BY <1>1, Empty, SuggestAssumption DEF Typed
<1>3. Room
  BY <1>1, Empty, SuggestAssumption DEF Room
<1>4. FoundDiffer /\ Unranked /\ AllSuitable
  BY <1>1, Empty DEF FoundDiffer, Unranked, AllSuitable
<1>5. SuggestionsDiffer
  BY <1>1, Empty DEF SuggestionsDiffer, Keys
<1>6. Ranked
  BY <1>1, Empty, SuggestAssumption DEF Ranked
<1>7. Looked = 0 /\ Suggested = {}
  BY <1>1, Empty, FS_EmptySet DEF Looked, Suggested
<1>8. LookedAt
  BY <1>1, <1>7, Empty, FS_EmptySet, SuggestAssumption DEF LookedAt
<1> QED BY <1>2, <1>3, <1>4, <1>5, <1>6, <1>8 DEF SuggestInv

-----------------------------------------------------------------------------
(* The searches.                                                           *)

\* Until the ranking, what comes after it stays as it was.
LEMMA BeforeRanking ==
  ASSUME SuggestInv, pc \in {"search", "collect", "rank"},
         pc' \in {"search", "collect", "rank", "failed"},
         UNCHANGED <<ranked, suggestions, passed>>
  PROVE  /\ ranked = <<>> /\ suggestions = <<>> /\ passed = {}
         /\ Unranked' /\ Ranked' /\ LookedAt' /\ SuggestionsDiffer' /\ AllSuitable'
<1>1. ranked = <<>> /\ suggestions = <<>> /\ passed = {}
  BY DEF SuggestInv, Unranked, Deciding
<1>2. ranked' = <<>> /\ suggestions' = <<>> /\ passed' = {}
  BY <1>1
<1>3. Unranked' /\ AllSuitable'
  BY <1>2, Empty DEF Unranked, AllSuitable
<1>4. SuggestionsDiffer'
  BY <1>2, Empty DEF SuggestionsDiffer, Keys
<1>5. Ranked'
  BY <1>2, Empty, SuggestAssumption DEF Ranked
<1>6. Looked' = 0 /\ Suggested' = {}
  BY <1>2, Empty, FS_EmptySet DEF Looked, Suggested
<1>7. LookedAt'
  BY <1>2, <1>6, Empty, FS_EmptySet, SuggestAssumption DEF LookedAt
<1> QED BY <1>1, <1>3, <1>4, <1>5, <1>7

\* One more search allows Limit more candidates.
LEMMA OneMoreSearch ==
  ASSUME NEW q \in Nat PROVE (q + 1) * Limit = q * Limit + Limit /\ q * Limit \in Nat
BY SuggestAssumption

\* What so many searches allow, and so many more.
LEMMA MoreSearches ==
  ASSUME NEW q \in Nat, NEW d \in Nat, NEW l \in Nat
  PROVE  /\ (q + d) * l = q * l + d * l
         /\ q * l \in Nat /\ d * l \in Nat
OBVIOUS

LEMMA SearchKeeps == ASSUME SuggestInv, Search PROVE SuggestInv'
<1>1. PICK s \in Answer :
        answer' = [i \in DOMAIN s |-> [id |-> s[i], downloads |-> downloads[s[i]]]]
  BY DEF Search
<1>2. /\ pc = "search" /\ query' = query + 1 /\ pc' = "collect"
      /\ downloads' = downloads /\ found' = found /\ ranked' = ranked
      /\ suggestions' = suggestions /\ passed' = passed
  BY DEF Search
<1>3. s \in Seq(Variant) /\ Len(s) \in Nat /\ Len(s) <= Limit /\ DOMAIN s = 1 .. Len(s)
  BY AnswerType
<1>4. downloads \in [Variant -> 0 .. MaxDownloads] /\ query \in Nat
  BY SuggestAssumption DEF SuggestInv, Typed
<1>5. \A i \in 1 .. Len(s) : s[i] \in Variant /\ downloads[s[i]] \in Nat
  BY <1>3, <1>4, SuggestAssumption
<1>6. answer' \in [1 .. Len(s) -> Hit]
  BY <1>1, <1>3, <1>5 DEF Hit
<1>7. answer' \in Seq(Hit) /\ Len(answer') = Len(s)
  BY <1>3, <1>6
<1>8. query < Queries /\ Len(found) <= query * Limit /\ Len(found) \in Nat
  <2>1. Len(found) \in Nat /\ Len(answer) \in Nat
    BY Lengths DEF SuggestInv
  <2>2. query < Queries /\ Len(found) + Len(answer) <= query * Limit
    BY <1>2 DEF SuggestInv, Room
  <2> QED BY <2>1, <2>2, <1>4, OneMoreSearch
<1>9. Typed'
  BY <1>2, <1>7, <1>8, SuggestAssumption DEF SuggestInv, Typed
<1>10. Room'
  <2>1. Len(answer)' <= Limit
    BY <1>7, <1>3
  <2>2. (query + 1) * Limit = query * Limit + Limit /\ query * Limit \in Nat
    BY <1>4, OneMoreSearch
  <2>3. Len(found)' + Len(answer)' <= query' * Limit
    BY <1>2, <1>3, <1>7, <1>8, <2>2, SuggestAssumption
  <2> QED BY <1>2, <2>1, <2>3 DEF Room
<1>11. FoundDiffer'
  BY <1>2 DEF SuggestInv, FoundDiffer
<1>12. Unranked' /\ Ranked' /\ LookedAt' /\ SuggestionsDiffer' /\ AllSuitable'
  BY <1>2, BeforeRanking
<1> QED BY <1>9, <1>10, <1>11, <1>12 DEF SuggestInv

\* A candidate is added when no other has its key.
LEMMA CollectKeeps == ASSUME SuggestInv, Collect PROVE SuggestInv'
<1> DEFINE h == Head(answer)
<1>1. /\ pc = "collect" /\ answer # <<>> /\ pc' = pc
      /\ answer' = Tail(answer) /\ query' = query /\ downloads' = downloads
      /\ ranked' = ranked /\ suggestions' = suggestions /\ passed' = passed
      /\ found' = IF Wanted(h.id) THEN Append(found, h) ELSE found
  BY DEF Collect
<1>2. answer \in Seq(Hit) /\ found \in Seq(Hit) /\ query \in 0 .. Queries
  BY DEF SuggestInv, Typed
<1>3. h \in Hit /\ answer' \in Seq(Hit) /\ Len(answer)' = Len(answer) - 1 /\ Len(answer) \in Nat \ {0}
  BY <1>1, <1>2, FirstAndRest
<1>4. Len(found) \in Nat /\ DOMAIN found = 1 .. Len(found)
  BY <1>2, Elements
<1> HIDE DEF h
<1>5. /\ Append(found, h) \in Seq(Hit)
      /\ Len(Append(found, h)) = Len(found) + 1
      /\ DOMAIN Append(found, h) = 1 .. Len(found) + 1
      /\ Append(found, h)[Len(found) + 1] = h
      /\ \A i \in 1 .. Len(found) : Append(found, h)[i] = found[i]
  BY <1>2, <1>3, OneMore
<1>6. found' \in Seq(Hit) /\ Len(found)' <= Len(found) + 1 /\ Len(found)' \in Nat
  BY <1>1, <1>2, <1>4, <1>5
<1>7. Typed'
  BY <1>1, <1>3, <1>6 DEF SuggestInv, Typed
<1>8. Room'
  <2>1. Len(answer) <= Limit /\ Len(found) + Len(answer) <= query * Limit
    BY DEF SuggestInv, Room
  <2>2. query * Limit \in Nat
    BY <1>2, OneMoreSearch, SuggestAssumption
  <2>3. Len(answer)' <= Limit /\ Len(found)' + Len(answer)' <= query' * Limit
    BY <1>1, <1>3, <1>4, <1>6, <2>1, <2>2, SuggestAssumption
  <2> QED BY <1>1, <2>3 DEF Room
<1>9. FoundDiffer'
  <2>1. CASE Wanted(h.id)
    <3>1. found' = Append(found, h)
      BY <1>1, <2>1
    <3>2. About[h.id].key # Base /\ \A i \in DOMAIN found : About[found[i].id].key # About[h.id].key
      BY <2>1 DEF Wanted, Keys
    <3>3. \A i, j \in 1 .. Len(found) :
            About[found[i].id].key = About[found[j].id].key => i = j
      BY <1>4 DEF SuggestInv, FoundDiffer
    <3>4. \A i \in 1 .. Len(found) : About[found[i].id].key # Base
      BY <1>4 DEF SuggestInv, FoundDiffer
    <3>5. ASSUME NEW i \in DOMAIN found', NEW j \in DOMAIN found',
                 About[found'[i].id].key = About[found'[j].id].key
          PROVE  i = j
      <4>1. i \in 1 .. Len(found) + 1 /\ j \in 1 .. Len(found) + 1
        BY <3>1, <1>5
      <4>2. CASE i \in 1 .. Len(found) /\ j \in 1 .. Len(found)
        BY <4>2, <3>1, <3>3, <3>5, <1>5
      <4>3. CASE i = Len(found) + 1 /\ j \in 1 .. Len(found)
        BY <4>3, <3>1, <3>2, <3>5, <1>4, <1>5
      <4>4. CASE i \in 1 .. Len(found) /\ j = Len(found) + 1
        BY <4>4, <3>1, <3>2, <3>5, <1>4, <1>5
      <4> QED BY <4>1, <4>2, <4>3, <4>4, <1>4
    <3>6. ASSUME NEW i \in DOMAIN found' PROVE About[found'[i].id].key # Base
      <4>1. i \in 1 .. Len(found) \/ i = Len(found) + 1
        BY <3>1, <1>4, <1>5
      <4> QED BY <4>1, <3>1, <3>2, <3>4, <1>5
    <3> QED BY <3>5, <3>6 DEF FoundDiffer
  <2>2. CASE ~Wanted(h.id)
    <3>1. found' = found
      BY <1>1, <2>2
    <3> QED BY <3>1 DEF SuggestInv, FoundDiffer
  <2> QED BY <2>1, <2>2
<1>10. Unranked' /\ Ranked' /\ LookedAt' /\ SuggestionsDiffer' /\ AllSuitable'
  BY <1>1, BeforeRanking
<1> QED BY <1>7, <1>8, <1>9, <1>10 DEF SuggestInv

LEMMA CollectedKeeps == ASSUME SuggestInv, Collected PROVE SuggestInv'
<1>1. /\ pc = "collect" /\ pc' = IF query = Queries THEN "rank" ELSE "search"
      /\ downloads' = downloads /\ query' = query /\ answer' = answer /\ found' = found
      /\ ranked' = ranked /\ suggestions' = suggestions /\ passed' = passed
  BY DEF Collected
<1>2. Typed'
  BY <1>1 DEF SuggestInv, Typed
<1>3. query \in 0 .. Queries
  BY DEF SuggestInv, Typed
<1>4. Room'
  BY <1>1, <1>3, SuggestAssumption DEF SuggestInv, Room
<1>5. FoundDiffer'
  BY <1>1 DEF SuggestInv, FoundDiffer
<1>6. pc' \in {"search", "rank"}
  BY <1>1
<1>7. Unranked' /\ Ranked' /\ LookedAt' /\ SuggestionsDiffer' /\ AllSuitable'
  BY <1>1, <1>6, BeforeRanking
<1> QED BY <1>2, <1>4, <1>5, <1>7 DEF SuggestInv

LEMMA SearchFailsKeeps == ASSUME SuggestInv, SearchFails PROVE SuggestInv'
<1>1. /\ pc = "search" /\ pc' = "failed"
      /\ downloads' = downloads /\ query' = query /\ answer' = answer /\ found' = found
      /\ ranked' = ranked /\ suggestions' = suggestions /\ passed' = passed
  BY DEF SearchFails
<1>2. Typed' /\ Room' /\ FoundDiffer'
  BY <1>1 DEF SuggestInv, Typed, Room, FoundDiffer
<1>3. Unranked' /\ Ranked' /\ LookedAt' /\ SuggestionsDiffer' /\ AllSuitable'
  BY <1>1, BeforeRanking
<1> QED BY <1>2, <1>3 DEF SuggestInv

-----------------------------------------------------------------------------
(* The ranking.                                                            *)

\* An ordering of the elements of a finite set names every one of them, once.
LEMMA EveryElementListed ==
  ASSUME NEW S, IsFiniteSet(S), NEW r \in SetToSeqs(S)
  PROVE  /\ r \in [1 .. Cardinality(S) -> S]
         /\ \A i, j \in 1 .. Cardinality(S) : r[i] = r[j] => i = j
         /\ \A x \in S : \E i \in 1 .. Cardinality(S) : r[i] = x
<1>1. /\ r \in [1 .. Cardinality(S) -> S]
      /\ \A i, j \in 1 .. Cardinality(S) : r[i] = r[j] => i = j
  BY DEF SetToSeqs
<1>2. Cardinality(S) \in Nat
  BY FS_CardinalityType
<1>3. Cardinality(1 .. Cardinality(S)) = Cardinality(S)
  <2>1. Cardinality(1 .. Cardinality(S))
          = IF 1 > Cardinality(S) THEN 0 ELSE Cardinality(S) - 1 + 1
    BY <1>2, FS_Interval
  <2> QED BY <1>2, <2>1
<1>4. r \in Injection(1 .. Cardinality(S), S)
  BY <1>1 DEF Injection, IsInjective
<1>5. r \in Surjection(1 .. Cardinality(S), S)
  BY <1>3, <1>4, FS_Injection
<1> QED BY <1>1, <1>5 DEF Surjection

\* The set of a sequence's elements is finite.
LEMMA ElementsFinite ==
  ASSUME NEW S, NEW s \in Seq(S)
  PROVE  /\ IsFiniteSet(ToSet(s)) /\ ToSet(s) \subseteq S
         /\ \A i \in DOMAIN s : s[i] \in ToSet(s)
         /\ \A x \in ToSet(s) : \E i \in DOMAIN s : x = s[i]
<1>1. Len(s) \in Nat /\ DOMAIN s = 1 .. Len(s) /\ \A i \in 1 .. Len(s) : s[i] \in S
  BY Elements
<1>2. ToSet(s) = {s[i] : i \in 1 .. Len(s)}
  BY <1>1 DEF ToSet
<1>3. IsFiniteSet(1 .. Len(s))
  BY <1>1, FS_Interval
<1>4. s \in Surjection(1 .. Len(s), ToSet(s))
  BY <1>1, <1>2 DEF Surjection
<1>5. IsFiniteSet(ToSet(s))
  BY <1>3, <1>4, FS_Surjection
<1> QED BY <1>1, <1>2, <1>5

\* The shortened ranking is the ranking, up to where it is cut.
LEMMA Shortened ==
  ASSUME NEW S, NEW r \in Seq(S), NEW n \in Nat
  PROVE  /\ Shortest(r, n) \in Seq(S)
         /\ Len(Shortest(r, n)) <= n /\ Len(Shortest(r, n)) <= Len(r)
         /\ Len(Shortest(r, n)) \in Nat
         /\ \A i \in 1 .. Len(Shortest(r, n)) : Shortest(r, n)[i] = r[i]
<1>1. Len(r) \in Nat
  OBVIOUS
<1>2. Len(r) < n => Shortest(r, n) = SubSeq(r, 1, Len(r))
  BY DEF Shortest
<1>3. ~(Len(r) < n) => Shortest(r, n) = SubSeq(r, 1, n) /\ n <= Len(r)
  BY <1>1 DEF Shortest
<1>4. CASE Len(r) < n
  BY <1>1, <1>2, <1>4
<1>5. CASE ~(Len(r) < n)
  BY <1>1, <1>3, <1>5
<1> QED BY <1>4, <1>5

LEMMA RankKeeps == ASSUME SuggestInv, Rank PROVE SuggestInv'
<1>1. PICK r \in Rankings(found) : ranked' = Shortest(r, MaxFetches)
  BY DEF Rank
<1>2. /\ pc = "rank" /\ pc' = "fetch"
      /\ downloads' = downloads /\ query' = query /\ answer' = answer /\ found' = found
      /\ suggestions' = suggestions /\ passed' = passed
  BY DEF Rank
<1> DEFINE S == ToSet(found)
           n == Cardinality(S)
<1>3. found \in Seq(Hit) /\ DOMAIN found = 1 .. Len(found) /\ Len(found) \in Nat
  BY Lengths DEF SuggestInv, Typed
<1>4. /\ IsFiniteSet(S) /\ S \subseteq Hit
      /\ \A i \in DOMAIN found : found[i] \in S
      /\ \A x \in S : \E i \in DOMAIN found : x = found[i]
  BY <1>3, ElementsFinite
<1>5. /\ r \in SetToSeqs(S)
      /\ \A i, j \in DOMAIN r : i < j => r[i].downloads >= r[j].downloads
  BY DEF Rankings
<1>6. n \in Nat
  BY <1>4, FS_CardinalityType
<1>7. /\ r \in [1 .. n -> S]
      /\ \A i, j \in 1 .. n : r[i] = r[j] => i = j
      /\ \A x \in S : \E i \in 1 .. n : r[i] = x
  BY <1>4, <1>5, EveryElementListed
<1> HIDE DEF S, n
<1>8. r \in Seq(Hit) /\ Len(r) = n /\ DOMAIN r = 1 .. n
  BY <1>4, <1>6, <1>7
<1>9. /\ ranked' \in Seq(Hit) /\ Len(ranked)' <= MaxFetches /\ Len(ranked)' <= n
      /\ Len(ranked)' \in Nat
      /\ \A i \in 1 .. Len(ranked)' : ranked'[i] = r[i]
  BY <1>1, <1>8, Shortened, SuggestAssumption
<1>10. DOMAIN ranked' = 1 .. Len(ranked)'
  BY <1>9, Elements
<1>11. \A k \in DOMAIN ranked' : k \in 1 .. n /\ ranked'[k] = r[k]
  BY <1>6, <1>9, <1>10
<1>12. ranked = <<>> /\ suggestions = <<>> /\ passed = {}
  BY <1>2 DEF SuggestInv, Unranked, Deciding
<1>13. Typed'
  BY <1>2, <1>9 DEF SuggestInv, Typed
<1>14. Room' /\ FoundDiffer'
  BY <1>2 DEF SuggestInv, Room, FoundDiffer
<1>15. Unranked' /\ AllSuitable'
  BY <1>2, <1>12, Empty DEF Unranked, AllSuitable, Deciding
<1>16. SuggestionsDiffer'
  BY <1>2, <1>12, Empty DEF SuggestionsDiffer, Keys
<1>17. Ranked'
  <2>1. \A k \in DOMAIN ranked' : \E i \in DOMAIN found' : ranked'[k] = found'[i]
    BY <1>2, <1>4, <1>7, <1>11
  <2>2. \A k, l \in DOMAIN ranked' : ranked'[k] = ranked'[l] => k = l
    BY <1>7, <1>11
  <2>3. ASSUME NEW i \in DOMAIN found, NEW l \in DOMAIN ranked',
               found[i].downloads > ranked'[l].downloads
        PROVE  \E k \in DOMAIN ranked' : k < l /\ ranked'[k] = found[i]
    <3>1. PICK k \in 1 .. n : r[k] = found[i]
      BY <1>4, <1>7
    <3>2. l \in 1 .. n /\ ranked'[l] = r[l]
      BY <1>11
    <3>3. r[k].downloads \in Nat /\ r[l].downloads \in Nat
      BY <1>4, <1>7, <3>2 DEF Hit
    <3>4. r[k].downloads > r[l].downloads
      BY <2>3, <3>1, <3>2
    <3>5. k # l /\ ~(l < k)
      BY <1>5, <1>8, <3>2, <3>3, <3>4
    <3>6. k < l
      BY <1>6, <3>2, <3>5
    <3>7. k \in DOMAIN ranked'
      BY <1>6, <1>9, <1>10, <3>6
    <3> QED BY <1>11, <3>1, <3>6, <3>7
  <2> QED BY <1>2, <1>9, <2>1, <2>2, <2>3 DEF Ranked
<1>18. Looked' = 0 /\ Suggested' = {}
  BY <1>2, <1>12, Empty, FS_EmptySet DEF Looked, Suggested
<1>19. LookedAt'
  BY <1>2, <1>9, <1>12, <1>18, Empty, FS_EmptySet, SuggestAssumption DEF LookedAt
<1> QED BY <1>13, <1>14, <1>15, <1>16, <1>17, <1>19 DEF SuggestInv

-----------------------------------------------------------------------------
(* Looking at the candidates.                                              *)

\* Once ranked, the candidates stay as they are.
LEMMA AfterRanking ==
  ASSUME SuggestInv, pc \in {"fetch", "config", "done"}, pc' \in {"fetch", "config", "done"},
         UNCHANGED <<query, answer, found, ranked>>
  PROVE  Room' /\ FoundDiffer' /\ Unranked' /\ Ranked'
<1>1. Room' /\ FoundDiffer' /\ Ranked'
  BY DEF SuggestInv, Room, FoundDiffer, Ranked
<1>2. Unranked'
  BY DEF Unranked, Deciding
<1> QED BY <1>1, <1>2

\* What was looked at is counted.
LEMMA Counted ==
  ASSUME Typed, IsFiniteSet(passed)
  PROVE  Cardinality(passed) \in Nat /\ Len(suggestions) \in Nat /\ Looked \in Nat
         /\ Looked = Cardinality(passed) + Len(suggestions)
<1>1. Cardinality(passed) \in Nat
  BY FS_CardinalityType
<1>2. Len(suggestions) \in Nat
  BY Lengths
<1> QED BY <1>1, <1>2 DEF Looked

\* What is left of a ranking begins after what was looked at.
LEMMA Following ==
  ASSUME NEW a \in Nat, NEW b \in Nat, a <= b, a # b PROVE a + 1 \in 1 .. b
OBVIOUS

\* The next candidate is a variant of another model than all before it, and
\* than the one asked about.
LEMMA NextCandidate ==
  ASSUME SuggestInv, ~Exhausted
  PROVE  /\ Looked \in Nat /\ Looked + 1 <= Len(ranked) /\ Len(suggestions) < MaxSuggestions
         /\ Candidate \in Variant /\ Candidate = ranked[Looked + 1].id
         /\ About[Candidate].key # Base
         /\ \A x \in Suggested \cup passed : About[x].key # About[Candidate].key
<1>1. /\ Looked \in Nat /\ Len(suggestions) \in Nat
      /\ Looked <= Len(ranked) /\ Len(suggestions) <= MaxSuggestions
  BY Counted DEF SuggestInv, LookedAt
<1>2. /\ Len(ranked) \in Nat /\ DOMAIN ranked = 1 .. Len(ranked)
      /\ \A i \in DOMAIN ranked : ranked[i] \in Hit
  BY Lengths DEF SuggestInv
<1>3. Looked # Len(ranked) /\ Len(suggestions) # MaxSuggestions
  BY DEF Exhausted
<1>4. Looked + 1 \in DOMAIN ranked /\ Len(suggestions) < MaxSuggestions
  <2>1. MaxSuggestions \in Nat
    BY SuggestAssumption
  <2>2. Len(suggestions) < MaxSuggestions
    BY <1>1, <1>3, <2>1
  <2>3. Looked + 1 \in 1 .. Len(ranked)
    BY <1>1, <1>2, <1>3, Following
  <2> QED BY <1>2, <2>2, <2>3
<1>5. Candidate = ranked[Looked + 1].id
  BY DEF Candidate
<1>6. Candidate \in Variant
  BY <1>2, <1>4, <1>5 DEF Hit
<1>7. PICK i \in DOMAIN found : ranked[Looked + 1] = found[i]
  BY <1>4 DEF SuggestInv, Ranked
<1>8. About[Candidate].key # Base
  BY <1>5, <1>7 DEF SuggestInv, FoundDiffer
<1>9. ASSUME NEW x \in Suggested \cup passed, About[x].key = About[Candidate].key
      PROVE  FALSE
  <2>1. PICK k \in 1 .. Looked : x = ranked[k].id
    BY DEF SuggestInv, LookedAt
  <2>2. k \in DOMAIN ranked /\ k # Looked + 1
    BY <1>1, <1>2
  <2>3. PICK j \in DOMAIN found : ranked[k] = found[j]
    BY <2>2 DEF SuggestInv, Ranked
  <2>4. i = j
    BY <1>5, <1>7, <1>9, <2>1, <2>3 DEF SuggestInv, FoundDiffer
  <2>5. ranked[k] = ranked[Looked + 1]
    BY <1>7, <2>3, <2>4
  <2> QED BY <1>4, <2>2, <2>5 DEF SuggestInv, Ranked
<1> QED BY <1>1, <1>2, <1>4, <1>5, <1>6, <1>8, <1>9

\* The prefix of the ranking that was looked at grows by the next candidate.
LEMMA Prefix ==
  ASSUME NEW n \in Nat
  PROVE  {ranked[k].id : k \in 1 .. n + 1} = {ranked[k].id : k \in 1 .. n} \cup {ranked[n + 1].id}
<1>1. \A k : k \in 1 .. n + 1 <=> k \in 1 .. n \/ k = n + 1
  OBVIOUS
<1> QED BY <1>1

\* To pass a candidate over counts it.
LEMMA PassKeeps ==
  ASSUME SuggestInv, ~Exhausted, pc \in {"fetch", "config"}, Pass,
         UNCHANGED <<downloads, query, answer, found, ranked>>
  PROVE  SuggestInv'
<1>1. /\ passed' = passed \cup {Candidate} /\ pc' = "fetch" /\ suggestions' = suggestions
      /\ downloads' = downloads /\ query' = query /\ answer' = answer /\ found' = found
      /\ ranked' = ranked
  BY DEF Pass
<1>2. /\ Looked \in Nat /\ Looked + 1 <= Len(ranked)
      /\ Candidate \in Variant /\ Candidate = ranked[Looked + 1].id
      /\ \A x \in Suggested \cup passed : About[x].key # About[Candidate].key
  BY NextCandidate
<1>3. IsFiniteSet(passed) /\ Candidate \notin passed
  BY <1>2 DEF SuggestInv, LookedAt
<1>4. IsFiniteSet(passed)' /\ Cardinality(passed)' = Cardinality(passed) + 1
  BY <1>1, <1>3, FS_AddElement
<1>5. /\ Cardinality(passed) \in Nat /\ Len(suggestions) \in Nat
      /\ Looked = Cardinality(passed) + Len(suggestions)
  BY <1>3, Counted DEF SuggestInv
<1>6. Looked' = Looked + 1 /\ Suggested' = Suggested
  BY <1>1, <1>4, <1>5 DEF Looked, Suggested
<1>7. Suggested \cup passed = {ranked[k].id : k \in 1 .. Looked}
  BY DEF SuggestInv, LookedAt
<1>8. {ranked[k].id : k \in 1 .. Looked + 1} = {ranked[k].id : k \in 1 .. Looked} \cup {Candidate}
  BY <1>2, Prefix
<1>9. (Suggested \cup passed)' = {ranked[k].id : k \in 1 .. Looked}'
  BY <1>1, <1>6, <1>7, <1>8
<1>10. LookedAt'
  <2>1. Len(suggestions)' <= MaxSuggestions
    BY <1>1 DEF SuggestInv, LookedAt
  <2> QED BY <1>1, <1>2, <1>4, <1>6, <1>9, <2>1 DEF LookedAt
<1>11. Typed'
  BY <1>1, <1>2 DEF SuggestInv, Typed
<1>12. Room' /\ FoundDiffer' /\ Unranked' /\ Ranked'
  BY <1>1, AfterRanking
<1>13. SuggestionsDiffer' /\ AllSuitable'
  BY <1>1 DEF SuggestInv, SuggestionsDiffer, AllSuitable, Keys
<1> QED BY <1>10, <1>11, <1>12, <1>13 DEF SuggestInv

LEMMA ReturnKeeps == ASSUME SuggestInv, Return PROVE SuggestInv'
<1>1. /\ pc = "fetch" /\ pc' = "done"
      /\ downloads' = downloads /\ query' = query /\ answer' = answer /\ found' = found
      /\ ranked' = ranked /\ suggestions' = suggestions /\ passed' = passed
  BY DEF Return
<1>2. Typed' /\ SuggestionsDiffer' /\ AllSuitable'
  BY <1>1 DEF SuggestInv, Typed, SuggestionsDiffer, AllSuitable, Keys
<1>3. LookedAt'
  BY <1>1 DEF SuggestInv, LookedAt, Looked, Suggested
<1>4. Room' /\ FoundDiffer' /\ Unranked' /\ Ranked'
  BY <1>1, AfterRanking
<1> QED BY <1>2, <1>3, <1>4 DEF SuggestInv

LEMMA FetchKeeps == ASSUME SuggestInv, Fetch PROVE SuggestInv'
<1>1. /\ pc = "fetch" /\ ~Exhausted
      /\ UNCHANGED <<downloads, query, answer, found, ranked>>
  BY DEF Fetch
<1>2. CASE Pass
  BY <1>1, <1>2, PassKeeps
<1>3. CASE pc' = "config" /\ UNCHANGED <<suggestions, passed>>
  <2>1. /\ downloads' = downloads /\ query' = query /\ answer' = answer /\ found' = found
        /\ ranked' = ranked /\ suggestions' = suggestions /\ passed' = passed
    BY <1>1, <1>3
  <2>2. Typed' /\ SuggestionsDiffer' /\ AllSuitable'
    BY <1>3, <2>1 DEF SuggestInv, Typed, SuggestionsDiffer, AllSuitable, Keys
  <2>3. LookedAt'
    BY <1>1, <1>3, <2>1 DEF SuggestInv, LookedAt, Looked, Suggested, Exhausted
  <2>4. Room' /\ FoundDiffer' /\ Unranked' /\ Ranked'
    BY <1>1, <1>3, AfterRanking
  <2> QED BY <2>2, <2>3, <2>4 DEF SuggestInv
<1> QED BY <1>2, <1>3 DEF Fetch

\* To suggest a candidate counts it, and the others are of other models.
LEMMA SuggestKeeps ==
  ASSUME SuggestInv, ~Exhausted, pc = "config", pc' = "fetch",
         NEW est \in Estimates(Candidate), Suitable(About[Candidate].content, est),
         suggestions' = Append(suggestions, [id |-> Candidate, est |-> est]),
         UNCHANGED <<downloads, query, answer, found, ranked, passed>>
  PROVE  SuggestInv'
<1> DEFINE e == [id |-> Candidate, est |-> est]
           n == Len(suggestions)
<1>1. /\ downloads' = downloads /\ query' = query /\ answer' = answer /\ found' = found
      /\ ranked' = ranked /\ passed' = passed
  OBVIOUS
<1>2. /\ Looked \in Nat /\ Looked + 1 <= Len(ranked) /\ n < MaxSuggestions
      /\ Candidate \in Variant /\ Candidate = ranked[Looked + 1].id
      /\ About[Candidate].key # Base
      /\ \A x \in Suggested \cup passed : About[x].key # About[Candidate].key
  BY NextCandidate
<1>3. e \in Suggestion
  BY <1>2 DEF Suggestion
<1>4. e.id = Candidate /\ e.est = est
  OBVIOUS
<1>5. suggestions \in Seq(Suggestion) /\ n \in Nat /\ DOMAIN suggestions = 1 .. n
  BY Lengths DEF SuggestInv, Typed
<1>6. suggestions' = Append(suggestions, e)
  OBVIOUS
<1> HIDE DEF e, n
<1>7. /\ suggestions' \in Seq(Suggestion) /\ Len(suggestions)' = n + 1
      /\ DOMAIN suggestions' = 1 .. n + 1
      /\ suggestions'[n + 1] = e
      /\ \A i \in 1 .. n : suggestions'[i] = suggestions[i]
  BY <1>3, <1>5, <1>6, OneMore DEF n
<1>8. \A i \in 1 .. n + 1 : i \in 1 .. n \/ i = n + 1
  BY <1>5
<1>9. n + 1 \in 1 .. n + 1 /\ \A i \in 1 .. n : i \in 1 .. n + 1
  BY <1>5
<1>10. Suggested' = Suggested \cup {Candidate}
  BY <1>4, <1>5, <1>7, <1>8, <1>9 DEF Suggested
<1>11. Cardinality(passed) \in Nat /\ Looked = Cardinality(passed) + n
  BY Counted DEF SuggestInv, LookedAt, n
<1>12. Looked' = Looked + 1
  BY <1>1, <1>5, <1>7, <1>11 DEF Looked
<1>13. Suggested \cup passed = {ranked[k].id : k \in 1 .. Looked}
  BY DEF SuggestInv, LookedAt
<1>14. {ranked[k].id : k \in 1 .. Looked + 1} = {ranked[k].id : k \in 1 .. Looked} \cup {Candidate}
  BY <1>2, Prefix
<1>15. (Suggested \cup passed)' = {ranked[k].id : k \in 1 .. Looked}'
  BY <1>1, <1>10, <1>12, <1>13, <1>14
<1>16. LookedAt'
  <2>1. IsFiniteSet(passed)'
    BY <1>1 DEF SuggestInv, LookedAt
  <2>2. Len(suggestions)' <= MaxSuggestions /\ Looked' <= Len(ranked)'
    BY <1>1, <1>2, <1>5, <1>7, <1>12, SuggestAssumption
  <2> QED BY <1>15, <2>1, <2>2 DEF LookedAt
<1>17. Typed'
  BY <1>1, <1>7 DEF SuggestInv, Typed
<1>18. Room' /\ FoundDiffer' /\ Unranked' /\ Ranked'
  BY <1>1, AfterRanking
<1>19. \A i \in 1 .. n : suggestions[i].id \in Suggested
  BY <1>5 DEF Suggested
<1>20. SuggestionsDiffer'
  <2>1. \A i, j \in 1 .. n : About[suggestions[i].id].key = About[suggestions[j].id].key => i = j
    BY <1>5 DEF SuggestInv, SuggestionsDiffer
  <2>2. \A i \in 1 .. n : About[suggestions[i].id].key # Base
    BY <1>5 DEF SuggestInv, SuggestionsDiffer, Keys
  <2>3. ASSUME NEW i \in 1 .. n + 1, NEW j \in 1 .. n + 1,
               About[suggestions'[i].id].key = About[suggestions'[j].id].key
        PROVE  i = j
    <3>1. CASE i \in 1 .. n /\ j \in 1 .. n
      BY <1>7, <2>1, <2>3, <3>1
    <3>2. CASE i = n + 1 /\ j \in 1 .. n
      BY <1>2, <1>4, <1>7, <1>19, <2>3, <3>2
    <3>3. CASE i \in 1 .. n /\ j = n + 1
      BY <1>2, <1>4, <1>7, <1>19, <2>3, <3>3
    <3> QED BY <1>8, <3>1, <3>2, <3>3
  <2>4. \A i \in 1 .. n + 1 : About[suggestions'[i].id].key # Base
    BY <1>2, <1>4, <1>7, <1>8, <2>2
  <2> QED BY <1>7, <2>3, <2>4 DEF SuggestionsDiffer, Keys
<1>21. AllSuitable'
  <2>1. \A i \in 1 .. n : Suitable(About[suggestions[i].id].content, suggestions[i].est)
    BY <1>5 DEF SuggestInv, AllSuitable
  <2>2. \A i \in 1 .. n + 1 : Suitable(About[suggestions'[i].id].content, suggestions'[i].est)
    BY <1>4, <1>7, <1>8, <2>1
  <2> QED BY <1>7, <2>2 DEF AllSuitable
<1> QED BY <1>16, <1>17, <1>18, <1>20, <1>21 DEF SuggestInv

LEMMA ConsiderKeeps == ASSUME SuggestInv, Consider PROVE SuggestInv'
<1>1. pc = "config" /\ UNCHANGED <<downloads, query, answer, found, ranked>>
  BY DEF Consider
<1>2. ~Exhausted
  BY <1>1 DEF SuggestInv, LookedAt
<1>3. PICK cfg \in {About[Candidate].content.config, NoConfig} :
        LET est == Estimate(About[Candidate].content, cfg, Tokens) IN
        IF Suitable(About[Candidate].content, est)
        THEN /\ suggestions' = Append(suggestions, [id |-> Candidate, est |-> est])
             /\ pc' = "fetch" /\ UNCHANGED passed
        ELSE Pass
  BY DEF Consider
<1> DEFINE est == Estimate(About[Candidate].content, cfg, Tokens)
<1>4. est \in Estimates(Candidate)
  BY <1>3 DEF Estimates
<1>5. CASE Suitable(About[Candidate].content, est)
  <2>1. /\ suggestions' = Append(suggestions, [id |-> Candidate, est |-> est])
        /\ pc' = "fetch" /\ UNCHANGED passed
    BY <1>3, <1>5
  <2> HIDE DEF est
  <2> QED BY <1>1, <1>2, <1>4, <1>5, <2>1, SuggestKeeps
<1>6. CASE ~Suitable(About[Candidate].content, est)
  <2>1. Pass
    BY <1>3, <1>6
  <2> QED BY <1>1, <1>2, <2>1, PassKeeps
<1> QED BY <1>5, <1>6

LEMMA DownloadKeeps == ASSUME SuggestInv, Download PROVE SuggestInv'
<1>1. /\ pc' = pc /\ query' = query /\ answer' = answer /\ found' = found
      /\ ranked' = ranked /\ suggestions' = suggestions /\ passed' = passed
  BY DEF Download
<1>2. downloads \in [Variant -> 0 .. MaxDownloads]
  BY DEF SuggestInv, Typed
<1>3. PICK v \in Variant :
        downloads[v] < MaxDownloads /\ downloads' = [downloads EXCEPT ![v] = @ + 1]
  BY DEF Download
<1>4. downloads[v] + 1 \in 0 .. MaxDownloads
  BY <1>2, <1>3, SuggestAssumption
<1>5. downloads' \in [Variant -> 0 .. MaxDownloads]
  BY <1>2, <1>3, <1>4
<1>6. Typed'
  BY <1>1, <1>5 DEF SuggestInv, Typed
<1>7. Room' /\ FoundDiffer' /\ Unranked' /\ Ranked'
  BY <1>1 DEF SuggestInv, Room, FoundDiffer, Unranked, Ranked, Deciding
<1>8. LookedAt'
  BY <1>1 DEF SuggestInv, LookedAt, Looked, Suggested, Exhausted
<1>9. SuggestionsDiffer' /\ AllSuitable'
  BY <1>1 DEF SuggestInv, SuggestionsDiffer, AllSuitable, Keys
<1> QED BY <1>6, <1>7, <1>8, <1>9 DEF SuggestInv

LEMMA SuggestStutter == ASSUME SuggestInv, UNCHANGED vars PROVE SuggestInv'
<1>1. /\ downloads' = downloads /\ pc' = pc /\ query' = query /\ answer' = answer
      /\ found' = found /\ ranked' = ranked /\ suggestions' = suggestions /\ passed' = passed
  BY DEF vars
<1>2. Typed' /\ Room' /\ FoundDiffer' /\ Unranked' /\ Ranked'
  BY <1>1 DEF SuggestInv, Typed, Room, FoundDiffer, Unranked, Ranked, Deciding
<1>3. LookedAt' /\ SuggestionsDiffer' /\ AllSuitable'
  BY <1>1 DEF SuggestInv, LookedAt, Looked, Suggested, Exhausted, SuggestionsDiffer, AllSuitable, Keys
<1> QED BY <1>2, <1>3 DEF SuggestInv

LEMMA SuggestStep == SuggestInv /\ [Next]_vars => SuggestInv'
<1> SUFFICES ASSUME SuggestInv, [Next]_vars PROVE SuggestInv'
  OBVIOUS
<1>1. CASE Search
  BY <1>1, SearchKeeps
<1>2. CASE SearchFails
  BY <1>2, SearchFailsKeeps
<1>3. CASE Collect
  BY <1>3, CollectKeeps
<1>4. CASE Collected
  BY <1>4, CollectedKeeps
<1>5. CASE Rank
  BY <1>5, RankKeeps
<1>6. CASE Fetch
  BY <1>6, FetchKeeps
<1>7. CASE Consider
  BY <1>7, ConsiderKeeps
<1>8. CASE Return
  BY <1>8, ReturnKeeps
<1>9. CASE Download
  BY <1>9, DownloadKeeps
<1>10. CASE UNCHANGED vars
  BY <1>10, SuggestStutter
<1> QED
  BY <1>1, <1>2, <1>3, <1>4, <1>5, <1>6, <1>7, <1>8, <1>9, <1>10 DEF Next

\* The searches, the ranking and what was looked at stay consistent, whatever
\* the hub answers and however its counters move on.
THEOREM SuggestionsAreRanked == Spec => []SuggestInv
<1>1. Init => SuggestInv
  BY InitSuggest
<1>2. SuggestInv /\ [Next]_vars => SuggestInv'
  BY SuggestStep
<1> QED BY <1>1, <1>2, PTL DEF Spec

-----------------------------------------------------------------------------
(* What the suggestions are worth.                                         *)

\* A candidate is looked at only after all that have more downloads, so none
\* is suggested before them: whichever order the sort leaves equal ones in, and
\* whatever the hub counts meanwhile.
THEOREM BestFirst == Spec => []MostDownloadedFirst
<1>1. SuggestInv => MostDownloadedFirst
  <2> SUFFICES ASSUME SuggestInv, NEW i \in DOMAIN found, NEW j \in DOMAIN found,
                      found[j].id \in Suggested, found[i].downloads > found[j].downloads
               PROVE  found[i].id \in Suggested \cup passed
    BY DEF MostDownloadedFirst
  <2>1. Suggested \cup passed = {ranked[k].id : k \in 1 .. Looked}
    BY DEF SuggestInv, LookedAt
  <2>2. PICK l \in 1 .. Looked : found[j].id = ranked[l].id
    BY <2>1
  <2>3. Looked \in Nat /\ Looked <= Len(ranked)
    BY Counted DEF SuggestInv, LookedAt
  <2>4. Len(ranked) \in Nat /\ DOMAIN ranked = 1 .. Len(ranked)
    BY Lengths DEF SuggestInv
  <2>5. l \in DOMAIN ranked
    BY <2>2, <2>3, <2>4
  <2>6. PICK m \in DOMAIN found : ranked[l] = found[m]
    BY <2>5 DEF SuggestInv, Ranked
  <2>7. m = j
    BY <2>2, <2>6 DEF SuggestInv, FoundDiffer
  <2>8. found[i].downloads > ranked[l].downloads
    BY <2>6, <2>7
  <2>9. PICK k \in DOMAIN ranked : k < l /\ ranked[k] = found[i]
    BY <2>5, <2>8 DEF SuggestInv, Ranked
  <2>10. k \in 1 .. Looked
    BY <2>2, <2>3, <2>4, <2>9
  <2> QED BY <2>1, <2>9, <2>10
<1> QED BY <1>1, SuggestionsAreRanked, PTL

\* What the variants need, with and without their configuration, fits a signed
\* word.
VariantsFit ==
  \A v \in Variant : \A est \in Estimates(v) :
    /\ est.weight \in Nat /\ est.kv \in Nat
    /\ est.weight + est.kv + Overhead < Half

LEMMA UnitsOfGPU ==
  Overhead \in Nat /\ MiB \in Nat \ {0} /\ Gpu.vram \in Nat
<1>1. ASSUME NEW a \in Nat \ {0}, NEW b \in Nat \ {0} PROVE 2 * (a * b) \in Nat
  OBVIOUS
<1>2. Overhead \in Nat
  BY <1>1, PlannerAssumption DEF Overhead, GiB
<1>3. Gpu.vram \in Nat
  BY SuggestAssumption DEF GPU
<1> QED BY <1>2, <1>3, PlannerAssumption

LEMMA InWord ==
  ASSUME NEW h \in Nat \ {0}, NEW n \in Int, -h <= n, n < h
  PROVE  ((n + h) % (2 * h)) - h = n
OBVIOUS

\* The total of an estimate that fits a word is the sum of its parts.
LEMMA TotalIsSum ==
  ASSUME VariantsFit, NEW v \in Variant, NEW est \in Estimates(v)
  PROVE  /\ est.weight \in Nat /\ est.kv \in Nat
         /\ est.total = est.weight + est.kv + Overhead
<1>1. est.weight \in Nat /\ est.kv \in Nat /\ est.weight + est.kv + Overhead < Half
  BY DEF VariantsFit
<1>2. PICK cfg \in {About[v].content.config, NoConfig} :
        est = Estimate(About[v].content, cfg, Tokens)
  BY DEF Estimates
<1>3. est.total = Wrap(est.weight + est.kv + Overhead)
  BY <1>2 DEF Estimate
<1> DEFINE n == est.weight + est.kv + Overhead
<1>4. n \in Nat /\ n < Half
  BY <1>1, UnitsOfGPU
<1> HIDE DEF n
<1>5. -Half <= n
  BY <1>4, PlannerAssumption
<1>6. Wrap(n) = n
  BY <1>4, <1>5, InWord, PlannerAssumption DEF Wrap
<1> QED BY <1>1, <1>3, <1>6 DEF n

\* What is not too big leaves a tenth of the GPU.
LEMMA NotTooBig ==
  ASSUME NEW t \in Nat, NEW v \in Nat, Assess(t, v) # "TOO_BIG"
  PROVE  10 * t <= 9 * v * MiB
<1> DEFINE room == v * MiB
<1>1. room \in Nat /\ 9 * v * MiB = 9 * room /\ 153 * v * MiB = 153 * room
  BY UnitsOfGPU
<1>2. 200 * t <= 153 * room \/ 10 * t <= 9 * room
  BY <1>1 DEF Assess
<1> HIDE DEF room
<1>3. 10 * t <= 9 * room
  BY <1>1, <1>2
<1> QED BY <1>1, <1>3

LEMMA SuggestTyping == SuggestInv => TypeOK
<1> SUFFICES ASSUME SuggestInv PROVE TypeOK
  OBVIOUS
<1>1. /\ downloads \in [Variant -> 0 .. MaxDownloads]
      /\ pc \in {"search", "collect", "rank", "fetch", "config", "done", "failed"}
      /\ query \in 0 .. Queries /\ passed \subseteq Variant
  BY DEF SuggestInv, Typed
<1>2. Len(found) \in Nat /\ Len(answer) \in Nat
  BY Lengths DEF SuggestInv
<1>3. /\ Len(answer) <= Limit /\ Len(found) + Len(answer) <= query * Limit
      /\ Len(ranked) <= MaxFetches /\ Len(suggestions) <= MaxSuggestions
  BY DEF SuggestInv, Room, Ranked, LookedAt
<1>4. query \in Nat /\ Queries - query \in Nat
  BY <1>1, SuggestAssumption
<1>5. query * Limit <= Queries * Limit /\ query * Limit \in Nat /\ Queries * Limit \in Nat
  <2> DEFINE rest == Queries - query
  <2>1. Queries = query + rest
    BY <1>4, SuggestAssumption
  <2>2. rest \in Nat
    BY <1>4
  <2> HIDE DEF rest
  <2> QED BY <1>4, <2>1, <2>2, MoreSearches, SuggestAssumption
<1>6. Len(found) <= Queries * Limit
  BY <1>2, <1>3, <1>5
<1> QED BY <1>1, <1>3, <1>6 DEF TypeOK

\* The suggestions are of different models, none of them the one that did not
\* fit, and each fits the GPU: by its weights alone when its configuration could
\* not be read, with its cache when it could.
THEOREM SuggestionsAreWorthHaving ==
  ASSUME VariantsFit
  PROVE  Spec => []SuggestionsHelp
<1>1. SuggestInv => SuggestionsFit
  <2> SUFFICES ASSUME SuggestInv, NEW i \in DOMAIN suggestions
               PROVE  /\ 10 * (suggestions[i].est.weight + Overhead) <= 9 * Gpu.vram * MiB
                      /\ LET content == About[suggestions[i].id].content
                             full == Estimate(content, content.config, Tokens)
                         IN suggestions[i].est = full => Assess(full.total, Gpu.vram) # "TOO_BIG"
    BY DEF SuggestionsFit
  <2> DEFINE v == suggestions[i].id
             est == suggestions[i].est
  <2>1. suggestions[i] \in Suggestion
    BY Lengths DEF SuggestInv
  <2>2. v \in Variant /\ est \in Estimates(v)
    BY <2>1 DEF Suggestion
  <2>3. Assess(est.total, Gpu.vram) # "TOO_BIG"
    BY DEF SuggestInv, AllSuitable, Suitable
  <2> HIDE DEF v, est
  <2>4. /\ est.weight \in Nat /\ est.kv \in Nat
        /\ est.total = est.weight + est.kv + Overhead
    BY <2>2, TotalIsSum
  <2>5. est.total \in Nat /\ est.weight + Overhead <= est.total
    BY <2>4, UnitsOfGPU
  <2>6. 10 * est.total <= 9 * Gpu.vram * MiB
    BY <2>3, <2>5, NotTooBig, UnitsOfGPU
  <2>7. 9 * Gpu.vram * MiB \in Nat
    BY UnitsOfGPU
  <2>8. 10 * (est.weight + Overhead) <= 9 * Gpu.vram * MiB
    BY <2>4, <2>5, <2>6, <2>7, UnitsOfGPU
  <2> QED BY <2>3, <2>8 DEF v, est
<1>2. SuggestInv => SuggestionsHelp
  BY <1>1, SuggestTyping DEF SuggestInv, SuggestionsHelp
<1> QED BY <1>2, SuggestionsAreRanked, PTL

=============================================================================
