------------------------------- MODULE Suggest -------------------------------
(***************************************************************************)
(* planner.SuggestQuantized: the variants of a model that plan offers when *)
(* the model is too big, from several searches of a hub whose counters     *)
(* move on and some of whose answers fail.                                 *)
(***************************************************************************)
EXTENDS Preflight, SequencesExt

CONSTANTS
  Variant,         \* repositories the searches may find
  About,           \* [key, related, servable, content] of each
  Base,            \* the key of the model asked about
  Queries,         \* len(variantQueries)
  Limit,           \* searchLimitPerQuery
  MaxFetches,      \* maxCandidateFetches
  MaxSuggestions,  \* maxSuggestions
  MaxDownloads,    \* bound on the hub's counters
  Gpu,             \* the GPU planned for
  Tokens           \* the context length planned for

ASSUME SuggestAssumption ==
  /\ Queries \in Nat \ {0} /\ Limit \in Nat \ {0} /\ MaxFetches \in Nat \ {0}
  /\ MaxSuggestions \in Nat \ {0} /\ MaxDownloads \in Nat \ {0} /\ Tokens \in Nat \ {0}
  /\ Gpu \in GPU

VARIABLES
  downloads,    \* the hub's counters
  pc,           \* search, collect, rank, fetch, config, done, failed
  query,        \* searches made
  answer,       \* what is left of the last search's answer: [id, downloads]
  found,        \* candidates: [id, downloads], as a search reported them
  ranked,       \* those that will be looked at, in order
  suggestions,  \* the answer: [id, est]
  passed        \* history: looked at, and not suggested

vars == <<downloads, pc, query, answer, found, ranked, suggestions, passed>>

Init ==
  /\ downloads \in [Variant -> 0 .. MaxDownloads]
  /\ pc = "search" /\ query = 0
  /\ answer = <<>> /\ found = <<>> /\ ranked = <<>> /\ suggestions = <<>> /\ passed = {}

-----------------------------------------------------------------------------
Keys(candidates) == {About[candidates[i].id].key : i \in DOMAIN candidates}

\* Not seen before, in any spelling, not the model itself; with its name in the
\* id; and not a format that vLLM does not serve.
Wanted(id) ==
  /\ About[id].key \notin Keys(found) \cup {Base}
  /\ About[id].related /\ About[id].servable

\* The answer to one search: at most Limit models, most downloaded first.
Answer == {s \in BoundedSeq(Variant, Limit) :
             \A i, j \in DOMAIN s : i < j => s[i] # s[j] /\ downloads[s[i]] >= downloads[s[j]]}

Search ==
  /\ pc = "search"
  /\ \E s \in Answer :
       answer' = [i \in DOMAIN s |-> [id |-> s[i], downloads |-> downloads[s[i]]]]
  /\ query' = query + 1
  /\ pc' = "collect"
  /\ UNCHANGED <<downloads, found, ranked, suggestions, passed>>

\* The loop over one answer, model by model.
Collect ==
  /\ pc = "collect" /\ answer # <<>>
  /\ found' = IF Wanted(Head(answer).id) THEN Append(found, Head(answer)) ELSE found
  /\ answer' = Tail(answer)
  /\ UNCHANGED <<downloads, pc, query, ranked, suggestions, passed>>

\* The next search, or none.
Collected ==
  /\ pc = "collect" /\ answer = <<>>
  /\ pc' = IF query = Queries THEN "rank" ELSE "search"
  /\ UNCHANGED <<downloads, query, answer, found, ranked, suggestions, passed>>

\* A search that fails fails the suggestions.
SearchFails ==
  /\ pc = "search"
  /\ pc' = "failed"
  /\ UNCHANGED <<downloads, query, answer, found, ranked, suggestions, passed>>

Shortest(s, n) == SubSeq(s, 1, IF Len(s) < n THEN Len(s) ELSE n)

\* sort.Slice leaves equal elements in any order.
Rankings(s) ==
  {r \in SetToSeqs(ToSet(s)) : \A i, j \in DOMAIN r : i < j => r[i].downloads >= r[j].downloads}

\* Mutants: cut first and sorted afterwards; not cut.
RankShortest ==
  /\ pc = "rank"
  /\ ranked' \in Rankings(Shortest(found, MaxFetches))
  /\ pc' = "fetch"
  /\ UNCHANGED <<downloads, query, answer, found, suggestions, passed>>

Rank ==
  /\ pc = "rank"
  /\ ranked' \in {Shortest(r, MaxFetches) : r \in Rankings(found)}
  /\ pc' = "fetch"
  /\ UNCHANGED <<downloads, query, answer, found, suggestions, passed>>

Looked == Cardinality(passed) + Len(suggestions)

Exhausted == Looked = Len(ranked) \/ Len(suggestions) = MaxSuggestions

Candidate == ranked[Looked + 1].id

Pass ==
  /\ passed' = passed \cup {Candidate}
  /\ pc' = "fetch" /\ UNCHANGED suggestions

Return ==
  /\ pc = "fetch" /\ Exhausted
  /\ pc' = "done"
  /\ UNCHANGED <<downloads, query, answer, found, ranked, suggestions, passed>>

\* GetModel; a failure, or an answer without a commit, passes the candidate over.
Fetch ==
  /\ pc = "fetch" /\ ~Exhausted
  /\ \/ Pass
     \/ pc' = "config" /\ UNCHANGED <<suggestions, passed>>
  /\ UNCHANGED <<downloads, query, answer, found, ranked>>

NoConfig == [layers |-> 0, heads |-> 0, kvHeads |-> 0, headDim |-> 0, hidden |-> 0,
             maxPos |-> 0, method |-> "", bits |-> 0]

\* Mutant: what is too big is listed too.
SuitableAnySize(content, est) == content.sized /\ est.quant # ""

\* Estimable, quantized and not too big.
Suitable(content, est) ==
  /\ content.sized /\ est.quant # ""
  /\ Assess(est.total, Gpu.vram) # "TOO_BIG"

\* GetConfigAtRevision, without which the estimate is made from no config at
\* all, whatever the failure was; then the decision.
Consider ==
  /\ pc = "config"
  /\ LET content == About[Candidate].content IN
     \E cfg \in {content.config, NoConfig} :
       LET est == Estimate(content, cfg, Tokens) IN
       IF Suitable(content, est)
       THEN /\ suggestions' = Append(suggestions, [id |-> Candidate, est |-> est])
            /\ pc' = "fetch" /\ UNCHANGED passed
       ELSE Pass
  /\ UNCHANGED <<downloads, query, answer, found, ranked>>

\* Somebody downloads a variant.
Download ==
  /\ \E v \in Variant :
       downloads[v] < MaxDownloads /\ downloads' = [downloads EXCEPT ![v] = @ + 1]
  /\ UNCHANGED <<pc, query, answer, found, ranked, suggestions, passed>>

Next ==
  \/ Search \/ SearchFails \/ Collect \/ Collected \/ Rank
  \/ Fetch \/ Consider \/ Return \/ Download

Spec == Init /\ [][Next]_vars

-----------------------------------------------------------------------------
Suggested == {suggestions[i].id : i \in DOMAIN suggestions}

TypeOK ==
  /\ downloads \in [Variant -> 0 .. MaxDownloads]
  /\ pc \in {"search", "collect", "rank", "fetch", "config", "done", "failed"}
  /\ query \in 0 .. Queries
  /\ Len(answer) <= Limit /\ Len(found) <= Queries * Limit
  /\ Len(ranked) <= MaxFetches /\ Len(suggestions) <= MaxSuggestions
  /\ passed \subseteq Variant

\* No two suggestions are the same repository, however the searches spell it,
\* and none is the model that did not fit.
SuggestionsDiffer ==
  /\ \A i, j \in DOMAIN suggestions :
       About[suggestions[i].id].key = About[suggestions[j].id].key => i = j
  /\ Base \notin Keys(suggestions)

\* Nothing the searches found is left out in favour of a less downloaded
\* variant, unless it was looked at and turned down.
MostDownloadedFirst ==
  \A i, j \in DOMAIN found :
    found[j].id \in Suggested /\ found[i].downloads > found[j].downloads
      => found[i].id \in Suggested \cup passed

\* What is suggested fits by the part of its need that needs no configuration,
\* and all of it when the configuration could be read.
SuggestionsFit ==
  \A i \in DOMAIN suggestions :
    LET content == About[suggestions[i].id].content
        full == Estimate(content, content.config, Tokens) IN
      /\ 10 * (suggestions[i].est.weight + Overhead) <= 9 * Gpu.vram * MiB
      /\ suggestions[i].est = full => Assess(full.total, Gpu.vram) # "TOO_BIG"

\* Types, and suggestions that are worth having.
SuggestionsHelp == TypeOK /\ SuggestionsDiffer /\ SuggestionsFit

\* Claim (DECISIONS, D-017): the planner "inspects the host GPU (VRAM,
\* architecture)" for its "quantized-variant suggestions": what it suggests,
\* deploy's check of the architecture lets through.
SuggestedForThisGPU ==
  \A i \in DOMAIN suggestions :
    LET quant == suggestions[i].est.quant
    IN Gpu.compute >= requiredCompute(quant)

=============================================================================
