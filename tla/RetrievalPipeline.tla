--------------------------- MODULE RetrievalPipeline ---------------------------
(***************************************************************************)
(* One search of the retrieval service (retrieval/src/service.ts): planner,     *)
(* knowledge, views, memories, verification against knowledge, fusion, gates,   *)
(* rerank, deduplication, cutoff, diversity, context budget.  Stages that await *)
(* fail, or meet the timeout or the caller's abort, and the search goes on      *)
(* with what it has.  Scores are abstract: where a stage keeps the best of a    *)
(* list, the model keeps any, so what it shows does not rest on the weights.    *)
(***************************************************************************)
EXTENDS Naturals, FiniteSets

CONSTANTS Corpus,         \* hits: [id, kind, own, current, fits, authority, content, cost, fts]
          Contradicts,    \* pairs <<knowledge id, memory id>> of conflicting versions
          CandidateLimit, TopK,
          Total, OfKnowledge, OfMemory  \* token budgets of the context

ASSUME RetrievalAssumption ==
    /\ IsFiniteSet(Corpus)
    /\ \A h \in Corpus : {"id", "kind", "current", "content", "fts"} \subseteq DOMAIN h
    /\ {CandidateLimit, TopK} \subseteq Nat \ {0} /\ {Total, OfKnowledge, OfMemory} \subseteq Nat

VARIABLES stage,          \* the place the search has reached
          request,        \* [required (a rerank), historical, minimum (authority)]
          timedOut, aborted,
          found,          \* stage -> the hits it found
          removed,        \* knowledge removed from the store in the meantime
          marked,         \* memories marked as conflicted in the store
          hits,           \* the list the stages narrow down
          outcome,        \* "open", "failed" or "returned"
          context         \* the hits that are returned

searchVars == <<stage, request, timedOut, aborted, found, removed, marked, hits, outcome, context>>

SearchRequests == [required : BOOLEAN, historical : BOOLEAN, minimum : {0, 1}]
KindIn(s, k) == {h \in s : h.kind = k}
\* The tokens of some hits, counted one by one.
Cost(s) == Cardinality(UNION {{h} \X (1..h.cost) : h \in s})

SearchInit ==
    /\ stage = "plan" /\ request \in SearchRequests
    /\ timedOut = FALSE /\ aborted = FALSE
    /\ found = [k \in {"knowledge", "view", "memory"} |-> {}]
    /\ removed = {} /\ marked = {} /\ hits = {}
    /\ outcome = "open" /\ context = {}

-----------------------------------------------------------------------------
SearchEnds(how) == stage' = "done" /\ outcome' = how

\* The planner: a failure is a fallback plan, but the caller's abort may make it an
\* error; once the signal is aborted nothing is searched.
Plan == /\ stage = "plan"
        /\ \/ (timedOut \/ aborted) /\ SearchEnds("returned")
           \/ aborted /\ SearchEnds("failed")
           \/ ~timedOut /\ ~aborted /\ stage' = "knowledge" /\ UNCHANGED outcome
        /\ UNCHANGED <<request, timedOut, aborted, found, removed, marked, hits, context>>

\* A search returns what it found; one that fails has found nothing.
Stage(k, to) ==
    /\ stage = k
    /\ \E s \in SUBSET KindIn(Corpus, k) : /\ Cardinality(s) <= CandidateLimit
                                          /\ found' = [found EXCEPT ![k] = s]
    /\ stage' = to
    /\ UNCHANGED <<request, timedOut, aborted, removed, marked, hits, outcome, context>>
SearchKnowledge == Stage("knowledge", "view")
SearchViews == Stage("view", "memory")
SearchMemories == Stage("memory", "verify")

-----------------------------------------------------------------------------
Contradicting(m) == {k \in found["knowledge"] : <<k.id, m.id>> \in Contradicts}
Disputed == {m \in found["memory"] : Contradicting(m) # {}}
Gone(k) == k.id \in removed

\* Mutant: the mark is not taken over into the list.
Unmarked(m) == m
Conflicted(m) == [m EXCEPT !.current = FALSE]
Fused(bad) == found["knowledge"] \cup found["view"] \cup (found["memory"] \ bad)
                  \cup {Conflicted(m) : m \in bad}

\* A memory that found knowledge contradicts is marked, in the store and in the list.
\* Only the first such hit is tried: when it is gone from the store the memory stays
\* as it is.  A mark that fails, fails the search.
Verify ==
    /\ stage = "verify"
    /\ \/ \E bad \in SUBSET Disputed :
              /\ \A m \in Disputed :
                     /\ m \notin bad => \E k \in Contradicting(m) : Gone(k)
                     /\ m \in bad => \E k \in Contradicting(m) : ~Gone(k)
              /\ marked' = {m.id : m \in bad}
              /\ hits' = Fused(bad)
              /\ stage' = "gate" /\ UNCHANGED outcome
       \/ /\ Disputed # {} /\ SearchEnds("failed")
          /\ \E bad \in SUBSET Disputed : marked' = {m.id : m \in bad}
          /\ UNCHANGED hits
    /\ UNCHANGED <<request, timedOut, aborted, found, removed, context>>

\* gateSearchHit, and the least authority the policy asks for.
Allowed(h) == /\ h.own
              /\ h.kind = "memory" => h.fits /\ (request.historical \/ h.current)
              /\ h.authority >= request.minimum

\* Whatever the scores are, the best of a list are some of its hits.
Best(s, n) == {b \in SUBSET s : Cardinality(b) = IF Cardinality(s) < n THEN Cardinality(s) ELSE n}

Gate ==
    /\ stage = "gate"
    /\ hits' \in Best({h \in hits : Allowed(h)}, CandidateLimit)
    /\ stage' = "rerank"
    /\ UNCHANGED <<request, timedOut, aborted, found, removed, marked, outcome, context>>

\* The reranker only changes scores, and when it fails they stay; a search that
\* requires it fails with it.
Rerank ==
    /\ stage = "rerank"
    /\ \/ stage' = "assemble" /\ UNCHANGED outcome
       \/ request.required /\ Cardinality(hits) > 1 /\ SearchEnds("failed")
    /\ UNCHANGED <<request, timedOut, aborted, found, removed, marked, hits, context>>

-----------------------------------------------------------------------------
\* structuralDedupe: one hit for each content of a namespace.
Deduped(s) == {d \in SUBSET s : /\ {h.content : h \in d} = {h.content : h \in s}
                                /\ \A g, h \in d : g.content = h.content => g = h}

\* adaptiveCutoff: the best and perhaps more, or nothing when even the best is below
\* the floor, to which preserveLexicalEvidenceFloor lifts every hit of the text index.
AfterCutoff(s) == {c \in SUBSET s : c = {} => \A h \in s : ~h.fts}

\* selectContext: hits are taken, in some order, while they fit.
InBudget(s) == /\ Cost(s) <= Total
           /\ Cost(KindIn(s, "knowledge")) <= OfKnowledge
           /\ Cost(s \ KindIn(s, "knowledge")) <= OfMemory
Selected(s) == {c \in SUBSET s : InBudget(c) /\ \A h \in s \ c : ~InBudget(c \cup {h})}

Assemble ==
    /\ stage = "assemble"
    /\ \E unique \in Deduped(hits) : \E kept \in AfterCutoff(unique) :
           \E diverse \in Best(kept, TopK) : context' \in Selected(diverse)
    /\ SearchEnds("returned")
    /\ UNCHANGED <<request, timedOut, aborted, found, removed, marked, hits>>

-----------------------------------------------------------------------------
TimeOut == /\ ~timedOut /\ outcome = "open" /\ timedOut' = TRUE
           /\ UNCHANGED <<stage, request, aborted, found, removed, marked, hits, outcome, context>>
GiveUp == /\ ~aborted /\ outcome = "open" /\ aborted' = TRUE
          /\ UNCHANGED <<stage, request, timedOut, found, removed, marked, hits, outcome, context>>
\* Another command removes a chunk that this search may have found.
Remove == /\ removed = {} /\ outcome = "open"
          /\ \E p \in Contradicts : removed' = {p[1]}
          /\ UNCHANGED <<stage, request, timedOut, aborted, found, marked, hits, outcome, context>>

SearchNext ==
    \/ Plan \/ SearchKnowledge \/ SearchViews \/ SearchMemories
    \/ Verify \/ Gate \/ Rerank \/ Assemble
    \/ TimeOut \/ GiveUp \/ Remove

SearchSpec == SearchInit /\ [][SearchNext]_searchVars

-----------------------------------------------------------------------------
SearchTypeOK ==
    /\ stage \in {"plan", "knowledge", "view", "memory", "verify", "gate", "rerank", "assemble", "done"}
    /\ request \in SearchRequests /\ {timedOut, aborted} \subseteq BOOLEAN
    /\ \A k \in {"knowledge", "view", "memory"} : found[k] \subseteq KindIn(Corpus, k)
    /\ IsFiniteSet(hits) /\ context \subseteq hits
    /\ outcome \in {"open", "failed", "returned"} /\ (outcome = "open" <=> stage # "done")

\* Whichever stages fail or race with a removal, what reaches the context keeps its
\* three budgets, says nothing twice, is the caller's, and is no memory that knowledge
\* found by the same search, and not removed since, contradicts: unless history was
\* asked for.
ContextIsTrusted ==
    /\ InBudget(context)
    /\ \A g, h \in context : g.content = h.content => g = h
    /\ \A h \in context : h.own /\ h.authority >= request.minimum
    /\ \A m \in KindIn(context, "memory") :
           request.historical \/ Contradicting(m) = {} \/ \E k \in Contradicting(m) : Gone(k)

\* A stage that fails costs its own hits only: a search fails when the caller gave up,
\* a rerank was required, or a contradiction could not be marked.
FailureDegrades ==
    outcome = "failed" => aborted \/ request.required \/ Disputed # {}

\* A search that found a text hit, and has room for each candidate, shows something. Of two
\* hits of one content the better one stays, before the floor is lifted for text hits: a text
\* hit with a twin that is none may go with it.
TextHit(h) == \A twin \in hits : twin.content = h.content => twin.fts
TextHitIsShown ==
    (outcome = "returned" /\ \E h \in hits : TextHit(h)) =>
        context # {} \/ \E h \in hits : ~InBudget({h})

\* RetrievalPipeline: whichever stages fail, the context is trusted and bounded.
RetrievalIsSound == SearchTypeOK /\ ContextIsTrusted /\ FailureDegrades /\ TextHitIsShown
=============================================================================
