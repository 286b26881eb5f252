----------------------------- MODULE PendingRecall -----------------------------
(***************************************************************************)
(* Read your writes while relationships are learned.  What the user has just   *)
(* said waits for its relationship learning; until then a recall shows it       *)
(* first, from the durable works (projectDurablePendingAssertions) and from the  *)
(* overlay of the session (RecentAssertionOverlay).  The store is read in        *)
(* between: works end, memories are superseded and time passes while a recall runs.       *)
(* The content of a memory is left out: whether a question is about it, by the    *)
(* bigrams they share, is chosen when it is asked.                                 *)
(***************************************************************************)
EXTENDS Naturals, Sequences, FiniteSets, SequencesExt

CONSTANTS N,             \* memories, numbered in the order of their commits
          Graphs,        \* the candidates that memories may have; 0 is an active memory from before
          Questions,     \* what questions are about: sets of memories that match by their words
          ListLimits,    \* how many works a projection lists
          MaxEntries,    \* entries of the overlay
          AskLimit, EventLimit     \* bounds; of days that pass and restarts

VARIABLES limit,       \* of the works that are listed
          candidates,  \* memory -> the older ones its learning compares it with
          status,      \* memory -> absent, active or past
          work,        \* memory -> its relationship learning; pending is any unresolved state
          listing,     \* the unresolved works, the last updated first
          said,        \* the memory #rememberMemory waits for, or 0
          overlay,     \* recentAssertions of the session: [id, day], the last recorded last
          callbacks,   \* memories whose job will call onResolved
          day,         \* the overlay keeps an entry for the day of its record
          ask,         \* the recall that runs
          asked, restarts, \* bounds
          seen,        \* what was unresolved at some time of the recall
          owed,        \* what was unresolved all the time
          crowded      \* whether more than limit works were

vars == <<limit, candidates, status, work, listing, said, overlay, callbacks, day, ask, asked, restarts,
          seen, owed, crowded>>
recall == <<ask, asked>>
ghosts == <<seen, owed, crowded>>
session == <<said, overlay, callbacks, day>>

Memories == 1..N
Known == {m \in Memories : status[m] # "absent"}
Past == {m \in Memories : status[m] = "past"}
Unresolved == {m \in Memories : work[m] = "pending"}
NoAsk == [pc |-> "idle", id |-> 0, about |-> {}, hits |-> <<>>, works |-> <<>>, latest |-> 0, named |-> <<>>]

Init == /\ candidates \in Graphs /\ limit \in ListLimits
        /\ status = [m \in Memories |-> "absent"] /\ work = [m \in Memories |-> "none"]
        /\ listing = <<>> /\ said = 0 /\ overlay = <<>> /\ callbacks = {} /\ day = 0
        /\ ask = NoAsk /\ asked = 0 /\ restarts = 0
        /\ seen = {} /\ owed = {} /\ crowded = FALSE

\* What a recall has seen of the works, as they change.
Watch(pending) == IF ask = NoAsk THEN UNCHANGED ghosts
                  ELSE /\ seen' = seen \cup pending /\ owed' = owed \cap pending
                       /\ crowded' = (crowded \/ Cardinality(pending) > limit)

-----------------------------------------------------------------------------
(* RecentAssertionOverlay: record, #prune and resolve.                        *)

Fresh(entries) == SelectSeq(entries, LAMBDA e : e.day = day)
Without(entries, m) == SelectSeq(entries, LAMBDA e : e.id # m)
Bounded(entries) == SubSeq(entries, Len(entries) - MaxEntries + 1, Len(entries))
Recorded(entries, m) == LET all == Append(Without(Fresh(entries), m), [id |-> m, day |-> day])
                        IN IF Len(all) > MaxEntries THEN Bounded(all) ELSE all

\* The newest assertion among the hits is marked and comes first; what answered before
\* under another mark keeps it.  The ids are in the order of their times.
Named(entries, request, hits) ==
    {m \in Memories : (\E e \in ToSet(entries) : e.id = m)
                      /\ (request = m \/ \E h \in ToSet(hits) : h.id = m)}
Newest(S) == CHOOSE m \in S : \A n \in S : n <= m
Descending(S) == SetToSortSeq(S, LAMBDA a, b : a > b)
First(hits) == SelectSeq(hits, LAMBDA h : h.marked) \o SelectSeq(hits, LAMBDA h : ~h.marked)
\* Mutant: what comes first is the oldest assertion.
OldestFirst(entries, a) ==
    LET named == Named(entries, a.id, a.hits) IN
    IF a.hits = <<>> \/ named = {} THEN a
    ELSE LET oldest == CHOOSE m \in named : \A n \in named : m <= n IN
         [a EXCEPT !.hits = First([i \in DOMAIN a.hits |->
                               [a.hits[i] EXCEPT !.marked = @ \/ a.hits[i].id = oldest]]),
                   !.latest = oldest, !.named = Descending(named)]
Projected(entries, a) ==
    LET named == Named(entries, a.id, a.hits) IN
    IF a.hits = <<>> \/ named = {} THEN a
    ELSE [a EXCEPT !.hits = First([i \in DOMAIN a.hits |->
                               [a.hits[i] EXCEPT !.marked = @ \/ a.hits[i].id = Newest(named)]]),
                   !.latest = Newest(named), !.named = Descending(named)]

-----------------------------------------------------------------------------
(* Remembering, the worker, and what ends the overlay.                  *)

\* The record and its work are there; another session's commit leaves this overlay alone.
Commit(m, mine) ==
    /\ status[m] = "absent" /\ \A n \in 1..(m - 1) : status[n] # "absent"
    /\ said = 0
    /\ status' = [status EXCEPT ![m] = "active"]
    /\ work' = [work EXCEPT ![m] = IF candidates[m] = {} THEN "none" ELSE "pending"]
    /\ listing' = IF candidates[m] = {} THEN listing ELSE <<m>> \o listing
    /\ said' = IF mine THEN m ELSE 0
    /\ Watch(Unresolved \cup {n \in {m} : candidates[n] # {}})
    /\ UNCHANGED <<limit, candidates, overlay, callbacks, day, recall, restarts>>
\* getRelationshipLearning, whatever its state by now, and the entry of the overlay.
Noted == /\ said # 0 /\ said' = 0
         /\ IF work[said] = "none" THEN UNCHANGED <<overlay, callbacks>>
            ELSE overlay' = Recorded(overlay, said) /\ callbacks' = callbacks \cup {said}
         /\ UNCHANGED <<limit, candidates, status, work, listing, day, recall, restarts, ghosts>>

\* A claim or a wait updates the work.
Touch(m) == /\ m \in Unresolved /\ Head(listing) # m
            /\ listing' = <<m>> \o SelectSeq(listing, LAMBDA n : n # m)
            /\ UNCHANGED <<limit, candidates, status, work, session, recall, restarts, ghosts>>
\* The learning of a memory ends when that of its candidates has.
Consider(m) == /\ m \in Unresolved /\ candidates[m] \cap Unresolved = {}
               /\ \E end \in {"resolved", "failed"} : work' = [work EXCEPT ![m] = end]
               /\ \/ UNCHANGED status
                  \/ /\ work'[m] = "resolved"
                     /\ \E c \in candidates[m] \ {0} : status[c] = "active" /\ status' = [status EXCEPT ![c] = "past"]
               /\ listing' = SelectSeq(listing, LAMBDA n : n # m)
               /\ Watch(Unresolved \ {m})
               /\ UNCHANGED <<limit, candidates, session, recall, restarts>>
\* Mutant: the job does not look at what became of the work.
SettledSilently(m) == /\ m \in callbacks /\ m \notin Unresolved /\ m # said
                      /\ callbacks' = callbacks \ {m} /\ UNCHANGED overlay
                      /\ UNCHANGED <<limit, candidates, status, work, listing, said, day, recall, restarts, ghosts>>
Settled(m) == /\ m \in callbacks /\ m \notin Unresolved /\ m # said
              /\ callbacks' = callbacks \ {m}
              /\ overlay' = IF work[m] = "resolved" THEN Without(overlay, m) ELSE overlay
              /\ UNCHANGED <<limit, candidates, status, work, listing, said, day, recall, restarts, ghosts>>

Tick == /\ day + restarts < EventLimit /\ day' = day + 1
        /\ UNCHANGED <<limit, candidates, status, work, listing, said, overlay, callbacks, recall, restarts, ghosts>>
Restart == /\ day + restarts < EventLimit /\ restarts' = restarts + 1
           /\ said' = 0 /\ overlay' = <<>> /\ callbacks' = {}
           /\ ask' = NoAsk /\ seen' = {} /\ owed' = {} /\ crowded' = FALSE
           /\ UNCHANGED <<limit, candidates, status, work, listing, day, asked>>

-----------------------------------------------------------------------------
(* #recallMemory                                                              *)

Ask == /\ ask.pc = "idle" /\ asked < AskLimit /\ Known # {}
       /\ asked' = asked + 1
       /\ \E about \in Questions \cup {{}}, id \in {0} \cup Known :
             /\ (id = 0) = (about # {})
             /\ ask' = [NoAsk EXCEPT !.pc = IF id = 0 THEN "listFirst" ELSE "recall", !.id = id, !.about = about]
       /\ seen' = Unresolved /\ owed' = Unresolved /\ crowded' = (Cardinality(Unresolved) > limit)
       /\ UNCHANGED <<limit, candidates, status, work, listing, session, restarts>>

\* Mutant: a question concerns a work only by its hits.
ConcernsHits(m) == \E h \in ToSet(ask.hits) : h.id = m \/ h.id \in candidates[m]
\* listPendingRelationshipLearning, and the works the request or its hits concern.
Concerns(m) == \/ m \in ask.about \/ ask.id = m
               \/ \E h \in ToSet(ask.hits) : h.id = m \/ h.id \in candidates[m]
List == /\ ask.pc \in {"listFirst", "list"}
        /\ LET listed == SubSeq(listing, 1, IF Len(listing) < limit THEN Len(listing) ELSE limit) IN
           ask' = [ask EXCEPT !.pc = IF @ = "list" THEN "direct" ELSE "directFirst",
                              !.works = SelectSeq(listed, Concerns)]
        /\ UNCHANGED <<limit, candidates, status, work, listing, session, asked, restarts, ghosts>>

\* getRelationshipLearning of each hit, which is newer than the list; what is unresolved is
\* among the hits then, as current, whatever its record says.
Hit(m, how) == [id |-> m, status |-> how, marked |-> FALSE]
Works == LET direct == [i \in DOMAIN ask.hits |-> ask.hits[i].id]
             ids == ask.works \o SelectSeq(direct, LAMBDA m : m \notin ToSet(ask.works))
         IN SelectSeq(ids, LAMBDA m : m \in ToSet(direct) => m \in Unresolved)
Augmented(works) ==
    LET missing == SelectSeq(works, LAMBDA m : \A h \in ToSet(ask.hits) : h.id # m) IN
    [ask EXCEPT !.works = works, !.hits = @ \o [i \in DOMAIN missing |-> Hit(missing[i], "current")]]
Durable == LET entries == [i \in DOMAIN Works |-> [id |-> Works[i], day |-> day]]
           IN Projected(entries, Augmented(Works))
\* The first projection is of no hits: what it shows is the answer.
AnswerFirst == /\ ask.pc = "directFirst"
               /\ ask' = [Durable EXCEPT !.pc = IF Durable.hits = <<>> THEN "recall" ELSE "answered"]
               /\ UNCHANGED <<limit, candidates, status, work, listing, session, asked, restarts, ghosts>>
\* RecallCoordinator.recall: active memories, the newest last, and the one asked for by its id.
Recall == /\ ask.pc = "recall"
          /\ \E found \in SUBSET ({0} \cup {m \in Known : status[m] = "active" \/ m = ask.id}) :
             LET order == Reverse(Descending(found)) IN
                ask' = [ask EXCEPT !.pc = "list", !.works = <<>>,
                          !.hits = [i \in DOMAIN order |->
                                      Hit(order[i], IF order[i] \in Past THEN "historical" ELSE "current")]]
          /\ UNCHANGED <<limit, candidates, status, work, listing, session, asked, restarts, ghosts>>
Answer == /\ ask.pc = "direct"
          /\ overlay' = Fresh(overlay)
          /\ ask' = [Projected(overlay', Durable) EXCEPT !.pc = "answered"]
          /\ UNCHANGED <<limit, candidates, status, work, listing, said, callbacks, day, asked, restarts, ghosts>>

Return == /\ ask.pc = "answered" /\ ask' = NoAsk /\ seen' = {} /\ owed' = {} /\ crowded' = FALSE
          /\ UNCHANGED <<limit, candidates, status, work, listing, session, asked, restarts>>

-----------------------------------------------------------------------------
(* projectDurablePendingAutomaticRecall, of some hits and unresolved works:   *)
(* every work that hits or other such works are connected with, the ends of    *)
(* these chains instead of what they are compared with.                         *)

\* Mutant: only works that a hit is connected with.
ConnectedOnce(hits) == {w \in Unresolved : w \in hits \/ candidates[w] \cap hits # {}}
Connected(hits) ==
    LET Wider(ids, pass) == ids \cup UNION {{w} \cup candidates[w] :
                               w \in {v \in Unresolved : v \in ids \/ candidates[v] \cap ids # {}}}
        ids == FoldLeft(Wider, hits, [i \in Memories |-> i])
    IN {w \in Unresolved : w \in ids}
Shadows(hits) == UNION {candidates[w] : w \in Connected(hits)}
Leaves(hits) == Connected(hits) \ Shadows(hits)
Automatic(hits) ==
    IF Leaves(hits) = {} THEN hits
    ELSE Leaves(hits) \cup (hits \ (Shadows(hits) \cup Connected(hits)))

-----------------------------------------------------------------------------
Next == \/ \E m \in Memories : \/ \E mine \in BOOLEAN : Commit(m, mine)
                               \/ Touch(m) \/ Consider(m) \/ Settled(m)
        \/ Noted \/ Tick \/ Restart
        \/ Ask \/ List \/ AnswerFirst \/ Recall \/ Answer \/ Return
Spec == Init /\ [][Next]_vars

-----------------------------------------------------------------------------
Ids(hits) == {h.id : h \in ToSet(hits)}
TypeOK == /\ said \in 0..N /\ callbacks \subseteq Memories /\ ToSet(listing) = Unresolved
          /\ Len(listing) = Cardinality(Unresolved) /\ Len(overlay) <= MaxEntries
          /\ ask.latest \in 0..N /\ Ids(ask.hits) \subseteq 0..N

\* docs/architecture.md:129-131: what is asked about and waits for its learning all the time
\* of a recall is in the answer, with it or a newer assertion marked as the provisional latest;
\* unless more works wait than a projection lists.
ReadYourWrites ==
    ask.pc = "answered" /\ ~crowded =>
        \A m \in owed : (m \in ask.about \/ m = ask.id) =>
            /\ m \in Ids(ask.hits)
            /\ \E h \in ToSet(ask.hits) : h.marked /\ h.id >= m

\* An answer names as pending what was unresolved at some time of the recall, or what the overlay
\* of the session held longer than its learning took; it has each memory once, marked ones first,
\* and the one it is said to be the latest is marked when it is there.
NothingInvented ==
    ask.pc = "answered" =>
        /\ \A m \in ToSet(ask.named) \cup {h.id : h \in {x \in ToSet(ask.hits) : x.marked}} :
              m \in seen \/ work[m] \in {"resolved", "failed"}
        /\ Cardinality(Ids(ask.hits)) = Len(ask.hits)
        /\ \A i, j \in DOMAIN ask.hits : ask.hits[j].marked /\ i < j => ask.hits[i].marked
        /\ \A h \in ToSet(ask.hits) : h.id = ask.latest /\ h.id # 0 => h.marked

\* docs/architecture.md:133-134 "completion removes the overlay and exposes storage truth": the
\* overlay holds a resolved assertion only until the job that resolved it has returned.
StorageTruth == \A e \in ToSet(overlay) : work[e.id] = "resolved" => e.id \in callbacks

\* Automatic recall replaces what waits to be compared by the newest of it: a hit that is left out
\* has a newer assertion in the answer that it leads to, nothing in the answer is compared with
\* another one of it that is unresolved, and what no work concerns stays.
ChainsShowTheirEnd ==
    \A hits \in SUBSET (Known \cup {0}) :
        LET shown == Automatic(hits)
            Over(ids, pass) == ids \cup {w \in Unresolved : candidates[w] \cap ids # {}}
            Newer(h) == FoldLeft(Over, {h}, [i \in Memories |-> i])
        IN /\ \A h \in hits \ shown : \E w \in shown \cap Unresolved : w \in Newer(h) /\ w # h
           /\ \A h \in shown : \A w \in Unresolved : h \notin candidates[w]
           /\ shown \ hits \subseteq Unresolved
=============================================================================
