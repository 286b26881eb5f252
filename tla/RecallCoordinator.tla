--------------------------- MODULE RecallCoordinator ---------------------------
(***************************************************************************)
(* recall by id, by id and query, or by query (retrieval/src/                 *)
(* recall-coordinator.ts), over the resolver of references and its cache        *)
(* (resource-reference-resolver.ts).  One id is asked for, in the stores of     *)
(* memories, artifacts and events, by callers of two users; the record is       *)
(* Owner's.  A store may not be there yet, and a read of it may fail.          *)
(***************************************************************************)
EXTENDS Naturals, FiniteSets

CONSTANTS Callers, Users, Owner,
          References,                 \* the id, bare or with a prefix, or Nil
          TTL,                        \* CACHE_TTL_MS, in ticks of the clock
          TickLimit, FaultLimit, AskLimit, EditLimit, \* bounds
          Nil                         \* no id, no answer, no reason

ASSUME RecallAssumption == TTL \in Nat \ {0} /\ Nil # "bare"

Kinds == {"memory", "artifact", "event"}
VARIABLES there,   \* store -> "absent", or the state of its record of the id
          up,      \* the process has opened the stores
          since,   \* the time of the last change of there or up
          cache,   \* <<reference, user>> -> [type, reason, at]
          asking,  \* caller -> what it does
          answer,  \* the answer just given, Nil after any other step
          clock, faults, asked, edits

recallVars == <<there, up, since, cache, asking, answer, clock, faults, asked, edits>>
world == <<there, up, since, edits>>

Unasked == [pc |-> "idle"]
Put(f, k, v) == [x \in DOMAIN f \cup {k} |-> IF x = k THEN v ELSE f[x]]
Doing(c, pc) == asking[c].pc = pc
Mine(c) == asking[c].user = Owner

\* What an earlier process left.
LeftBehind == {t \in [Kinds -> {"absent", "writing", "ready"}] : t["memory"] # "writing" /\ t["event"] # "writing"}
RecallInit == /\ there \in LeftBehind /\ up = FALSE /\ since = 0 /\ edits = 0
              /\ cache = <<>> /\ asking = [c \in Callers |-> Unasked]
              /\ answer = Nil
              /\ clock = 0 /\ faults = 0 /\ asked = 0

-----------------------------------------------------------------------------
\* PREFIX_MAP: a prefix says which store to ask; a bare id is looked for in all.
Probed(reference) == CASE reference = "mem_" -> {"memory"} [] reference = "art_" -> {"artifact"}
                       [] reference = "ev_" -> {"event"} [] OTHER -> Kinds

Valid(entry) == entry.at + TTL > clock

Answer(c, found, reason, hits) ==
    /\ answer' = [request |-> asking[c].request, user |-> asking[c].user, found |-> found, reason |-> reason,
                  hits |-> hits]
    /\ asking' = [asking EXCEPT ![c] = Unasked]

\* A call that knows, from a resolution or the cache, what its id leads to.
Routed(user, request, found) ==
    [pc |-> "route", user |-> user, request |-> request, type |-> found.type, reason |-> found.reason]

\* recall: its three modes.
Ask(c, user, request) ==
    /\ asking[c] = Unasked /\ asked < AskLimit
    /\ asked' = asked + 1
    /\ LET key == <<request.id, user>>
           start == [pc |-> "search", user |-> user, request |-> request]
       IN  asking' = [asking EXCEPT ![c] =
               IF request.id = Nil THEN start
               ELSE IF key \in DOMAIN cache /\ Valid(cache[key]) THEN Routed(user, request, cache[key])
               ELSE [pc |-> "probe", user |-> user, request |-> request,
                     pending |-> Probed(request.id), seen |-> {}]]
    /\ answer' = Nil /\ UNCHANGED <<world, cache, clock, faults>>

\* What a read by the caller finds in a store: nothing of another user.
Visible(c, k) == up /\ Mine(c) /\ there[k] # "absent"

\* The reads of #resolveUncached, at once; one that fails found nothing.
Probe(c, k) ==
    /\ Doing(c, "probe") /\ k \in asking[c].pending
    /\ \/ /\ asking' = [asking EXCEPT ![c].pending = @ \ {k},
                                  ![c].seen = IF Visible(c, k) THEN @ \cup {<<k, there[k]>>} ELSE @]
          /\ UNCHANGED faults
       \/ /\ faults < FaultLimit /\ faults' = faults + 1
          /\ asking' = [asking EXCEPT ![c].pending = @ \ {k}]
    /\ answer' = Nil /\ UNCHANGED <<world, cache, clock, asked>>

Resolution(c) ==
    LET seen == asking[c].seen
        alive == {s \in seen : s[1] = "artifact" => s[2] = "ready"}
        prefixed == asking[c].request.id # "bare"
        one == CHOOSE s \in seen : TRUE
    IN  CASE prefixed /\ ~up -> [type |-> "unknown", reason |-> "failed"]
          [] prefixed /\ seen # {} /\ alive = {} ->
                 [type |-> "artifact", reason |-> IF one[2] = "expired" THEN "expired" ELSE "not_ready"]
          [] Cardinality(alive) > 1 -> [type |-> "unknown", reason |-> "ambiguous"]
          [] Cardinality(alive) = 1 -> [type |-> (CHOOSE s \in alive : TRUE)[1], reason |-> "resolved"]
          [] OTHER -> [type |-> "unknown", reason |-> "not_found"]

Resolve(c) ==
    /\ Doing(c, "probe") /\ asking[c].pending = {}
    /\ LET r == Resolution(c)
       IN  /\ cache' = Put(cache, <<asking[c].request.id, asking[c].user>>,
                           [type |-> r.type, reason |-> r.reason, at |-> clock])
           /\ asking' = [asking EXCEPT ![c] = Routed(@.user, @.request, r)]
    /\ answer' = Nil /\ UNCHANGED <<world, clock, faults, asked>>

\* What the id leads to: the record, and with a query what it is linked with.
Hits(c, k) == CASE k = "memory" /\ asking[c].request.query -> {"record", "linked"}
                [] k = "memory" -> {"record"}
                [] k = "artifact" /\ asking[c].request.query -> {"record"}
                [] OTHER -> {}
\* What is answered when the id leads nowhere.
\* Mutant: the query is searched for elsewhere.
FallsBack(c) == IF asking[c].request.query THEN {"others"} ELSE {}
Nothing(c) == {}

\* The record is read again, under the reference as it was given: with its prefix,
\* under which no store knows it.
Read(c) ==
    /\ Doing(c, "route")
    /\ LET k == asking[c].type
           query == asking[c].request.query
       IN  CASE asking[c].reason # "resolved" -> Answer(c, FALSE, asking[c].reason, Nothing(c)) /\ UNCHANGED faults
             [] query /\ k = "event" -> Answer(c, FALSE, "not_ready", Nothing(c)) /\ UNCHANGED faults
             [] OTHER ->
                  \/ /\ IF asking[c].request.id = "bare" /\ Visible(c, k)
                           /\ (k = "artifact" /\ query => there[k] = "ready")
                        THEN Answer(c, TRUE, "resolved", Hits(c, k))
                        ELSE Answer(c, FALSE, "not_found", Nothing(c))
                     /\ UNCHANGED faults
                  \/ /\ faults < FaultLimit /\ faults' = faults + 1
                     /\ Answer(c, FALSE, "failed", Nothing(c))
    /\ UNCHANGED <<world, cache, clock, asked>>

\* Query only: what the local index finds, or else the remote one, is shown if it
\* is the caller's; without a memory service there is nothing.
Search(c) ==
    /\ Doing(c, "search")
    /\ LET found == asking[c].request.query /\ Visible(c, "memory")
       IN  \/ Answer(c, found, Nil, IF found THEN {"record", "others"} ELSE {})
           \/ Answer(c, FALSE, Nil, {})
    /\ UNCHANGED <<world, cache, clock, faults, asked>>

-----------------------------------------------------------------------------
Resting == \A c \in Callers : asking[c] = Unasked

\* The stores are opened; a record is written, becomes ready, expires.
Open == /\ ~up /\ up' = TRUE /\ since' = clock
        /\ answer' = Nil /\ UNCHANGED <<there, edits, cache, asking, clock, faults, asked>>
Becomes(k, state) ==
    /\ up /\ edits < EditLimit
    /\ \/ there[k] = "absent" /\ state = (IF k = "artifact" THEN "writing" ELSE "ready")
       \/ k = "artifact" /\ there[k] = "writing" /\ state = "ready"
       \/ k = "artifact" /\ there[k] = "ready" /\ state = "expired"
    /\ there' = [there EXCEPT ![k] = state]
    /\ since' = clock /\ edits' = edits + 1
    /\ answer' = Nil /\ UNCHANGED <<up, cache, asking, clock, faults, asked>>
\* A call is short against the life of a cache entry.
TimePasses == /\ Resting /\ clock < TickLimit /\ clock' = clock + 1
              /\ answer' = Nil /\ UNCHANGED <<world, cache, asking, faults, asked>>

RecallRequests == {r \in [id : References, query : BOOLEAN] : r.id # Nil \/ r.query}
RecallNext ==
    \/ \E c \in Callers : \/ \E u \in Users, r \in RecallRequests : Ask(c, u, r)
                          \/ \E k \in Kinds : Probe(c, k)
                          \/ Resolve(c) \/ Read(c) \/ Search(c)
    \/ Open
    \/ \E k \in Kinds, state \in {"writing", "ready", "expired"} : Becomes(k, state)
    \/ TimePasses

RecallSpec == RecallInit /\ [][RecallNext]_recallVars

-----------------------------------------------------------------------------
RecordStates == {"absent", "writing", "ready", "expired"}
RecallTypeOK ==
    /\ there \in [Kinds -> RecordStates] /\ up \in BOOLEAN
    /\ clock \in Nat /\ since \in 0..clock
    /\ \A key \in DOMAIN cache : cache[key].at \in 0..clock
    /\ \A c \in Callers : \/ asking[c] = Unasked
                          \/ /\ asking[c].pc \in {"search", "probe", "route"}
                             /\ asking[c].user \in Users /\ asking[c].request \in RecallRequests

\* recall-coordinator.ts 4-12: with an id the answer comes from the record and what
\* it is linked with, or is empty; whatever failed, is stale or is another user's, it
\* is never a search of everything, and never another user's.
FailsClosed ==
    answer # Nil =>
        /\ answer.request.id # Nil => "others" \notin answer.hits
        /\ answer.hits # {} => answer.user = Owner /\ answer.found

\* A stale cache hides nothing for longer than the life of an entry: an id of one
\* store whose record has been readable that long, or longer, is found.
FoundInTime ==
    \A k \in Kinds :
        /\ answer # Nil /\ faults = 0
        /\ answer.request.id = "bare" /\ answer.user = Owner
        /\ (answer.request.query => k # "event")
        /\ up /\ there[k] = "ready" /\ since + TTL <= clock
        /\ \A other \in Kinds \ {k} : there[other] = "absent"
        => answer.reason = "resolved"

\* RecallCoordinator: whatever fails, is stale or belongs to somebody else, an id is
\* not answered with anything but the record it names, and that one is found in time.
RecallFailsClosed == RecallTypeOK /\ FailsClosed /\ FoundInTime
=============================================================================
