---------------------------- MODULE ProviderRuntime ----------------------------
(***************************************************************************)
(* The runtime that the standalone extensions share (core/src/runtime.ts):     *)
(* they declare providers when they are loaded, the first session activates    *)
(* one of each kind, kind after kind, and the shutdown disposes of them in the   *)
(* other order.  The extensions are pi-memory-extension                        *)
(* and pi-knowledge-extension.  Events of a session come     *)
(* one after the other: a shutdown finds no activation under way.           *)
(***************************************************************************)
EXTENDS Integers, Sequences, FiniteSets, SequencesExt

CONSTANTS Host,          \* the providers that the host declares, in order
          SessionLimit, FaultLimit,   \* bounds
          None

\* A provider: the kinds whose values its initialize reads, and whether it opens the
\* store; one that opens the store throws without an embedding provider.
Provider(id, kind, priority, reads, opens) ==
    [id |-> id, kind |-> kind, priority |-> priority, reads |-> reads, opens |-> opens]
Standalone == 100
Embedding == Provider("siliconflow", "embedding", Standalone, {}, FALSE)
Reranker == Provider("siliconflow", "reranker", Standalone, {}, FALSE)
Memory == Provider("standalone-memory", "memory", Standalone, {"embedding"}, TRUE)
Knowledge == Provider("standalone-knowledge", "knowledge", Standalone, {"embedding"}, TRUE)
MemoryRetrieval == Provider("standalone-retrieval", "retrieval", Standalone,
                            {"knowledge", "memory", "reranker", "embedding"}, FALSE)
KnowledgeRetrieval == Provider("standalone-knowledge-retrieval", "retrieval", Standalone,
                               {"knowledge", "reranker", "embedding"}, FALSE)
MemoryExtension == <<Embedding, Reranker, Memory, MemoryRetrieval>>
KnowledgeExtension == <<Embedding, Reranker, Knowledge, KnowledgeRetrieval>>
Extensions == [memory |-> MemoryExtension, knowledge |-> KnowledgeExtension, host |-> Host]

Providers == UNION {ToSet(Extensions[x]) : x \in DOMAIN Extensions}
Activation == <<"embedding", "reranker", "knowledge", "memory", "retrieval">>
Disposal == <<"retrieval", "memory", "knowledge", "reranker", "embedding">>
Kinds == ToSet(Activation)

\* A host is a provider of some kinds that others read; it declares none of them twice.
ASSUME ProvidersAssumption ==
    /\ Host \in Seq([id : STRING, kind : Kinds, priority : Int, reads : SUBSET Kinds, opens : BOOLEAN])
    /\ IsInjective(Host)
    /\ {SessionLimit, FaultLimit} \subseteq Nat
    /\ None \notin Providers /\ None \notin {"declared", "active", "shadowed", "failed", "disposed"}

VARIABLES entries,   \* declared provider -> its sequence number
          state,     \* provider -> its ProviderState, None while it is not declared
          services,  \* kind -> the provider whose value is served, or None
          built,     \* live value -> the values that served when it was made
          handles,   \* the providers that hold a handle of the store
          phase, at, \* what the runtime does, and at which kind
          tried,     \* the candidates of this kind that were tried
          stuck,     \* history: the providers whose disposal failed to give their handle back
          sessions, faults

runtimeVars == <<entries, state, services, built, handles, phase, at, tried, stuck, sessions, faults>>

Declared == DOMAIN entries
Live == DOMAIN built
Fault == faults < FaultLimit /\ faults' = faults + 1

RuntimeInit == /\ entries = <<>> /\ state = [p \in Providers |-> None]
               /\ services = [k \in Kinds |-> None]
               /\ built = <<>> /\ handles = {} /\ stuck = {}
               /\ phase = "declaring" /\ at = 1 /\ tried = {}
               /\ sessions = 0 /\ faults = 0

\* #register: a provider that is already declared is not declared again.
Declare(x) ==
    LET new == {i \in DOMAIN Extensions[x] : Extensions[x][i] \notin Declared}
        Number(p) == Cardinality(Declared) + Cardinality({i \in new : \E j \in new : i < j /\ Extensions[x][j] = p})
    IN  /\ phase = "declaring" /\ new # {}
        /\ entries' = [p \in Declared \cup ToSet(Extensions[x]) |->
                          IF p \in Declared THEN entries[p] ELSE Number(p)]
        /\ state' = [p \in Providers |->
                        IF p \in ToSet(Extensions[x]) \ Declared THEN "declared" ELSE state[p]]
        /\ UNCHANGED <<services, built, handles, phase, at, tried, stuck, sessions, faults>>

\* ready: #activate runs once.
Ready == /\ phase = "declaring"
         /\ phase' = "activating" /\ at' = 1 /\ tried' = {}
         /\ UNCHANGED <<entries, state, services, built, handles, stuck, sessions, faults>>

-----------------------------------------------------------------------------
\* #activate, for one kind.
Candidates == {p \in Declared : p.kind = Activation[at]}
\* Mutant: in the order of their declaration.
DeclaredFirst(p, q) == entries[p] < entries[q]
Outranks(p, q) == \/ p.priority > q.priority
                  \/ p.priority = q.priority /\ entries[p] < entries[q]
Left == {p \in Candidates : p \notin tried /\ state[p] # "disposed"}
ComesNext(p) == p \in Left /\ \A q \in Left \ {p} : Outranks(p, q)
Highest == {p \in Candidates : \A q \in Candidates : q.priority <= p.priority}
Activating == phase = "activating" /\ at <= Len(Activation)
Arbitrated == tried = {} => Cardinality(Highest) <= 1

\* Two providers of the highest priority: nothing more is activated.
Conflict == /\ Activating /\ ~Arbitrated
            /\ phase' = "rejected"
            /\ UNCHANGED <<entries, state, services, built, handles, at, tried, stuck, sessions, faults>>

\* The first candidate that initializes serves, and the others stand back.
Initializes(p) ==
    /\ Activating /\ Arbitrated /\ ComesNext(p)
    /\ p.opens => services["embedding"] # None
    /\ state' = [q \in Providers |->
                    IF q = p THEN "active"
                    ELSE IF q \in Candidates /\ state[q] = "declared" THEN "shadowed" ELSE state[q]]
    /\ services' = [services EXCEPT ![p.kind] = p]
    /\ built' = [q \in Live \cup {p} |-> IF q = p THEN {services[k] : k \in p.reads} \ {None} ELSE built[q]]
    /\ handles' = IF p.opens THEN handles \cup {p} ELSE handles
    /\ at' = at + 1 /\ tried' = {}
    /\ UNCHANGED <<entries, phase, stuck, sessions, faults>>

\* initialize throws: no embedding, no credential, no store.
InitializeFails(p) ==
    /\ Activating /\ Arbitrated /\ ComesNext(p)
    /\ \/ p.opens /\ services["embedding"] = None /\ UNCHANGED faults
       \/ Fault
    /\ state' = [state EXCEPT ![p] = "failed"] /\ tried' = tried \cup {p}
    /\ UNCHANGED <<entries, services, built, handles, phase, at, stuck, sessions>>

\* No candidate is left.
NextKind == /\ Activating /\ Arbitrated /\ Left = {}
            /\ at' = at + 1 /\ tried' = {}
            /\ UNCHANGED <<entries, state, services, built, handles, phase, stuck, sessions, faults>>
Activated == /\ phase = "activating" /\ at > Len(Activation)
             /\ phase' = "ready"
             /\ UNCHANGED <<entries, state, services, built, handles, at, tried, stuck, sessions, faults>>

-----------------------------------------------------------------------------
AtRest == phase \in {"ready", "rejected"}

\* The handle of one registration: its value is disposed of, which may fail or take
\* more than 5 s, and nobody takes its place.
Unregister(p) ==
    /\ phase \in {"declaring", "ready", "rejected"} /\ state[p] \notin {None, "disposed"}
    /\ state' = [state EXCEPT ![p] = "disposed"]
    /\ IF p \in Live
       THEN /\ services' = [services EXCEPT ![p.kind] = None]
            /\ built' = Restrict(built, Live \ {p})
            /\ \/ handles' = handles \ {p} /\ UNCHANGED <<stuck, faults>>
               \/ Fault /\ stuck' = stuck \cup ({p} \cap handles) /\ UNCHANGED handles
       ELSE UNCHANGED <<services, built, handles, stuck, faults>>
    /\ UNCHANGED <<entries, phase, at, tried, sessions>>

\* session_shutdown.
Shutdown == /\ AtRest /\ phase' = "disposing" /\ at' = 1
            /\ UNCHANGED <<entries, state, services, built, handles, tried, stuck, sessions, faults>>

\* Mutant: in the order of activation.
DisposalForward == Activation
Turn == Disposal
Due == {p \in Declared : p.kind = Turn[at] /\ state[p] = "active"}

\* dispose, for one value: it is done with, or it fails or takes more than 5 s.
Dispose(p) ==
    /\ phase = "disposing" /\ at <= Len(Turn) /\ p \in Due /\ \A q \in Due : entries[p] <= entries[q]
    /\ \/ /\ state' = [state EXCEPT ![p] = "disposed"] /\ handles' = handles \ {p}
          /\ UNCHANGED <<stuck, faults>>
       \/ /\ state' = [state EXCEPT ![p] = "failed"] /\ stuck' = stuck \cup ({p} \cap handles) /\ Fault
          /\ UNCHANGED handles
    /\ built' = Restrict(built, Live \ {p})
    /\ UNCHANGED <<entries, services, phase, at, tried, sessions>>
DisposeNext == /\ phase = "disposing" /\ at <= Len(Turn) /\ Due = {}
               /\ at' = at + 1
               /\ UNCHANGED <<entries, state, services, built, handles, phase, tried, stuck, sessions, faults>>
Disposed ==
    /\ phase = "disposing" /\ at > Len(Turn)
    /\ services' = [k \in Kinds |-> None]
    /\ state' = [p \in Providers |-> IF state[p] \in {"declared", "shadowed"} THEN "disposed" ELSE state[p]]
    /\ phase' = "disposed"
    /\ UNCHANGED <<entries, built, handles, at, tried, stuck, sessions, faults>>

\* resetGlobalRuntime: the next session loads the extensions again, into a new runtime.
NewSession == /\ phase = "disposed" /\ sessions < SessionLimit /\ sessions' = sessions + 1
              /\ entries' = <<>> /\ state' = [p \in Providers |-> None]
              /\ services' = [k \in Kinds |-> None] /\ built' = <<>>
              /\ phase' = "declaring" /\ at' = 1 /\ tried' = {}
              /\ UNCHANGED <<handles, stuck, faults>>

RuntimeNext ==
        \/ \E x \in DOMAIN Extensions : Declare(x)
        \/ Ready \/ Conflict \/ NextKind \/ Activated \/ Shutdown \/ DisposeNext \/ Disposed \/ NewSession
        \/ \E p \in Providers : Initializes(p) \/ InitializeFails(p) \/ Unregister(p) \/ Dispose(p)
RuntimeSpec == RuntimeInit /\ [][RuntimeNext]_runtimeVars

-----------------------------------------------------------------------------
\* Every variable holds a value of its type; a live value is that of an active provider.
RuntimeTypeOK ==
    /\ Declared \subseteq Providers /\ Live \subseteq Declared /\ at \in 1..6
    /\ state \in [Providers -> {None, "declared", "active", "shadowed", "failed", "disposed"}]
    /\ services \in [Kinds -> Providers \cup {None}]
    /\ \A p \in Live : state[p] = "active"

\* The best provider serves: when a kind is not served by the best, all that would
\* have been better have failed or were disposed of.
BestServes ==
    AtRest => \A p, q \in Declared :
        p.kind = q.kind /\ p.priority > q.priority /\ services[p.kind] = q
            => state[p] \in {"failed", "disposed"}

\* A value is used by others until the last of them is gone: the embedding provider,
\* the memory and the knowledge outlive the retrieval that was built on them, unless
\* somebody took them back himself.
DependentsFirst ==
    phase = "disposing" =>
        \A p \in Live : \A q \in built[p] : q \in Live \/ services[q.kind] # q

\* A handle of the store is held by a live value, or by one whose disposal failed.
HandlesReturn == /\ handles \subseteq Live \cup stuck
                 /\ phase = "disposed" => handles \subseteq stuck

\* What is served is alive, except while it is disposed of.
ServedIsLive == AtRest => \A k \in Kinds : services[k] # None => services[k] \in Live

\* ProviderRuntime: the best provider of a kind serves, outlives those that use it, and
\* gives back its handle of the store.
ProvidersHold == RuntimeTypeOK /\ BestServes /\ DependentsFirst /\ HandlesReturn /\ ServedIsLive

=============================================================================
