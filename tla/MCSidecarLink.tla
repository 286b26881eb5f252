---------------------------- MODULE MCSidecarLink ----------------------------
(***************************************************************************)
(* The Sidecar and what must outlive it, side by side: the link of the     *)
(* adapter to its process (SidecarLink), the work of relationship learning *)
(* that a restart takes up again (RelationshipLearning), the settings of   *)
(* the inference provider that several Sidecars read (ProviderSettings),   *)
(* and the topics and tasks that sessions share (ContextState).            *)
(* They share no variable: part, chosen at the start, says which runs.     *)
(***************************************************************************)
EXTENDS SidecarLink, RelationshipLearning, ProviderSettings, ContextState

\* A chain of memories, each one a candidate of the later ones. The first has no
\* candidates and no work.
MCCandidates == [m \in 1..3 |-> {c \in 1..3 : c < m}]

VARIABLE part

\* Two sessions; a model of two dimensions and one of only the first.
CONSTANTS s1, s2
MCSupported == [m \in {"qwen", "bge"} |-> IF m = "qwen" THEN {1, 2} ELSE {1}]
MCDefault == [m \in {"qwen", "bge"} |-> 1]

\* One session of two turns and two branches, and one with its snapshots; two sessions with one
\* prompt in two repositories; a prompt that names its topic and one that is too short.
Plan(at1, at2, asks1, asks2, saved, most) ==
    [repo |-> [s \in {s1, s2} |-> IF s = s1 THEN at1 ELSE at2],
     asks |-> [s \in {s1, s2} |-> IF s = s1 THEN asks1 ELSE asks2],
     persist |-> saved, moves |-> most[1], faults |-> most[2], restarts |-> most[3]]
In(name) == {<<"repository", name>>}
MCPlans == {Plan(In("a"), {}, <<{1, 2, 3}, {3, 4, 5}>>, <<>>, FALSE, <<1, 0, 0>>),
            Plan(In("a"), {}, <<{1, 2, 3}>>, <<>>, TRUE, <<1, 1, 1>>),
            Plan(In("a"), In("b"), <<{1, 2, 3}>>, <<{1, 2, 3}>>, FALSE, <<0, 0, 0>>),
            Plan({}, {}, <<{1}, {}>>, <<>>, TRUE, <<1, 0, 1>>),
            Plan({}, {}, <<{1}, {1}>>, <<>>, FALSE, <<0, 0, 0>>)}

all == <<part, vars, learnVars, settingsVars, contextVars>>

Begin == /\ part \in {"link", "learning", "settings", "context"}
         /\ Init /\ LearnInit /\ SettingsInit /\ ContextInit
         /\ part # "settings" => file = [model |-> "qwen", dims |-> 1]
         /\ part # "context" => plan.asks[s1] = <<{1, 2, 3}>> /\ plan.persist
Step == \/ part = "link" /\ Next /\ UNCHANGED <<part, learnVars, settingsVars, contextVars>>
        \/ part = "learning" /\ LearnNext /\ UNCHANGED <<part, vars, settingsVars, contextVars>>
        \/ part = "settings" /\ SettingsNext /\ UNCHANGED <<part, vars, learnVars, contextVars>>
        \/ part = "context" /\ ContextNext /\ UNCHANGED <<part, vars, learnVars, settingsVars>>
\* A part that does not run stays in its initial state, where nothing fair is enabled.
Parts == Begin /\ [][Step]_all /\ Fairness /\ LearnFairness

\* SidecarLink, RelationshipLearning: after crashes the Sidecar is ready again and on the
\* branch of the adapter, and the work of every memory is settled.
RestartsConverge == BranchConverges /\ EveryWorkSettles
=============================================================================
