------------------------------- MODULE MCStorage -------------------------------
(***************************************************************************)
(* The store and what records a turn in it, side by side: the guard of its   *)
(* operations (StoreGuard), the revisioned records on top of it (StateStore), *)
(* the generations and migrations of the index (EmbeddingMigration), the task *)
(* graph (TaskGraph), and the capture of a turn (TurnCapture).  They share no *)
(* variable: part, chosen at the start, says which of them runs.              *)
(***************************************************************************)
EXTENDS StateStore, StoreGuard, EmbeddingMigration, TaskGraph

CONSTANTS c1, c2, c3, k1, i1
OwnerV == [c \in Clients |-> i1]
ExpectationsV == {Any, 0}

CONSTANTS s1, s2, d1, d2

\* Which of the components runs.
VARIABLE part

CONSTANTS o1, o2, o3, p1, p2
StoreOfV == [o \in Slots |-> IF o = o3 THEN s2 ELSE s1]
ProcessOfV == [s \in Stores |-> IF s = s1 THEN p1 ELSE p2]

\* One inline and one large result of verifications in the first of two turns.
CONSTANTS small, large
VARIABLES turn, agent, call, verdict, steered, pending, messages, spool, capture, failed, late
Capture == INSTANCE TurnCapture
    WITH MaxTurns <- 2, Calls <- {small, large}, TurnOf <- [c \in {small, large} |-> 1],
        Large <- {large}, Verifying <- {small, large}, BatchLimit <- 2, SteerLimit <- 1,
        FaultLimit <- 1, queue <- messages, cut <- failed

captureVars == <<turn, agent, call, verdict, steered, pending, messages, spool, capture, failed, late>>
all == <<part, vars, migrationVars, guardVars, graphVars, captureVars>>

LayersInit == /\ part \in {"state", "migration", "guard", "graph", "capture"}
              /\ Init /\ MigrationInit /\ GuardInit /\ GraphInit /\ Capture!Init
LayersNext ==
    \/ /\ part = "state" /\ Next
       /\ UNCHANGED <<part, migrationVars, guardVars, graphVars, captureVars>>
    \/ /\ part = "migration" /\ MigrationNext
       /\ UNCHANGED <<part, vars, guardVars, graphVars, captureVars>>
    \/ /\ part = "guard" /\ GuardNext
       /\ UNCHANGED <<part, vars, migrationVars, graphVars, captureVars>>
    \/ /\ part = "graph" /\ GraphNext
       /\ UNCHANGED <<part, vars, migrationVars, guardVars, captureVars>>
    \/ /\ part = "capture" /\ Capture!Next
       /\ UNCHANGED <<part, vars, migrationVars, guardVars, graphVars>>

\* A part that does not run stays in its initial state, where nothing fair is enabled.
Layers == LayersInit /\ [][LayersNext]_all /\ MigrationFairness /\ GuardFairness /\ Capture!Fairness

\* TurnCapture: the events, the outcome and the nodes of a turn tell what happened in it.
CaptureIsTrue == /\ Capture!TypeOK /\ Capture!OutcomeIsEarned /\ Capture!EventsAreOfTheirTurn
                 /\ Capture!NodesTell
\* EmbeddingMigration, StoreGuard and TurnCapture: every migration settles, every operation
\* of the store ends, whatever failed, crashed or lost its lease before it, and every turn is
\* handed over.
StorageSettles == /\ EveryMigrationSettles /\ EveryOperationEnds
                  /\ Capture!TurnsAreHandedOver
\* docs/architecture.md:68, 72-73: inline results are flushed in order, and steering aborts what
\* is unfinished.
GivenUpPathIsBehind == Capture!GivenUpPathIsBehind
=============================================================================
