------------------------------- MODULE MCRuntime -------------------------------
(***************************************************************************)
(* What runs work in a Pi process, side by side: the background scheduler    *)
(* (BackgroundScheduler), the queue of relationship learning                  *)
(* (BackgroundQueue), the requests to the inference provider                  *)
(* (ProviderRequests), and the runtime that activates and disposes of          *)
(* providers (ProviderRuntime).  They share no variable: part, chosen at the   *)
(* start, says which of them runs.                                          *)
(***************************************************************************)
EXTENDS BackgroundScheduler, BackgroundQueue, ProviderRequests, ProviderRuntime

\* Two background calls that share a key, a third and larger one, and an
\* interactive call that carries a signal.
CONSTANTS b1, b2, b3, u1, k
MCIds == [c \in Calls |-> c]
MCKeys == [c \in Calls |-> IF c \in {b1, b2} THEN k ELSE NoKey]
MCPriorities == [c \in Calls |-> IF c = u1 THEN 80 ELSE IF c = b3 THEN 50 ELSE 30]
MCBytes == [c \in Calls |-> IF c = b3 THEN 3 ELSE 1]

\* Three fresh jobs and two normal ones, of which one of each shares a key.
CONSTANTS f1, f2, f3, n1, n2
MCCoalesce == [j \in Jobs |-> IF j \in {f3, n2} THEN k ELSE NoCoalesceKey]

\* Two small requests and a larger one that carries a signal.
CONSTANTS r1, r2, r3
MCTokens == [r \in Requests |-> IF r = r2 THEN 2 ELSE 1]

\* A host that declares a knowledge provider above that of the extension.
MCHost == <<[id |-> "host", kind |-> "knowledge", priority |-> 300, reads |-> {}, opens |-> FALSE]>>

VARIABLE part
all == <<part, vars, queueVars, requestVars, runtimeVars>>

Start == /\ part \in {"scheduler", "queue", "requests", "providers"}
         /\ Init /\ QueueInit /\ RequestInit /\ RuntimeInit
Run == \/ /\ part = "scheduler" /\ Next
          /\ UNCHANGED <<part, queueVars, requestVars, runtimeVars>>
       \/ /\ part = "queue" /\ QueueNext
          /\ UNCHANGED <<part, vars, requestVars, runtimeVars>>
       \/ /\ part = "requests" /\ RequestNext
          /\ UNCHANGED <<part, vars, queueVars, runtimeVars>>
       \/ /\ part = "providers" /\ RuntimeNext
          /\ UNCHANGED <<part, vars, queueVars, requestVars>>
\* A part that does not run stays in its initial state, where nothing fair is enabled.
Parts == Start /\ [][Run]_all /\ Fairness /\ QueueFairness /\ RequestFairness

\* BackgroundScheduler, BackgroundQueue, ProviderRequests: every accepted call settles,
\* every pending job leaves its queue, every request ends.
RuntimeSettles == /\ EveryAcceptedCallSettles /\ EveryPendingJobLeaves
                  /\ EveryRequestEnds
=============================================================================
