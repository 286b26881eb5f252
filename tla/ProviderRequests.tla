--------------------------- MODULE ProviderRequests ---------------------------
(***************************************************************************)
(* Requests to the inference provider: the gate each one passes              *)
(* (ProviderRequestGate of siliconflow-provider/src/http.ts, with the           *)
(* AsyncSemaphore of core/src/scheduler.ts), the attempts of postJson, and the   *)
(* check of the response (provider.ts, wire.ts).  Time passes in ticks; what     *)
(* the gate remembers of the past is kept as ages.                          *)
(***************************************************************************)
EXTENDS Naturals, Sequences, FiniteSets, SequencesExt

CONSTANTS Requests,
          TokensOf,               \* request -> its estimated tokens
          Cancellable,            \* the requests that carry a signal
          Concurrent, PerSecond, PerMinute,   \* the rateLimits of the configuration
          Second, Minute,         \* the two windows, in ticks
          Threshold, OpenTicks,   \* circuitFailureThreshold, circuitOpenMs
          MaxAttempts,
          Inputs, Documents       \* how many an embedding, a rerank request has

\* estimateTokens is a number that is not negative; limits, attempts and windows are at least one.
ASSUME RequestsAssumption ==
    /\ TokensOf \in [Requests -> Nat]
    /\ {Concurrent, PerSecond, PerMinute, Second, Minute, Threshold, MaxAttempts, Inputs}
           \subseteq Nat \ {0}
    /\ {OpenTicks, Documents} \subseteq Nat /\ Second <= Minute

VARIABLES pc,        \* request -> where it is
          attempt,   \* request -> the attempt of postJson it is in
          signalled, \* the requests whose signal has fired
          admitted,  \* request -> ticks since it was let through: #requests and #tokens
          waiters,   \* the queue of the semaphore
          available, \* its permits
          throttled, \* #consecutiveThrottleFailures
          open       \* ticks until #openUntil

requestVars == <<pc, attempt, signalled, admitted, waiters, available, throttled, open>>

RequestInit ==
    /\ pc = [r \in Requests |-> "idle"] /\ attempt = [r \in Requests |-> 0]
    /\ signalled = {} /\ admitted = <<>>
    /\ waiters = <<>> /\ available = Concurrent
    /\ throttled = 0 /\ open = 0

-----------------------------------------------------------------------------
\* #waitForBudget.  An entry counts until it is a whole window old.  A caller that
\* finds no budget sleeps until the oldest entry is that old, and looks again.
Within(window) == {r \in DOMAIN admitted : admitted[r] < window}
\* The tokens of requests, one by one.
Tokens(rs) == UNION {{r} \X (1..TokensOf[r]) : r \in rs}
\* Mutant: tokens are forgotten with the requests of the last second.
UsedLately == Cardinality(Tokens(Within(Second)))
Used == Cardinality(Tokens(Within(Minute)))
HasBudget(r) == Cardinality(Within(Second)) < PerSecond /\ Used + TokensOf[r] <= PerMinute

\* run, up to its first await.
Call(r) == /\ pc[r] = "idle"
           /\ pc' = [pc EXCEPT ![r] = IF open > 0 THEN "over" ELSE "budget"]
           /\ UNCHANGED <<attempt, signalled, admitted, waiters, available, throttled, open>>

Admit(r) == /\ pc[r] = "budget" /\ r \notin signalled /\ HasBudget(r)
            /\ admitted' = [q \in DOMAIN admitted \cup {r} |-> IF q = r THEN 0 ELSE admitted[q]]
            /\ pc' = [pc EXCEPT ![r] = "admitted"]
            /\ UNCHANGED <<attempt, signalled, waiters, available, throttled, open>>

\* acquire: a permit at once, or a place in the queue.
Acquire(r) ==
    /\ pc[r] = "admitted"
    /\ IF r \in signalled
       THEN pc' = [pc EXCEPT ![r] = "over"] /\ UNCHANGED <<available, waiters, attempt>>
       ELSE IF available > 0
       THEN /\ pc' = [pc EXCEPT ![r] = "sent"] /\ attempt' = [attempt EXCEPT ![r] = 1]
            /\ available' = available - 1 /\ UNCHANGED waiters
       ELSE /\ pc' = [pc EXCEPT ![r] = "queued"] /\ waiters' = Append(waiters, r)
            /\ UNCHANGED <<available, attempt>>
    /\ UNCHANGED <<signalled, admitted, throttled, open>>

-----------------------------------------------------------------------------
\* release: the permit of a request that ends goes to the first waiter, if any.
Released(end) ==
    IF waiters = <<>>
    THEN /\ available' = available + 1 /\ pc' = end /\ UNCHANGED <<waiters, attempt>>
    ELSE /\ pc' = [end EXCEPT ![Head(waiters)] = "sent"]
         /\ attempt' = [attempt EXCEPT ![Head(waiters)] = 1]
         /\ waiters' = Tail(waiters) /\ UNCHANGED available

\* Mutant: a waiter is woken and the permit is given back as well.
ReleasedTwice(end) == /\ available' = available + 1
                      /\ IF waiters = <<>> THEN pc' = end /\ UNCHANGED <<waiters, attempt>>
                         ELSE /\ pc' = [end EXCEPT ![Head(waiters)] = "sent"]
                              /\ attempt' = [attempt EXCEPT ![Head(waiters)] = 1]
                              /\ waiters' = Tail(waiters)
\* Mutant: the permit is given back, the waiter is not woken.
ReleasedUnheard(end) == /\ available' = available + 1 /\ pc' = end
                        /\ UNCHANGED <<waiters, attempt>>
ReleasePermit(end) == Released(end)

\* The end of a request that held a permit, and what the gate makes of it.
Ends(r, how) ==
    /\ ReleasePermit([pc EXCEPT ![r] = "over"])
    /\ IF how = "throttled"
       THEN /\ throttled' = throttled + 1
            /\ open' = IF throttled + 1 >= Threshold THEN OpenTicks ELSE open
       ELSE /\ throttled' = IF how # "answered" \/ throttled = 0 THEN throttled ELSE throttled - 1
            /\ UNCHANGED open

-----------------------------------------------------------------------------
\* postJson.  What becomes of one attempt: a status or an error of the network that
\* is tried again (429, 5xx, a timeout, a reset connection), one that is not, a
\* status that says the request is wrong, a body that is not JSON.
Failures == {"busy", "unreachable", "denied", "garbled"}
Throttles == {"busy", "unreachable"}

Fails(r, failure) ==
    /\ pc[r] = "sent"
    /\ IF failure = "busy" /\ attempt[r] < MaxAttempts
       THEN IF r \in signalled THEN Ends(r, "cancelled")
            ELSE /\ pc' = [pc EXCEPT ![r] = "backoff"]
                 /\ UNCHANGED <<attempt, waiters, available, throttled, open>>
       ELSE Ends(r, IF failure \in Throttles THEN "throttled" ELSE "failed")
    /\ UNCHANGED <<signalled, admitted>>

\* The delay of a retry is over: Retry-After, or a random part of the backoff.
Again(r) == /\ pc[r] = "backoff"
            /\ pc' = [pc EXCEPT ![r] = "sent"]
            /\ attempt' = [attempt EXCEPT ![r] = @ + 1]
            /\ UNCHANGED <<signalled, admitted, waiters, available, throttled, open>>

\* The signal ends a wait at once; a request that is under way learns of it from fetch.
Abort(r) ==
    /\ r \in Cancellable \ signalled /\ pc[r] \in {"budget", "admitted", "queued", "sent", "backoff"}
    /\ signalled' = signalled \cup {r}
    /\ IF pc[r] = "backoff" THEN Ends(r, "cancelled")
       ELSE /\ pc' = IF pc[r] \in {"budget", "queued"} THEN [pc EXCEPT ![r] = "over"] ELSE pc
            /\ waiters' = IF pc[r] = "queued"
                          THEN RemoveAt(waiters, CHOOSE i \in DOMAIN waiters : waiters[i] = r)
                          ELSE waiters
            /\ UNCHANGED <<attempt, available, throttled, open>>
    /\ UNCHANGED admitted
Hears(r) == /\ pc[r] = "sent" /\ r \in signalled
            /\ Ends(r, "cancelled")
            /\ UNCHANGED <<signalled, admitted>>

-----------------------------------------------------------------------------
\* mapEmbeddingVectors: data is the sequence of indexes, in the order of the response.
\* One for each input, none twice; what is returned is the place of each input's vector.
Ordered(data) == /\ Len(data) = Inputs
                 /\ \A i \in DOMAIN data : data[i] < Inputs
                 /\ IsInjective(data)
\* Mutant: the vectors are taken in the order of the response.
AsReceived(data) == IF Ordered(data) THEN [i \in 1..Inputs |-> i] ELSE <<>>
Mapped(data) == IF Ordered(data)
                THEN [i \in 1..Inputs |-> CHOOSE at \in DOMAIN data : data[at] = i - 1]
                ELSE <<>>
\* mapRerankItems: any of the documents, none twice, in the order of the response.
Ranked(data) == IF (\A i \in DOMAIN data : data[i] < Documents) /\ IsInjective(data)
                THEN data ELSE <<>>

\* The indexes of a response: one too few or too many, out of range, in any order.
Data == UNION {[1..n -> 0..Inputs] : n \in (Inputs - 1)..(Inputs + 1)}

\* embed, rerank: the request ends well in the gate; the response is checked after it.
Answers(r) == pc[r] = "sent" /\ Ends(r, "answered") /\ UNCHANGED <<signalled, admitted>>

Tick == /\ DOMAIN admitted # {} \/ open > 0
        /\ admitted' = [r \in Within(Minute - 1) |-> admitted[r] + 1]
        /\ open' = IF open = 0 THEN 0 ELSE open - 1
        /\ UNCHANGED <<pc, attempt, signalled, waiters, available, throttled>>

RequestStep(r) == \/ Call(r) \/ Admit(r) \/ Acquire(r) \/ Again(r) \/ Abort(r) \/ Hears(r) \/ Answers(r)
                  \/ \E f \in Failures : Fails(r, f)
RequestNext == Tick \/ \E r \in Requests : RequestStep(r)

\* Time passes, and an attempt ends by its own timeout at the latest.
RequestFairness ==
    /\ WF_requestVars(Tick)
    /\ \A r \in Requests : /\ WF_requestVars(Admit(r)) /\ WF_requestVars(Acquire(r))
                          /\ WF_requestVars(Again(r))
                          /\ WF_requestVars(Fails(r, "busy") \/ Hears(r))
RequestSpec == RequestInit /\ [][RequestNext]_requestVars /\ RequestFairness

-----------------------------------------------------------------------------
Holders == {r \in Requests : pc[r] \in {"sent", "backoff"}}
\* Every variable holds a value of its type.
RequestTypeOK ==
    /\ attempt \in [Requests -> 0..MaxAttempts]
    /\ available \in 0..Concurrent /\ open \in 0..OpenTicks /\ throttled \in Nat
    /\ DOMAIN admitted \subseteq Requests
    /\ \A r \in DOMAIN admitted : admitted[r] \in 0..(Minute - 1)

\* Every permit is held or available, none is available while a request waits for
\* one, and exactly the waiting requests are in the queue.
PermitsAreKept == /\ Cardinality(Holders) + available = Concurrent
                  /\ waiters # <<>> => available = 0
                  /\ ToSet(waiters) = {r \in Requests : pc[r] = "queued"}

\* What was let through in any window is within the limits of the configuration.
BudgetHolds == /\ Cardinality(Within(Second)) <= PerSecond
               /\ Cardinality(Tokens(Within(Minute))) <= PerMinute

\* Whatever the order and the indexes of a response, the vector of an input is its own,
\* and every input has one; no document is ranked twice.
AnswersAreWhole ==
    \A data \in Data :
        /\ Mapped(data) # <<>> => \A i \in 1..Inputs : /\ Mapped(data)[i] \in DOMAIN data
                                                      /\ data[Mapped(data)[i]] = i - 1
        /\ IsInjective(Ranked(data)) /\ ToSet(Ranked(data)) \subseteq 0..(Documents - 1)
        /\ Range(data) = 0..(Inputs - 1) /\ Len(data) = Inputs => Mapped(data) # <<>>

\* ProviderRequests: no permit of the gate is lost or given twice, no window exceeds its
\* budget, and a response is taken whole or not at all.
RequestsHold == RequestTypeOK /\ PermitsAreKept /\ BudgetHolds /\ AnswersAreWhole

\* A request that is made ends, unless it asks for more tokens than a minute has.
EveryRequestEnds ==
    <>[](\A r \in Requests : TokensOf[r] <= PerMinute => pc[r] \in {"idle", "over"})

=============================================================================
