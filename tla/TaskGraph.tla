------------------------------- MODULE TaskGraph -------------------------------
(***************************************************************************)
(* The nodes of a namespace and their dependencies (task-graph.ts): several  *)
(* callers create nodes, move them, add dependencies and abort a branch, each *)
(* by reads of the store and writes that expect the revision that was read.     *)
(* A dependency is written first, and taken back when it closed a cycle.         *)
(* A node is created by one session, one operation at a time.                     *)
(***************************************************************************)
EXTENDS Naturals, FiniteSets

CONSTANTS Nodes, Callers,
          Present,      \* the nodes that are there at first, pending and without dependencies
          Branch,       \* the nodes of the branch that is aborted
          RequestLimit  \* bound

ASSUME GraphAssumption == Present \subseteq Nodes /\ Branch \subseteq Nodes

VARIABLES graph,    \* node -> its record
          doing,    \* caller -> what it does, with what it has read
          requests, \* calls that have begun
          overrun,  \* nodes written by another call before a dependency could be taken back
          dropped   \* nodes that an abortBranch which returned had listed

graphVars == <<graph, doing, requests, overrun, dropped>>

Transitions == [pending |-> {"running", "blocked", "aborted"},
                running |-> {"succeeded", "failed", "blocked", "aborted"},
                succeeded |-> {}, aborted |-> {},
                failed |-> {"pending", "running", "aborted"},
                blocked |-> {"pending", "running", "aborted"}]
NodeStates == DOMAIN Transitions
Live == {"pending", "running", "blocked"}

NoNode == [state |-> "none", deps |-> {}, revision |-> 0]
Resting == [do |-> "rest"]
Exists(n) == graph[n] # NoNode

NewNode(deps) == [state |-> "pending", deps |-> deps, revision |-> 1]
GraphInit == /\ graph = [n \in Nodes |-> IF n \in Present THEN NewNode({}) ELSE NoNode]
             /\ doing = [c \in Callers |-> Resting]
             /\ requests = 0 /\ overrun = {} /\ dropped = {}

Requests(c) == doing[c] = Resting /\ requests < RequestLimit /\ requests' = requests + 1
Does(c, next) == doing' = [doing EXCEPT ![c] = next]
PutNode(n, new) == graph' = [graph EXCEPT ![n] = [new EXCEPT !.revision = graph[n].revision + 1]]
\* Mutant: the revision is not compared.
OutdatedNever(n, read) == FALSE
Outdated(n, read) == graph[n].revision # read.revision
GraphKept == UNCHANGED <<graph, overrun, dropped>>

\* #assertAcyclic visits what a node depends on, what that depends on, and so on: the least
\* set of nodes that holds its dependencies and theirs.
Closed(S, deps) == \A m \in S : deps[m] \subseteq S
ReachIn(deps, n) == {m \in Nodes : \A S \in SUBSET Nodes : deps[n] \subseteq S /\ Closed(S, deps) => m \in S}
AcyclicIn(deps) == \A n \in Nodes : n \notin ReachIn(deps, n)
Deps == [n \in Nodes |-> graph[n].deps]
\* Mutant: only a node that depends on itself.
Unchecked == \A n \in Nodes : n \notin graph[n].deps
Acyclic == AcyclicIn(Deps)

\* create: its dependencies are there already, and are not looked at again.
Create(c) ==
    /\ Requests(c)
    /\ \E n \in Nodes, deps \in SUBSET {m \in Nodes : Exists(m)} :
          /\ ~Exists(n) /\ \A d \in Callers : doing[d].do = "create" => doing[d].node # n
          /\ Does(c, [do |-> "create", node |-> n, deps |-> deps])
    /\ GraphKept
\* A cycle that is found then is an error of the call only; the node stays.
PutNew(c) == /\ doing[c].do = "create" /\ Does(c, Resting)
             /\ PutNode(doing[c].node, NewNode(doing[c].deps))
             /\ UNCHANGED <<requests, overrun, dropped>>

\* transition: read, and read the dependencies of a node that is to run.
\* Mutant: it is enough that none has failed.
NoneFailed(read) == \A d \in read.deps : graph[d].state # "failed"
AllDone(read) == \A d \in read.deps : graph[d].state = "succeeded"
\* all and todo: what an abortBranch listed, and what is left of it.
Move(n, next, all, todo) == [do |-> "move", node |-> n, next |-> next, seen |-> graph[n], all |-> all, todo |-> todo]
Abort(all, todo) == [do |-> "abort", all |-> all, todo |-> todo]
Transition(c) == /\ Requests(c)
                 /\ \E n \in Nodes, next \in NodeStates :
                       Exists(n) /\ next \in Transitions[graph[n].state] /\ Does(c, Move(n, next, {}, {}))
                 /\ GraphKept
Ready(c) == /\ doing[c].do = "move" /\ doing[c].next = "running"
            /\ Does(c, IF AllDone(doing[c].seen) THEN [doing[c] EXCEPT !.do = "write"] ELSE Resting)
            /\ GraphKept /\ UNCHANGED requests
WriteMove(c) ==
    /\ doing[c].do = "write" \/ (doing[c].do = "move" /\ doing[c].next # "running")
    /\ IF Outdated(doing[c].node, doing[c].seen)
       THEN Does(c, Resting) /\ UNCHANGED graph
       ELSE /\ PutNode(doing[c].node, [doing[c].seen EXCEPT !.state = doing[c].next])
            /\ Does(c, IF doing[c].all = {} THEN Resting ELSE Abort(doing[c].all, doing[c].todo))
    /\ UNCHANGED <<requests, overrun, dropped>>

\* abortBranch: a list, and a transition of each node that was unfinished in it, which ends
\* the call when it is not legal any more.
AbortBranch(c) == /\ Requests(c)
                  /\ LET all == {n \in Branch : graph[n].state \in Live} IN Does(c, Abort(all, all))
                  /\ GraphKept
AbortNext(c) == /\ doing[c].do = "abort"
                /\ \E n \in doing[c].todo :
                      Does(c, IF "aborted" \in Transitions[graph[n].state]
                              THEN Move(n, "aborted", doing[c].all, doing[c].todo \ {n}) ELSE Resting)
                /\ GraphKept /\ UNCHANGED requests
AbortReturns(c) == /\ doing[c].do = "abort" /\ doing[c].todo = {}
                   /\ Does(c, Resting) /\ dropped' = dropped \cup doing[c].all
                   /\ UNCHANGED <<graph, requests, overrun>>

\* addDependency
AddDependency(c) == /\ Requests(c)
                    /\ \E n, d \in Nodes : /\ Exists(n) /\ Exists(d)
                                           /\ Does(c, [do |-> "add", node |-> n, dep |-> d, seen |-> graph[n]])
                    /\ GraphKept
WriteDependency(c) ==
    /\ doing[c].do = "add"
    /\ IF Outdated(doing[c].node, doing[c].seen)
       THEN Does(c, Resting) /\ UNCHANGED graph
       ELSE /\ PutNode(doing[c].node, [doing[c].seen EXCEPT !.deps = @ \cup {doing[c].dep}])
            /\ Does(c, [doing[c] EXCEPT !.do = "check"])
    /\ UNCHANGED <<requests, overrun, dropped>>
CheckDependency(c) == /\ doing[c].do = "check"
                      /\ Does(c, IF Acyclic THEN Resting ELSE [doing[c] EXCEPT !.do = "restore"])
                      /\ GraphKept /\ UNCHANGED requests
Restore(c) == /\ doing[c].do = "restore" /\ Does(c, Resting)
              /\ IF graph[doing[c].node].revision = doing[c].seen.revision + 1
                 THEN PutNode(doing[c].node, doing[c].seen) /\ UNCHANGED overrun
                 ELSE overrun' = overrun \cup {doing[c].node} /\ UNCHANGED graph
              /\ UNCHANGED <<requests, dropped>>

CallStep(c) == \/ PutNew(c) \/ Ready(c) \/ WriteMove(c) \/ AbortNext(c) \/ AbortReturns(c)
               \/ WriteDependency(c) \/ CheckDependency(c) \/ Restore(c)
GraphNext == \E c \in Callers : Create(c) \/ Transition(c) \/ AbortBranch(c) \/ AddDependency(c) \/ CallStep(c)
GraphSpec == GraphInit /\ [][GraphNext]_graphVars

-----------------------------------------------------------------------------
GraphTypeOK == \A n \in Nodes : /\ graph[n].state \in NodeStates \cup {"none"} /\ graph[n].deps \subseteq Nodes
                                /\ \A m \in graph[n].deps : Exists(m)

\* Whatever several callers do at once, the dependencies make no cycle once no call is in the
\* middle of adding one, unless its node was written again before it was taken back; and an
\* abortBranch that returned has aborted what it had listed.
GraphHolds ==
    /\ GraphTypeOK
    /\ (\A c \in Callers : doing[c].do \notin {"check", "restore"}) => AcyclicIn(Deps) \/ overrun # {}
    /\ \A n \in dropped : graph[n].state = "aborted"

\* A node moves as the table says and never leaves succeeded or aborted, and it starts only
\* when all it depends on has succeeded.
MovesAreLegal ==
    [][\A n \in Nodes : LET old == graph[n] new == graph'[n] IN
          /\ Exists(n) /\ new.state # old.state => new.state \in Transitions[old.state]
          /\ new.state = "running" /\ old.state # "running" =>
                \A d \in new.deps : graph[d].state = "succeeded"]_graphVars
=============================================================================
