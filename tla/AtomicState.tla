----------------------------- MODULE AtomicState -----------------------------
(***************************************************************************)
(* What the revisioned state promises its callers: one register per        *)
(* identifier.  A call takes effect at one instant between its invocation   *)
(* and its answer, or it fails and has no effect.                          *)
(*                                                                         *)
(* This is the abstract specification; StateStore.tla is the detailed one   *)
(* that is shown to implement it.                                          *)
(***************************************************************************)
EXTENDS Naturals

CONSTANTS Clients, \* callers of put and mutate
          Keys,    \* identifiers of records
          Ops,     \* calls: [kind, key, token, expected]
          Any      \* a put that expects no particular revision

VARIABLES reg,     \* identifier -> [val, rev]; revision 0 means no record
          call     \* caller -> what became of its last call

avars == <<reg, call>>

Unwritten == [val |-> {}, rev |-> 0]
NoCall == [status |-> "idle"]

AInit == /\ reg = [k \in Keys |-> Unwritten]
         /\ call = [c \in Clients |-> NoCall]

\* What a call makes of the record it finds: a reducer adds its token to it,
\* a put replaces it, and either way the revision goes up by one.
Applied(op, r) == [val |-> IF op.kind = "mutate" THEN r.val \cup {op.token} ELSE {op.token},
                   rev |-> r.rev + 1]

\* A put that names a revision finds that one.
Allowed(op, r) == op.kind = "put" => op.expected \in {Any, r.rev}

Invoke(c) ==
    /\ call[c].status # "pending"
    /\ \E op \in Ops : call' = [call EXCEPT ![c] = [status |-> "pending", op |-> op]]
    /\ UNCHANGED reg

Apply(c) ==
    /\ call[c].status = "pending"
    /\ Allowed(call[c].op, reg[call[c].op.key])
    /\ reg' = [reg EXCEPT ![call[c].op.key] = Applied(call[c].op, reg[call[c].op.key])]
    /\ call' = [call EXCEPT ![c] = [status |-> "ok", op |-> call[c].op]]

\* A put is refused for its revision; a mutation may give up.
Refuse(c) ==
    /\ call[c].status = "pending"
    /\ Allowed(call[c].op, reg[call[c].op.key]) => call[c].op.kind = "mutate"
    /\ call' = [call EXCEPT ![c] = [status |-> "failed", op |-> call[c].op]]
    /\ UNCHANGED reg

\* The process dies: the calls in flight have had no effect.
ACrash == /\ call' = [c \in Clients |-> NoCall]
          /\ UNCHANGED reg

ANext == (\E c \in Clients : Invoke(c) \/ Apply(c) \/ Refuse(c)) \/ ACrash

ASpec == AInit /\ [][ANext]_avars
=============================================================================
