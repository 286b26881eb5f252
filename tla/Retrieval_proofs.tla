-------------------------- MODULE Retrieval_proofs --------------------------
(***************************************************************************)
(* What the retrieval package promises, for every value of the constants:    *)
(* only proven policies serve, whichever write the process died before       *)
(* (AdaptivePolicy); a recall by id fails closed (RecallCoordinator); what    *)
(* a search puts into the context is trusted (RetrievalPipeline). At the end  *)
(* the procedures that are served (ExperienceLearning): each is counted,       *)
(* promoted and retired as its episodes have earned, for every number of jobs, *)
(* episodes and restarts and every minimum.                                    *)
(***************************************************************************)
EXTENDS AdaptivePolicy, RecallCoordinator, RetrievalPipeline, ExperienceLearning, SequenceTheorems,
        FiniteSetTheorems, TLAPS

-----------------------------------------------------------------------------
(* AdaptivePolicy                                                             *)

IsPolicy(p) == p = Policy(p.id, p.state, p.changes, p.based) /\ p.state \in States

\* The writes to come, and every policy that is held, stored or about to be stored.
Pending == UNION {todo[i] : i \in DOMAIN todo}
Records == {w \in Pending : w.kind = "record"}
Pointers == {w \in Pending : w.kind = "pointer"}
Policies == {recs[id] : id \in DOMAIN recs} \cup {w.value : w \in Records}
            \cup {active, fallback} \cup ({shadow, canary} \ {None})

\* A draft has the number it was made with; every other policy is known to be proven,
\* and so is every policy a pointer names.
IsDraft(p) == p.id[1] = "candidate"
Proven(id) == \A p \in Policies : p.id = id => p.changes \subseteq judged
Names(v) == {v.active, v.fallback}

PolicyInv ==
    /\ \A p \in Policies : IsPolicy(p)
    /\ \A p \in Policies : IF IsDraft(p) THEN p.id[2] \in 1 .. made ELSE p.changes \subseteq judged
    /\ \A p, q \in Policies : IsDraft(p) /\ p.id = q.id => p.changes = q.changes

ProvenInv ==
    /\ active.changes \subseteq judged /\ fallback.changes \subseteq judged
    /\ pointer # None => \A id \in Names(pointer) : Proven(id)
    /\ \A w \in Pointers : \A id \in Names(w.value) : Proven(id)
    /\ after = "judgeCanary" => canary # None /\ (ewma = "safe" => canary.changes \subseteq judged)

\* A record that a pointer names reaches the disk before the pointer does.
Stored(id, i) == \/ id \in DOMAIN recs
                 \/ \E k \in 1 .. i - 1 : \E w \in todo[k] : w.kind = "record" /\ w.value.id = id

IsControl(v) == v.ewma \in {"none", "safe", "unsafe"} /\ v.until \in 0 .. ClockLimit + 1
PlanIsSafe ==
    /\ todo \in Seq(SUBSET Pending)
    /\ \A w \in Pending : w.kind \in {"record", "pointer", "control"} /\ (w.kind = "control" => IsControl(w.value))
    /\ \A i \in DOMAIN todo : \A w \in todo[i] : w.kind = "pointer" => \A id \in Names(w.value) : Stored(id, i)

DiskInv ==
    /\ \A id \in DOMAIN recs : recs[id].id = id
    /\ pointer # None => Names(pointer) \subseteq DOMAIN recs
    /\ control # None => IsControl(control)
    /\ IsControl([ewma |-> ewma, until |-> until])
    /\ now \in 0 .. ClockLimit /\ made \in Nat
    /\ PlanIsSafe

PolicyIInv == PolicyInv /\ ProvenInv /\ DiskInv

-----------------------------------------------------------------------------
\* A policy in another state keeps its identity and its changes.
LEMMA InStateKeeps ==
    ASSUME NEW p, IsPolicy(p), NEW state \in States, NEW q, q = InState(p, state)
    PROVE  IsPolicy(q) /\ q.id = p.id /\ q.changes = p.changes /\ q.state = state
<1> DEFINE i == p.id
           c == p.changes
           b == p.based
           s == p.state
<1>1. p = [id |-> i, state |-> s, changes |-> c, based |-> b]  BY DEF IsPolicy, Policy
<1> HIDE DEF i, c, b, s
<1>2. q = [id |-> i, state |-> state, changes |-> c, based |-> b]  BY <1>1 DEF InState
<1> QED  BY <1>1, <1>2 DEF IsPolicy, Policy

LEMMA PolicyIs ==
    ASSUME NEW i, NEW s \in States, NEW c, NEW b, NEW q, q = Policy(i, s, c, b)
    PROVE  IsPolicy(q) /\ q.id = i /\ q.changes = c /\ q.state = s
  BY DEF IsPolicy, Policy

\* What a step may add to the policies: one that is known already, in another state;
\* one that is proven; or a draft with a new number.
Old(p) == \E q \in Policies : p.id = q.id /\ p.changes = q.changes
NewDraft(p) == IsDraft(p) /\ p.id[2] \in made + 1 .. made' /\ p.changes = active.changes \cup {p.id[2]}

LEMMA PoliciesCarried ==
    ASSUME PolicyInv, made \in Nat, made' \in Nat, made <= made', judged \subseteq judged',
           \A p \in Policies' : IsPolicy(p),
           \A p \in Policies' : Old(p) \/ (~IsDraft(p) /\ p.changes \subseteq judged') \/ NewDraft(p)
    PROVE  /\ PolicyInv'
           /\ \A p \in Policies : Proven(p.id) => Proven(p.id)'
           /\ \A p \in Policies' : p.changes \subseteq judged' => \A q \in Policies' : q.id = p.id => q.changes \subseteq judged'
<1>1. ASSUME NEW p \in Policies', Old(p)
      PROVE  IF IsDraft(p) THEN p.id[2] \in 1 .. made ELSE p.changes \subseteq judged
  BY <1>1 DEF Old, PolicyInv, IsDraft
<1>2. ASSUME NEW p \in Policies'
      PROVE  IF IsDraft(p) THEN p.id[2] \in 1 .. made' ELSE p.changes \subseteq judged'
  <2>1. CASE Old(p)  BY <1>1, <2>1
  <2>2. CASE NewDraft(p)  BY <2>2 DEF NewDraft
  <2> QED  BY <2>1, <2>2
<1>3. ASSUME NEW p \in Policies', NEW q \in Policies', IsDraft(p), p.id = q.id
      PROVE  p.changes = q.changes
  <2>1. IsDraft(q)  BY <1>3 DEF IsDraft
  <2>2. CASE Old(p) /\ Old(q)
    BY <1>3, <2>2 DEF Old, PolicyInv, IsDraft
  <2>3. CASE NewDraft(p) /\ NewDraft(q)  BY <1>3, <2>3 DEF NewDraft
  <2>4. CASE Old(p) /\ NewDraft(q)
    <3>1. p.id[2] \in 1 .. made /\ q.id[2] \in made + 1 .. made'  BY <1>1, <1>3, <2>4 DEF NewDraft
    <3> QED  BY <1>3, <3>1
  <2>5. CASE NewDraft(p) /\ Old(q)
    <3>1. q.id[2] \in 1 .. made /\ p.id[2] \in made + 1 .. made'  BY <1>1, <1>3, <2>1, <2>5 DEF NewDraft
    <3> QED  BY <1>3, <3>1
  <2> QED  BY <1>3, <2>1, <2>2, <2>3, <2>4, <2>5
<1>4. PolicyInv'  BY <1>2, <1>3 DEF PolicyInv
<1>5. ASSUME NEW p \in Policies, Proven(p.id), NEW q \in Policies', q.id = p.id
      PROVE  q.changes \subseteq judged'
  <2>1. CASE Old(q)  BY <1>5, <2>1 DEF Old, Proven
  <2>2. CASE NewDraft(q)
    <3>1. IsDraft(p) /\ p.id[2] \in 1 .. made  BY <1>5, <2>2 DEF NewDraft, IsDraft, PolicyInv
    <3> QED  BY <1>5, <2>2, <3>1 DEF NewDraft
  <2> QED  BY <1>5, <2>1, <2>2
<1>6. \A p \in Policies : Proven(p.id) => Proven(p.id)'  BY <1>5 DEF Proven
<1>7. ASSUME NEW p \in Policies', p.changes \subseteq judged', NEW q \in Policies', q.id = p.id
      PROVE  q.changes \subseteq judged'
  <2>1. CASE IsDraft(q)  BY <1>3, <1>7, <2>1
  <2>2. CASE ~IsDraft(q)  BY <1>2, <2>2
  <2> QED  BY <2>1, <2>2
<1> QED  BY <1>4, <1>6, <1>7

\* The writes of an activation, a rollback, a first start and a rebase.
LEMMA Switch ==
    ASSUME NEW a, NEW f, NEW e, NEW u, IsControl([ewma |-> e, until |-> u]),
           \/ todo' = <<{RecordWrite(f), RecordWrite(a)}, {PointerWrite(a, f)}, {ControlWrite(e, u)}>>
           \/ todo' = InTurn(<<RecordWrite(a), RecordWrite(f), PointerWrite(a, f), ControlWrite(e, u)>>)
    PROVE  /\ Records' = {RecordWrite(a), RecordWrite(f)} /\ Pointers' = {PointerWrite(a, f)}
           /\ PlanIsSafe'
<1>1. /\ RecordWrite(a).kind = "record" /\ RecordWrite(f).kind = "record"
      /\ PointerWrite(a, f).kind = "pointer" /\ ControlWrite(e, u).kind = "control"
      /\ RecordWrite(a).value = a /\ RecordWrite(f).value = f
      /\ Names(PointerWrite(a, f).value) = {a.id, f.id}
      /\ IsControl(ControlWrite(e, u).value)
  BY DEF RecordWrite, PointerWrite, ControlWrite, Names, IsControl
<1>2. CASE todo' = <<{RecordWrite(f), RecordWrite(a)}, {PointerWrite(a, f)}, {ControlWrite(e, u)}>>
  <2>1. /\ DOMAIN todo' = 1 .. 3 /\ todo'[1] = {RecordWrite(f), RecordWrite(a)}
        /\ todo'[2] = {PointerWrite(a, f)} /\ todo'[3] = {ControlWrite(e, u)}
    BY <1>2
  <2>2. Pending' = {RecordWrite(f), RecordWrite(a), PointerWrite(a, f), ControlWrite(e, u)}
    BY <2>1 DEF Pending
  <2>3. Records' = {RecordWrite(a), RecordWrite(f)} /\ Pointers' = {PointerWrite(a, f)}
    BY <1>1, <2>2 DEF Records, Pointers
  <2>4. Stored(a.id, 2)' /\ Stored(f.id, 2)'
    BY <1>1, <2>1 DEF Stored
  <2>5. ASSUME NEW i \in DOMAIN todo', NEW w \in todo'[i], w.kind = "pointer"
        PROVE  i = 2 /\ w = PointerWrite(a, f)
    BY <1>1, <2>1, <2>5
  <2>6. ASSUME NEW w \in Pending'
        PROVE  /\ w.kind \in {"record", "pointer", "control"}
               /\ w.kind = "control" => IsControl(w.value)
    BY <1>1, <2>2
  <2>7. todo' \in Seq(SUBSET Pending')  BY <1>2, <2>2 DEF InTurn
  <2> QED  BY <1>1, <2>3, <2>4, <2>5, <2>6, <2>7 DEF PlanIsSafe
<1>3. CASE todo' = InTurn(<<RecordWrite(a), RecordWrite(f), PointerWrite(a, f), ControlWrite(e, u)>>)
  <2>1. /\ DOMAIN todo' = 1 .. 4 /\ todo'[1] = {RecordWrite(a)} /\ todo'[2] = {RecordWrite(f)}
        /\ todo'[3] = {PointerWrite(a, f)} /\ todo'[4] = {ControlWrite(e, u)}
    BY <1>3 DEF InTurn
  <2>2. Pending' = {RecordWrite(f), RecordWrite(a), PointerWrite(a, f), ControlWrite(e, u)}
    BY <2>1 DEF Pending
  <2>3. Records' = {RecordWrite(a), RecordWrite(f)} /\ Pointers' = {PointerWrite(a, f)}
    BY <1>1, <2>2 DEF Records, Pointers
  <2>4. Stored(a.id, 3)' /\ Stored(f.id, 3)'
    BY <1>1, <2>1 DEF Stored
  <2>5. ASSUME NEW i \in DOMAIN todo', NEW w \in todo'[i], w.kind = "pointer"
        PROVE  i = 3 /\ w = PointerWrite(a, f)
    BY <1>1, <2>1, <2>5
  <2>6. ASSUME NEW w \in Pending'
        PROVE  /\ w.kind \in {"record", "pointer", "control"}
               /\ w.kind = "control" => IsControl(w.value)
    BY <1>1, <2>2
  <2>7. todo' \in Seq(SUBSET Pending')  BY <1>3, <2>2 DEF InTurn
  <2> QED  BY <1>1, <2>3, <2>4, <2>5, <2>6, <2>7 DEF PlanIsSafe
<1> QED  BY <1>2, <1>3

\* A step that writes nothing: what it must make sure of.
Fits(p) == /\ IsPolicy(p)
           /\ Old(p) \/ (~IsDraft(p) /\ p.changes \subseteq judged') \/ NewDraft(p)

LEMMA DiskKept ==
    ASSUME PolicyIInv, UNCHANGED disk, made' \in Nat, made <= made', judged \subseteq judged',
           \A w \in Records' : Fits(w.value), Fits(active'), Fits(fallback'),
           shadow' = None \/ Fits(shadow'), canary' = None \/ Fits(canary'),
           IsControl([ewma |-> ewma', until |-> until']), now' \in 0 .. ClockLimit,
           PlanIsSafe',
           active'.changes \subseteq judged', fallback'.changes \subseteq judged',
           \A w \in Pointers' : Names(w.value) = {active'.id, fallback'.id},
           after' = "judgeCanary" => canary' # None /\ (ewma' = "safe" => canary'.changes \subseteq judged')
    PROVE  PolicyIInv'
<1>1. made \in Nat /\ PolicyInv  BY DEF PolicyIInv, DiskInv
<1>2. UNCHANGED <<recs, pointer, control>>  BY DEF disk
<1>3. \A p \in Policies' : Fits(p)
  <2>1. ASSUME NEW id \in DOMAIN recs PROVE Fits(recs[id])
    <3>1. recs[id] \in Policies  BY DEF Policies
    <3> QED  BY <1>1, <3>1 DEF Fits, Old, PolicyInv
  <2> SUFFICES ASSUME NEW p \in Policies' PROVE Fits(p)
    OBVIOUS
  <2>2. \/ p \in {recs[id] : id \in DOMAIN recs} \/ p \in {w.value : w \in Records'}
        \/ p = active' \/ p = fallback' \/ (p = shadow' /\ p # None) \/ (p = canary' /\ p # None)
    BY <1>2 DEF Policies
  <2> QED  BY <2>1, <2>2
<1>4. /\ PolicyInv'
      /\ \A p \in Policies : Proven(p.id) => Proven(p.id)'
      /\ \A p \in Policies' : p.changes \subseteq judged' =>
            \A q \in Policies' : q.id = p.id => q.changes \subseteq judged'
  <2>1. /\ \A p \in Policies' : IsPolicy(p)
        /\ \A p \in Policies' : Old(p) \/ (~IsDraft(p) /\ p.changes \subseteq judged') \/ NewDraft(p)
    BY <1>3 DEF Fits
  <2> QED  BY <1>1, <2>1, PoliciesCarried
<1>5. pointer' # None => \A id \in Names(pointer)' : Proven(id)'
  <2> SUFFICES ASSUME pointer # None, NEW id \in Names(pointer) PROVE Proven(id)'
    BY <1>2 DEF Names
  <2>1. id \in DOMAIN recs /\ recs[id].id = id /\ Proven(id)  BY DEF PolicyIInv, DiskInv, ProvenInv
  <2>2. recs[id] \in Policies  BY <2>1 DEF Policies
  <2>3. Proven(recs[id].id)'  BY <1>2, <1>4, <2>1, <2>2
  <2> QED  BY <1>2, <2>1, <2>3
<1>6. \A w \in Pointers' : \A id \in Names(w.value) : Proven(id)'
  <2>1. active' \in Policies' /\ fallback' \in Policies'  BY DEF Policies
  <2>2. Proven(active.id)' /\ Proven(fallback.id)'  BY <1>4, <2>1 DEF Proven
  <2> SUFFICES ASSUME NEW w \in Pointers', NEW id \in Names(w.value) PROVE Proven(id)'
    OBVIOUS
  <2>3. id = active'.id \/ id = fallback'.id  OBVIOUS
  <2> QED  BY <2>2, <2>3 DEF Proven
<1>7. ProvenInv'  BY <1>5, <1>6 DEF ProvenInv
<1>8. DiskInv'  BY <1>2 DEF PolicyIInv, DiskInv, Names
<1> QED  BY <1>4, <1>7, <1>8 DEF PolicyIInv

\* One write reaches the disk.
LEMMA PersistStep == ASSUME PolicyIInv, Persist PROVE PolicyIInv'
<1> DEFINE h == Head(todo)
           t == Tail(todo)
           n == Len(todo)
<1>i. PolicyInv /\ ProvenInv /\ DiskInv  BY DEF PolicyIInv
<1>1. PICK w \in h :
         /\ recs' = IF w.kind = "record"
                    THEN [id \in DOMAIN recs \cup {w.value.id} |->
                             IF id = w.value.id THEN w.value ELSE recs[id]]
                    ELSE recs
         /\ pointer' = IF w.kind = "pointer" THEN w.value ELSE pointer
         /\ control' = IF w.kind = "control" THEN w.value ELSE control
         /\ todo' = IF h = {w} THEN t ELSE <<h \ {w}>> \o t
  BY DEF Persist
<1>2. UNCHANGED <<fields, after, now, made, judged>> /\ todo # <<>>  BY DEF Persist
<1>3. /\ n \in Nat \ {0} /\ DOMAIN todo = 1 .. n /\ h = todo[1]
      /\ t \in Seq(SUBSET Pending) /\ Len(t) = n - 1
      /\ \A i \in 1 .. n - 1 : t[i] = todo[i + 1]
  BY <1>2, <1>i DEF DiskInv, PlanIsSafe
<1>4. w \in Pending /\ h \subseteq Pending  BY <1>1, <1>3 DEF Pending
<1> HIDE DEF h, t, n
<1>5. /\ DOMAIN recs \subseteq DOMAIN recs'
      /\ w.kind = "record" => w.value.id \in DOMAIN recs'
      /\ \A id \in DOMAIN recs' : recs'[id] \in Policies /\ recs'[id].id = id
  <2>1. \A id \in DOMAIN recs : recs[id] \in Policies /\ recs[id].id = id
    BY <1>i DEF Policies, DiskInv
  <2>2. w.kind = "record" => w.value \in Policies  BY <1>4 DEF Policies, Records
  <2>3. CASE w.kind = "record"
    <3>1. DOMAIN recs' = DOMAIN recs \cup {w.value.id}  BY <1>1, <2>3
    <3>2. \A id \in DOMAIN recs' : recs'[id] = IF id = w.value.id THEN w.value ELSE recs[id]
      BY <1>1, <2>3
    <3> QED  BY <2>1, <2>2, <2>3, <3>1, <3>2
  <2>4. CASE w.kind # "record"  BY <1>1, <2>1, <2>4
  <2> QED  BY <2>3, <2>4
<1>6. /\ todo' \in Seq(SUBSET Pending')
      /\ Pending' \subseteq Pending
      /\ \A i \in DOMAIN todo' : \A v \in todo'[i] :
            v.kind = "pointer" => \A id \in Names(v.value) : Stored(id, i)'
  <2>1. CASE h = {w}
    <3>1. todo' = t /\ DOMAIN todo' = 1 .. n - 1 /\ \A i \in 1 .. n - 1 : todo'[i] = todo[i + 1]
      BY <1>1, <1>3, <2>1
    <3>2. Pending' \subseteq Pending  BY <1>3, <3>1 DEF Pending
    <3>3. todo' \in Seq(SUBSET Pending')
      <4>1. \A i \in 1 .. n - 1 : t[i] \in SUBSET Pending'  BY <3>1 DEF Pending
      <4> QED  BY <1>3, <3>1, <4>1
    <3>4. ASSUME NEW i \in DOMAIN todo', NEW v \in todo'[i], v.kind = "pointer",
                 NEW id \in Names(v.value)
          PROVE  Stored(id, i)'
      <4>1. i + 1 \in DOMAIN todo /\ v \in todo[i + 1]  BY <1>3, <3>1, <3>4
      <4>2. Stored(id, i + 1)  BY <1>i, <3>4, <4>1 DEF DiskInv, PlanIsSafe
      <4>3. CASE id \in DOMAIN recs  BY <1>5, <4>3 DEF Stored
      <4>4. CASE \E k \in 1 .. (i + 1) - 1 : \E u \in todo[k] : u.kind = "record" /\ u.value.id = id
        <5>1. PICK k \in 1 .. (i + 1) - 1 : \E u \in todo[k] : u.kind = "record" /\ u.value.id = id
          BY <4>4
        <5>2. CASE k = 1
          <6>1. w.kind = "record" /\ w.value.id = id  BY <1>3, <2>1, <5>1, <5>2
          <6> QED  BY <1>5, <6>1 DEF Stored
        <5>3. CASE k # 1
          <6>1. k - 1 \in 1 .. i - 1 /\ todo'[k - 1] = todo[k]  BY <1>3, <3>1, <3>4, <5>1, <5>3
          <6> QED  BY <5>1, <6>1 DEF Stored
        <5> QED  BY <5>2, <5>3
      <4> QED  BY <4>2, <4>3, <4>4 DEF Stored
    <3> QED  BY <3>2, <3>3, <3>4
  <2>2. CASE h # {w}
    <3> DEFINE g == h \ {w}
    <3>1. todo' = <<g>> \o t  BY <1>1, <2>2
    <3>2. /\ DOMAIN todo' = 1 .. n /\ todo'[1] = g
          /\ \A i \in 2 .. n : todo'[i] = todo[i]
      <4>1. g \in SUBSET Pending  BY <1>4
      <4> HIDE DEF g
      <4>2. <<g>> \in Seq(SUBSET Pending) /\ Len(<<g>>) = 1 /\ <<g>>[1] = g  BY <4>1
      <4>3. todo' \in Seq(SUBSET Pending) /\ Len(todo') = n  BY <1>3, <3>1, <4>2
      <4>4. todo'[1] = g  BY <1>3, <3>1, <4>2
      <4>5. \A i \in 2 .. n : todo'[i] = t[i - 1]  BY <1>3, <3>1, <4>2
      <4>6. \A i \in 2 .. n : i - 1 \in 1 .. n - 1 /\ (i - 1) + 1 = i  BY <1>3
      <4> QED  BY <1>3, <4>3, <4>4, <4>5, <4>6
    <3>3. \A i \in 1 .. n : todo'[i] \subseteq todo[i]
      <4>1. \A i \in 1 .. n : i = 1 \/ i \in 2 .. n  BY <1>3
      <4> QED  BY <1>3, <3>2, <4>1
    <3>4. Pending' \subseteq Pending  BY <1>3, <3>2, <3>3 DEF Pending
    <3>5. todo' \in Seq(SUBSET Pending')
      <4>1. \A i \in 1 .. n : todo'[i] \in SUBSET Pending'  BY <3>2 DEF Pending
      <4>2. todo' \in Seq(SUBSET Pending)
        <5>1. g \in SUBSET Pending  BY <1>4
        <5> HIDE DEF g
        <5>2. <<g>> \in Seq(SUBSET Pending)  BY <5>1
        <5> QED  BY <1>3, <3>1, <5>2
      <4>3. Len(todo') = n  BY <1>3, <3>2, <4>2
      <4> QED  BY <1>3, <4>1, <4>2, <4>3
    <3>6. ASSUME NEW i \in DOMAIN todo', NEW v \in todo'[i], v.kind = "pointer",
                 NEW id \in Names(v.value)
          PROVE  Stored(id, i)'
      <4>1. i \in 1 .. n /\ v \in todo[i]  BY <3>2, <3>3, <3>6
      <4>2. Stored(id, i)  BY <1>3, <1>i, <3>6, <4>1 DEF DiskInv, PlanIsSafe
      <4>3. CASE id \in DOMAIN recs  BY <1>5, <4>3 DEF Stored
      <4>4. CASE \E k \in 1 .. i - 1 : \E u \in todo[k] : u.kind = "record" /\ u.value.id = id
        <5>0. PICK k \in 1 .. i - 1 : \E u \in todo[k] : u.kind = "record" /\ u.value.id = id
          BY <4>4
        <5>1. PICK u \in todo[k] : u.kind = "record" /\ u.value.id = id
          BY <5>0
        <5>2. CASE u = w  BY <1>5, <5>1, <5>2 DEF Stored
        <5>3. CASE u # w
          <6>1. u \in todo'[k]
            <7>1. CASE k = 1  BY <1>3, <3>2, <5>1, <5>3, <7>1
            <7>2. CASE k # 1
              <8>1. k \in 2 .. n  BY <1>3, <4>1, <5>1, <7>2
              <8> QED  BY <3>2, <5>1, <8>1
            <7> QED  BY <7>1, <7>2
          <6> QED  BY <5>1, <6>1 DEF Stored
        <5> QED  BY <5>2, <5>3
      <4> QED  BY <4>2, <4>3, <4>4 DEF Stored
    <3> QED  BY <3>4, <3>5, <3>6
  <2> QED  BY <2>1, <2>2
<1>7. Policies' \subseteq Policies
  <2>1. Records' \subseteq Records  BY <1>6 DEF Records
  <2> QED  BY <1>2, <1>5, <2>1 DEF Policies, fields
<1>8. PolicyInv'  BY <1>2, <1>7, <1>i DEF PolicyInv
<1>9. \A id : Proven(id) => Proven(id)'  BY <1>2, <1>7 DEF Proven
<1>10. w.kind = "pointer" => /\ \A id \in Names(w.value) : Proven(id)
                            /\ Names(w.value) \subseteq DOMAIN recs
  <2> SUFFICES ASSUME w.kind = "pointer", NEW id \in Names(w.value)
               PROVE  Proven(id) /\ id \in DOMAIN recs
    OBVIOUS
  <2>1. w \in Pointers  BY <1>4 DEF Pointers
  <2>2. Stored(id, 1)  BY <1>1, <1>3, <1>i DEF DiskInv, PlanIsSafe
  <2> QED  BY <1>i, <2>1, <2>2 DEF ProvenInv, Stored
<1>11. ProvenInv'
  <2>1. Pointers' \subseteq Pointers  BY <1>6 DEF Pointers
  <2>2. \A v \in Pointers' : \A id \in Names(v.value) : Proven(id)'
    BY <1>9, <1>i, <2>1 DEF ProvenInv
  <2>3. pointer' # None => \A id \in Names(pointer') : Proven(id)'
    BY <1>1, <1>9, <1>10, <1>i DEF ProvenInv
  <2> QED  BY <1>2, <1>i, <2>2, <2>3 DEF ProvenInv, fields
<1>12. DiskInv'
  <2>1. pointer' # None => Names(pointer') \subseteq DOMAIN recs'
    BY <1>1, <1>5, <1>10, <1>i DEF DiskInv
  <2>2. control' # None => IsControl(control')
    BY <1>1, <1>4, <1>i DEF DiskInv, PlanIsSafe
  <2>3. PlanIsSafe'  BY <1>6, <1>i DEF DiskInv, PlanIsSafe
  <2> QED  BY <1>2, <1>5, <1>i, <2>1, <2>2, <2>3 DEF DiskInv, fields
<1> QED  BY <1>8, <1>11, <1>12 DEF PolicyIInv

-----------------------------------------------------------------------------
LEMMA NoWrites == ASSUME todo' = <<>> PROVE Records' = {} /\ Pointers' = {} /\ PlanIsSafe'
<1>1. todo' \in Seq(SUBSET Pending') /\ DOMAIN todo' = {}  OBVIOUS
<1>2. Pending' = {}  BY <1>1 DEF Pending
<1> QED  BY <1>1, <1>2 DEF Records, Pointers, PlanIsSafe

\* A step that leaves all but the clock alone.
LEMMA Unmoved ==
    ASSUME PolicyIInv, UNCHANGED <<disk, fields, todo, after, made, judged>>, now' \in 0 .. ClockLimit
    PROVE  PolicyIInv'
<1>1. UNCHANGED <<recs, pointer, control, active, fallback, shadow, canary, ewma, until>>
  BY DEF disk, fields
<1>2. Pending' = Pending  BY DEF Pending
<1>3. Records' = Records /\ Pointers' = Pointers  BY <1>2 DEF Records, Pointers
<1>4. Policies' = Policies  BY <1>1, <1>3 DEF Policies
<1>5. PolicyInv'  BY <1>4 DEF PolicyIInv, PolicyInv
<1>6. ProvenInv'  BY <1>1, <1>3, <1>4 DEF PolicyIInv, ProvenInv, Proven, Names
<1>7. \A id, i : Stored(id, i)' <=> Stored(id, i)  BY <1>1 DEF Stored
<1>8. PlanIsSafe'  BY <1>2, <1>7 DEF PolicyIInv, DiskInv, PlanIsSafe
<1>9. DiskInv'  BY <1>1, <1>8 DEF PolicyIInv, DiskInv
<1> QED  BY <1>5, <1>6, <1>9 DEF PolicyIInv

LEMMA NextStep == ASSUME PolicyIInv, [PolicyNext]_policyVars PROVE PolicyIInv'
<1> USE PolicyAssumption
<1>i. PolicyInv /\ ProvenInv /\ DiskInv  BY DEF PolicyIInv
<1>n. made \in Nat /\ now \in 0 .. ClockLimit  BY <1>i DEF DiskInv
<1>p. /\ active \in Policies /\ fallback \in Policies
      /\ shadow # None => shadow \in Policies
      /\ canary # None => canary \in Policies
  BY DEF Policies
<1>f. \A p \in Policies : IsPolicy(p) /\ Fits(p)  BY <1>i DEF Fits, Old, PolicyInv
<1>g. ASSUME NEW p \in Policies, NEW state \in States, NEW q, q = InState(p, state)
      PROVE  Fits(q) /\ q.id = p.id /\ q.changes = p.changes
  <2>1. IsPolicy(p)  BY <1>f
  <2>2. IsPolicy(q) /\ q.id = p.id /\ q.changes = p.changes  BY <1>g, <2>1, InStateKeeps
  <2> QED  BY <2>2 DEF Fits, Old
<1>s. /\ active.changes \subseteq judged /\ fallback.changes \subseteq judged
      /\ IsControl([ewma |-> ewma, until |-> until])
      /\ ewma \in {"none", "safe", "unsafe"} /\ until \in 0 .. ClockLimit + 1
  BY <1>i DEF ProvenInv, DiskInv, IsControl
<1>1. CASE Persist  BY <1>1, PersistStep
<1>2. CASE ServiceDies
  <2>1. UNCHANGED <<disk, fields, after, now, made, judged>> /\ todo' = <<>>
    BY <1>2 DEF ServiceDies
  <2>2. UNCHANGED <<active, fallback, shadow, canary, ewma, until>>  BY <2>1 DEF fields
  <2>3. Records' = {} /\ Pointers' = {} /\ PlanIsSafe'  BY <2>1, NoWrites
  <2>4. after' = "judgeCanary" => canary' # None /\ (ewma' = "safe" => canary'.changes \subseteq judged')
    BY <1>i, <2>1, <2>2 DEF ProvenInv
  <2>5. /\ Fits(active') /\ Fits(fallback')
        /\ (shadow' = None \/ Fits(shadow')) /\ (canary' = None \/ Fits(canary'))
    BY <1>f, <1>p, <2>2
  <2>6. active'.changes \subseteq judged' /\ fallback'.changes \subseteq judged'  BY <1>s, <2>1, <2>2
  <2>7. IsControl([ewma |-> ewma', until |-> until']) /\ now' \in 0 .. ClockLimit  BY <1>n, <1>s, <2>1, <2>2
  <2>8. made' \in Nat /\ made <= made' /\ judged \subseteq judged'  BY <1>n, <2>1
  <2> QED  BY <2>1, <2>3, <2>4, <2>5, <2>6, <2>7, <2>8, DiskKept
<1>3. CASE Tick
  <2>1. UNCHANGED <<disk, fields, todo, after, made, judged>> /\ now' \in 0 .. ClockLimit
    BY <1>3, <1>n DEF Tick
  <2> QED  BY <1>i, <2>1, Unmoved
<1>4. CASE UNCHANGED policyVars
  BY <1>4, <1>i, <1>n, Unmoved DEF policyVars
<1>5. CASE ObserveCanary
  <2>1. /\ UNCHANGED <<disk, active, fallback, shadow, canary, until, made, now>>
        /\ ewma' \in {"none", "safe", "unsafe"} /\ judged \subseteq judged'
        /\ todo' = InTurn(<<ControlWrite(ewma', until)>>)
        /\ after' = IF canary # None THEN "judgeCanary" ELSE "judgeActive"
        /\ canary # None /\ ewma' = "safe" => canary.changes \subseteq judged'
    BY <1>5, <1>s DEF ObserveCanary, Frame, Blend
  <2>2. IsControl([ewma |-> ewma', until |-> until'])  BY <1>s, <2>1 DEF IsControl
  <2>3. DOMAIN todo' = {1} /\ todo'[1] = {ControlWrite(ewma', until)}  BY <2>1 DEF InTurn
  <2>4. /\ ControlWrite(ewma', until).kind = "control"
        /\ IsControl(ControlWrite(ewma', until).value)
    BY <1>s, <2>1 DEF ControlWrite, IsControl
  <2>5. Records' = {} /\ todo' \in Seq(SUBSET Pending')
    BY <2>1, <2>3, <2>4 DEF Records, Pending, InTurn
  <2>6. \A i \in DOMAIN todo' : \A w \in todo'[i] :
            w.kind \in {"record", "control"} /\ (w.kind = "control" => IsControl(w.value))
    BY <2>3, <2>4
  <2>7. after' = "judgeCanary" => canary' # None /\ (ewma' = "safe" => canary'.changes \subseteq judged')
    BY <2>1
  <2>8. active'.changes \subseteq judged' /\ fallback'.changes \subseteq judged'  BY <1>s, <2>1
  <2>9. /\ Fits(active') /\ Fits(fallback')
        /\ (shadow' = None \/ Fits(shadow')) /\ (canary' = None \/ Fits(canary'))
    BY <1>f, <1>p, <2>1
  <2>10. made' \in Nat /\ made <= made' /\ now' \in 0 .. ClockLimit  BY <1>n, <2>1
  <2>11. PlanIsSafe' /\ Pointers' = {}  BY <2>5, <2>6 DEF PlanIsSafe, Pending, Pointers
  <2> QED  BY <2>1, <2>2, <2>5, <2>7, <2>8, <2>9, <2>10, <2>11, DiskKept
<1>6. CASE DegradeCanary
  <2> DEFINE q == InState(canary, "degraded")
  <2>1. /\ UNCHANGED <<disk, active, fallback, shadow, ewma, made, judged, now>>
        /\ canary' = None /\ until' = now + 1 /\ after' = "idle" /\ after = "judgeCanary"
        /\ todo' = InTurn(<<RecordWrite(q), ControlWrite(ewma, until')>>)
    BY <1>6 DEF DegradeCanary, Frame, Turn
  <2>2. canary \in Policies  BY <1>i, <1>p, <2>1 DEF ProvenInv
  <2>3. Fits(q)  BY <1>g, <2>2 DEF States
  <2> HIDE DEF q
  <2>4. until' \in 0 .. ClockLimit + 1  BY <1>n, <2>1
  <2>5. IsControl([ewma |-> ewma', until |-> until'])  BY <1>s, <2>1, <2>4 DEF IsControl
  <2>6. DOMAIN todo' = 1 .. 2 /\ todo'[1] = {RecordWrite(q)} /\ todo'[2] = {ControlWrite(ewma, until')}
    BY <2>1 DEF InTurn
  <2>7. /\ ControlWrite(ewma, until').kind = "control" /\ IsControl(ControlWrite(ewma, until').value)
        /\ RecordWrite(q).kind = "record" /\ RecordWrite(q).value = q
    BY <1>s, <2>4 DEF ControlWrite, RecordWrite, IsControl
  <2>8. Pending' = {RecordWrite(q), ControlWrite(ewma, until')}  BY <2>6 DEF Pending
  <2>9. Records' = {RecordWrite(q)} /\ Pointers' = {}  BY <2>7, <2>8 DEF Records, Pointers
  <2>10. todo' \in Seq(SUBSET Pending')  BY <2>1, <2>8 DEF InTurn
  <2>11. PlanIsSafe'  BY <2>6, <2>7, <2>8, <2>10 DEF PlanIsSafe
  <2>12. /\ Fits(active') /\ Fits(fallback')
         /\ (shadow' = None \/ Fits(shadow')) /\ (canary' = None \/ Fits(canary'))
         /\ \A w \in Records' : Fits(w.value)
    BY <1>f, <1>p, <2>1, <2>3, <2>7, <2>9
  <2>13. made' \in Nat /\ made <= made' /\ now' \in 0 .. ClockLimit  BY <1>n, <2>1
  <2>14. active'.changes \subseteq judged' /\ fallback'.changes \subseteq judged'  BY <1>s, <2>1
  <2> QED  BY <2>1, <2>5, <2>9, <2>10, <2>11, <2>12, <2>13, <2>14, DiskKept
<1>7. CASE Activate
  <2> DEFINE a == InState(canary, "active")
             f == InState(active, "fallback")
  <2>1. /\ UNCHANGED <<disk, shadow, until, made, judged, now>>
        /\ canary' = None /\ ewma' = "none" /\ after' = "idle"
        /\ after = "judgeCanary" /\ ewma = "safe"
        /\ active' = a /\ fallback' = f
        /\ todo' = <<{RecordWrite(fallback'), RecordWrite(active')}, {PointerWrite(active', fallback')},
                     {ControlWrite("none", until)}>>
    BY <1>7 DEF Activate, Frame, Turn, Safe
  <2>2. canary \in Policies /\ canary.changes \subseteq judged  BY <1>i, <1>p, <2>1 DEF ProvenInv
  <2>3. Fits(a) /\ a.changes = canary.changes  BY <1>g, <2>2 DEF States
  <2>4. Fits(f) /\ f.changes = active.changes  BY <1>g, <1>p DEF States
  <2> HIDE DEF a, f
  <2>5. IsControl([ewma |-> "none", until |-> until])  BY <1>s DEF IsControl
  <2>6. /\ Records' = {RecordWrite(a), RecordWrite(f)} /\ Pointers' = {PointerWrite(a, f)}
        /\ PlanIsSafe'
    BY <2>1, <2>5, Switch
  <2>7. RecordWrite(a).value = a /\ RecordWrite(f).value = f /\ Names(PointerWrite(a, f).value) = {a.id, f.id}
    BY DEF RecordWrite, PointerWrite, Names
  <2>8. /\ Fits(active') /\ Fits(fallback')
        /\ (shadow' = None \/ Fits(shadow')) /\ (canary' = None \/ Fits(canary'))
        /\ \A w \in Records' : Fits(w.value)
    BY <1>f, <1>p, <2>1, <2>3, <2>4, <2>6, <2>7
  <2>9. made' \in Nat /\ made <= made' /\ now' \in 0 .. ClockLimit
        /\ IsControl([ewma |-> ewma', until |-> until'])
    BY <1>n, <2>1, <2>5
  <2>10. active'.changes \subseteq judged' /\ fallback'.changes \subseteq judged'
    BY <1>s, <2>1, <2>2, <2>3, <2>4
  <2>11. \A w \in Pointers' : Names(w.value) = {active'.id, fallback'.id}  BY <2>1, <2>6, <2>7
  <2>12. UNCHANGED disk /\ judged \subseteq judged' /\ after' # "judgeCanary"  BY <2>1
  <2> QED  BY <2>6, <2>8, <2>9, <2>10, <2>11, <2>12, DiskKept
<1>8. CASE TooFewSamples
  <2>1. UNCHANGED <<disk, active, fallback, shadow, canary, ewma, until, todo, made, judged, now>> /\ after' = "idle" /\ todo = <<>>
    BY <1>8 DEF TooFewSamples, Frame, Turn, fields
  <2>2. Records' = {} /\ Pointers' = {} /\ PlanIsSafe'  BY <2>1, NoWrites
  <2>3. /\ Fits(active') /\ Fits(fallback')
        /\ (shadow' = None \/ Fits(shadow')) /\ (canary' = None \/ Fits(canary'))
    BY <1>f, <1>p, <2>1
  <2>4. active'.changes \subseteq judged' /\ fallback'.changes \subseteq judged'  BY <1>s, <2>1
  <2>5. IsControl([ewma |-> ewma', until |-> until']) /\ now' \in 0 .. ClockLimit  BY <1>n, <1>s, <2>1
  <2>6. made' \in Nat /\ made <= made' /\ judged \subseteq judged'  BY <1>n, <2>1
  <2> QED  BY <2>1, <2>2, <2>3, <2>4, <2>5, <2>6, DiskKept
<1>9. CASE Rollback
  <2> DEFINE a == InState(fallback, "active")
             f == InState(active, "degraded")
  <2>1. /\ UNCHANGED <<disk, shadow, ewma, made, judged, now>>
        /\ canary' = None /\ until' = now + 1 /\ after' = "idle"
        /\ active' = a /\ fallback' = f
        /\ todo' = <<{RecordWrite(fallback'), RecordWrite(active')}, {PointerWrite(active', fallback')},
                     {ControlWrite(ewma, until')}>>
    BY <1>9 DEF Rollback, Frame, Turn
  <2>2. until' \in 0 .. ClockLimit + 1  BY <1>n, <2>1
  <2>3. Fits(a) /\ a.changes = fallback.changes  BY <1>g, <1>p DEF States
  <2>4. Fits(f) /\ f.changes = active.changes  BY <1>g, <1>p DEF States
  <2> HIDE DEF a, f
  <2>5. IsControl([ewma |-> ewma, until |-> until'])  BY <1>s, <2>2 DEF IsControl
  <2>6. /\ Records' = {RecordWrite(a), RecordWrite(f)} /\ Pointers' = {PointerWrite(a, f)}
        /\ PlanIsSafe'
    BY <2>1, <2>5, Switch
  <2>7. RecordWrite(a).value = a /\ RecordWrite(f).value = f /\ Names(PointerWrite(a, f).value) = {a.id, f.id}
    BY DEF RecordWrite, PointerWrite, Names
  <2>8. /\ Fits(active') /\ Fits(fallback')
        /\ (shadow' = None \/ Fits(shadow')) /\ (canary' = None \/ Fits(canary'))
        /\ \A w \in Records' : Fits(w.value)
    BY <1>f, <1>p, <2>1, <2>3, <2>4, <2>6, <2>7
  <2>9. made' \in Nat /\ made <= made' /\ now' \in 0 .. ClockLimit
        /\ IsControl([ewma |-> ewma', until |-> until'])
    BY <1>n, <2>1, <2>5
  <2>10. active'.changes \subseteq judged' /\ fallback'.changes \subseteq judged'
    BY <1>s, <2>1, <2>3, <2>4
  <2>11. \A w \in Pointers' : Names(w.value) = {active'.id, fallback'.id}  BY <2>1, <2>6, <2>7
  <2>12. UNCHANGED disk /\ judged \subseteq judged' /\ after' # "judgeCanary"  BY <2>1
  <2> QED  BY <2>6, <2>8, <2>9, <2>10, <2>11, <2>12, DiskKept
<1>10. CASE Optimize
  <2>1. /\ UNCHANGED <<disk, active, fallback, canary, ewma, until, judged, now>>
        /\ after' = "idle" /\ todo = <<>>
    BY <1>10 DEF Optimize, Frame, Turn
  <2>2. /\ Fits(active') /\ Fits(fallback') /\ (canary' = None \/ Fits(canary'))
    BY <1>f, <1>p, <2>1
  <2>3. /\ active'.changes \subseteq judged' /\ fallback'.changes \subseteq judged'
        /\ IsControl([ewma |-> ewma', until |-> until']) /\ now' \in 0 .. ClockLimit
        /\ judged \subseteq judged'
    BY <1>n, <1>s, <2>1
  <2>4. CASE UNCHANGED <<shadow, todo, made>>
    <3>1. Records' = {} /\ Pointers' = {} /\ PlanIsSafe'  BY <2>1, <2>4, NoWrites
    <3>2. (shadow' = None \/ Fits(shadow')) /\ made' \in Nat /\ made <= made'
      BY <1>f, <1>n, <1>p, <2>4
    <3> QED  BY <2>1, <2>2, <2>3, <3>1, <3>2, DiskKept
  <2>5. CASE /\ made' = made + 2
             /\ \E best \in {made + 1, made + 2} \cup {None} :
                  LET retired == {RecordWrite(InState(Draft(n), "retired")) : n \in {made + 1, made + 2} \ {best}} IN
                  /\ shadow' = IF best = None THEN None ELSE InState(Draft(best), "shadow")
                  /\ todo' = <<{RecordWrite(Draft(n)) : n \in {made + 1, made + 2}}, retired>>
                             \o (IF best = None THEN <<>> ELSE <<{RecordWrite(shadow')}>>)
    <3> DEFINE drafts == {made + 1, made + 2}
    <3>1. made' \in Nat /\ made <= made' /\ \A n \in drafts : n \in made + 1 .. made'
      BY <1>n, <2>5
    <3>2. ASSUME NEW n \in drafts, NEW st \in States
          PROVE  Fits(Draft(n)) /\ Fits(InState(Draft(n), st))
      <4>1. /\ IsPolicy(Draft(n)) /\ Draft(n).id = <<"candidate", n>>
            /\ Draft(n).changes = active.changes \cup {n}
        BY PolicyIs DEF Draft, States
      <4>2. /\ IsPolicy(InState(Draft(n), st)) /\ InState(Draft(n), st).id = <<"candidate", n>>
            /\ InState(Draft(n), st).changes = active.changes \cup {n}
        BY <4>1, InStateKeeps
      <4>3. <<"candidate", n>>[1] = "candidate" /\ <<"candidate", n>>[2] = n  OBVIOUS
      <4>4. n \in made + 1 .. made'  BY <3>1
      <4> HIDE DEF drafts
      <4>5. NewDraft(Draft(n))  BY <4>1, <4>3, <4>4 DEF NewDraft, IsDraft
      <4>6. NewDraft(InState(Draft(n), st))  BY <4>2, <4>3, <4>4 DEF NewDraft, IsDraft
      <4> QED  BY <4>1, <4>2, <4>5, <4>6 DEF Fits
    <3>3. PICK best \in drafts \cup {None} :
             /\ shadow' = IF best = None THEN None ELSE InState(Draft(best), "shadow")
             /\ todo' = <<{RecordWrite(Draft(n)) : n \in drafts},
                         {RecordWrite(InState(Draft(n), "retired")) : n \in drafts \ {best}}>>
                        \o (IF best = None THEN <<>> ELSE <<{RecordWrite(shadow')}>>)
      BY <2>5
    <3> HIDE DEF drafts
    <3>4. shadow' = None \/ Fits(shadow')  BY <3>2, <3>3 DEF States
    <3> DEFINE D == {RecordWrite(Draft(n)) : n \in drafts}
               R == {RecordWrite(InState(Draft(n), "retired")) : n \in drafts \ {best}}
               V == {RecordWrite(shadow')}
    <3>5. \A w \in D \cup R : w.kind = "record" /\ Fits(w.value)
      <4>1. \A v : RecordWrite(v).kind = "record" /\ RecordWrite(v).value = v  BY DEF RecordWrite
      <4>2. \A n \in drafts : Fits(Draft(n)) /\ Fits(InState(Draft(n), "retired"))  BY <3>2 DEF States
      <4> QED  BY <4>1, <4>2
    <3>6. best # None => \A w \in V : w.kind = "record" /\ Fits(w.value)
      <4>1. RecordWrite(shadow').kind = "record" /\ RecordWrite(shadow').value = shadow'  BY DEF RecordWrite
      <4>2. best # None => Fits(shadow')  BY <3>2, <3>3 DEF States
      <4> QED  BY <4>1, <4>2
    <3>7. todo' = <<D, R>> \o (IF best = None THEN <<>> ELSE <<V>>)  BY <3>3
    <3> HIDE DEF D, R, V
    <3>8. \/ best = None /\ todo' = <<D, R>>
          \/ best # None /\ todo' = <<D, R, V>>
      <4>1. <<D, R>> \in Seq({D, R, V})  OBVIOUS
      <4>2. <<D, R>> \o <<>> = <<D, R>>  BY <4>1, ConcatEmptySeq
      <4>3. <<D, R>> \o <<V>> = Append(<<D, R>>, V)  BY <4>1, AppendIsConcat
      <4>4. Append(<<D, R>>, V) = <<D, R, V>>
        <5> DEFINE x == Append(<<D, R>>, V)
                   y == <<D, R, V>>
        <5>1. x \in Seq({D, R, V}) /\ Len(x) = 3 /\ x[1] = D /\ x[2] = R /\ x[3] = V
          BY <4>1, AppendProperties
        <5>2. y \in Seq({D, R, V}) /\ Len(y) = 3 /\ y[1] = D /\ y[2] = R /\ y[3] = V  OBVIOUS
        <5> HIDE DEF x, y
        <5>3. \A i \in 1 .. 3 : x[i] = y[i]
          <6>1. \A i \in 1 .. 3 : i = 1 \/ i = 2 \/ i = 3  OBVIOUS
          <6> QED  BY <5>1, <5>2, <6>1
        <5>4. x = y  BY <5>1, <5>2, <5>3, SeqEqual
        <5> QED  BY <5>4 DEF x, y
      <4> QED  BY <3>7, <4>2, <4>3, <4>4
    <3>9. \A i \in DOMAIN todo' : \A w \in todo'[i] : w.kind = "record" /\ Fits(w.value)
      BY <3>5, <3>6, <3>8
    <3>10. todo' \in Seq(SUBSET Pending')
      <4>1. CASE todo' = <<D, R>>
        <5>1. DOMAIN todo' = 1 .. 2 /\ todo'[1] = D /\ todo'[2] = R  BY <4>1
        <5>2. D \in SUBSET Pending' /\ R \in SUBSET Pending'  BY <5>1 DEF Pending
        <5> QED  BY <4>1, <5>2
      <4>2. CASE todo' = <<D, R, V>>
        <5>1. DOMAIN todo' = 1 .. 3 /\ todo'[1] = D /\ todo'[2] = R /\ todo'[3] = V  BY <4>2
        <5>2. D \in SUBSET Pending' /\ R \in SUBSET Pending' /\ V \in SUBSET Pending'  BY <5>1 DEF Pending
        <5> QED  BY <4>2, <5>2
      <4> QED  BY <3>8, <4>1, <4>2
    <3>11. PlanIsSafe' /\ Pointers' = {} /\ \A w \in Records' : Fits(w.value)
      <4>1. \A w \in Pending' : w.kind = "record" /\ Fits(w.value)  BY <3>9 DEF Pending
      <4> QED  BY <3>9, <3>10, <4>1 DEF PlanIsSafe, Pointers, Records
    <3>12. UNCHANGED disk /\ after' # "judgeCanary"  BY <2>1
    <3> QED  BY <2>2, <2>3, <3>1, <3>4, <3>11, <3>12, DiskKept
  <2> QED  BY <1>10, <2>4, <2>5 DEF Optimize
<1>11. CASE Promote
  <2> DEFINE q == InState(shadow, "canary")
  <2>1. /\ UNCHANGED <<disk, active, fallback, until, after, made, judged, now>>
        /\ shadow # None /\ shadow' = None /\ canary' = q /\ ewma' = "none" /\ after = "idle"
        /\ todo' = InTurn(<<RecordWrite(canary'), ControlWrite("none", until)>>)
    BY <1>11 DEF Promote, Frame, Turn
  <2>2. Fits(q)  BY <1>g, <1>p, <2>1 DEF States
  <2> HIDE DEF q
  <2>3. IsControl([ewma |-> ewma', until |-> until'])  BY <1>s, <2>1 DEF IsControl
  <2>4. DOMAIN todo' = 1 .. 2 /\ todo'[1] = {RecordWrite(q)} /\ todo'[2] = {ControlWrite("none", until)}
    BY <2>1 DEF InTurn
  <2>5. /\ ControlWrite("none", until).kind = "control" /\ IsControl(ControlWrite("none", until).value)
        /\ RecordWrite(q).kind = "record" /\ RecordWrite(q).value = q
    BY <1>s DEF ControlWrite, RecordWrite, IsControl
  <2>6. Pending' = {RecordWrite(q), ControlWrite("none", until)}  BY <2>4 DEF Pending
  <2>7. Records' = {RecordWrite(q)} /\ Pointers' = {}  BY <2>5, <2>6 DEF Records, Pointers
  <2>8. todo' \in Seq(SUBSET Pending')  BY <2>1, <2>6 DEF InTurn
  <2>9. PlanIsSafe'  BY <2>4, <2>5, <2>6, <2>8 DEF PlanIsSafe
  <2>10. /\ Fits(active') /\ Fits(fallback')
         /\ (shadow' = None \/ Fits(shadow')) /\ (canary' = None \/ Fits(canary'))
         /\ \A w \in Records' : Fits(w.value)
    BY <1>f, <1>p, <2>1, <2>2, <2>5, <2>7
  <2>11. made' \in Nat /\ made <= made' /\ now' \in 0 .. ClockLimit  BY <1>n, <2>1
  <2>12. active'.changes \subseteq judged' /\ fallback'.changes \subseteq judged'  BY <1>s, <2>1
  <2> QED  BY <2>1, <2>3, <2>7, <2>9, <2>10, <2>11, <2>12, DiskKept
<1>12. CASE Initialize
  <2>1. /\ UNCHANGED <<disk, now, made, judged>> /\ after' = "idle"
        /\ made' \in Nat /\ made <= made' /\ now' \in 0 .. ClockLimit
    BY <1>12, <1>n DEF Initialize
  <2>2. ASSUME Fits(active'), Fits(fallback'),
               active'.changes \subseteq judged, fallback'.changes \subseteq judged,
               shadow' = None, canary' = None, ewma' = "none", until' = 0,
               todo' = InTurn(<<RecordWrite(active'), RecordWrite(fallback'), PointerWrite(active', fallback'),
                                ControlWrite("none", 0)>>)
        PROVE  PolicyIInv'
    <3>1. IsControl([ewma |-> "none", until |-> 0])  BY DEF IsControl
    <3>2. /\ Records' = {RecordWrite(active'), RecordWrite(fallback')} /\ PlanIsSafe'
          /\ Pointers' = {PointerWrite(active', fallback')}
      BY <2>2, <3>1, Switch
    <3>3. /\ RecordWrite(active').value = active' /\ RecordWrite(fallback').value = fallback'
          /\ Names(PointerWrite(active', fallback').value) = {active'.id, fallback'.id}
      BY DEF RecordWrite, PointerWrite, Names
    <3>4. \A w \in Records' : Fits(w.value)  BY <2>2, <3>2, <3>3
    <3>5. \A w \in Pointers' : Names(w.value) = {active'.id, fallback'.id}  BY <3>2, <3>3
    <3> QED  BY <2>1, <2>2, <3>1, <3>2, <3>4, <3>5, DiskKept
  <2>3. CASE FirstStart
    <3>1. /\ active' = Policy(<<"default">>, "active", {}, config')
          /\ fallback' = Policy(<<"fallback">>, "fallback", {}, config')
      BY <2>3 DEF FirstStart, Default, FirstFallback
    <3>2. /\ IsPolicy(active') /\ active'.id = <<"default">> /\ active'.changes = {}
          /\ IsPolicy(fallback') /\ fallback'.id = <<"fallback">> /\ fallback'.changes = {}
      BY <3>1, PolicyIs DEF States
    <3>3. <<"default">>[1] # "candidate" /\ <<"fallback">>[1] # "candidate"  OBVIOUS
    <3>4. Fits(active') /\ Fits(fallback')  BY <3>2, <3>3 DEF Fits, IsDraft
    <3> QED  BY <2>2, <2>3, <3>2, <3>4 DEF FirstStart
  <2>4. CASE Load
    <3>1. pointer # None /\ active' = recs[pointer.active] /\ fallback' = recs[pointer.fallback]
      BY <2>4 DEF Load, Named
    <3>2. /\ pointer.active \in DOMAIN recs /\ pointer.fallback \in DOMAIN recs
          /\ Proven(pointer.active) /\ Proven(pointer.fallback)
          /\ active'.id = pointer.active /\ fallback'.id = pointer.fallback
      BY <1>i, <3>1 DEF DiskInv, ProvenInv, Names
    <3>3. active' \in Policies /\ fallback' \in Policies  BY <3>1, <3>2 DEF Policies
    <3>4. /\ Fits(active') /\ Fits(fallback')
          /\ active'.changes \subseteq judged' /\ fallback'.changes \subseteq judged'
      BY <1>f, <2>1, <3>2, <3>3 DEF Proven
    <3>5. \A st : Listed(st) \subseteq Policies  BY DEF Listed, Policies
    <3>6. (shadow' = None \/ Fits(shadow')) /\ (canary' = None \/ Fits(canary'))
      BY <1>f, <2>4, <3>5 DEF Load
    <3>7. IsControl([ewma |-> ewma', until |-> until'])  BY <1>i, <2>4 DEF Load, DiskInv, IsControl
    <3>8. Records' = {} /\ Pointers' = {} /\ PlanIsSafe'  BY <2>4, NoWrites DEF Load
    <3> QED  BY <2>1, <3>4, <3>6, <3>7, <3>8, DiskKept
  <2>5. CASE Rebase
    <3>1. PICK kept \in SUBSET Named(pointer.active).changes :
             active' = Policy(<<"rebase", pointer.active, config'>>, "active", kept, config')
      BY <2>5 DEF Rebase
    <3>2. fallback' = Policy(<<"fallback", config'>>, "fallback", active'.changes, config') /\ pointer # None
      BY <2>5 DEF Rebase
    <3>3. pointer.active \in DOMAIN recs /\ Proven(pointer.active) /\ recs[pointer.active].id = pointer.active
      BY <1>i, <3>2 DEF DiskInv, ProvenInv, Names
    <3>4. kept \subseteq judged
      <4>1. recs[pointer.active] \in Policies  BY <3>3 DEF Policies
      <4> QED  BY <3>1, <3>3, <4>1 DEF Proven, Named
    <3>5. /\ IsPolicy(active') /\ active'.id = <<"rebase", pointer.active, config'>> /\ active'.changes = kept
          /\ IsPolicy(fallback') /\ fallback'.id = <<"fallback", config'>> /\ fallback'.changes = active'.changes
      BY <3>1, <3>2, PolicyIs DEF States
    <3>6. <<"rebase", pointer.active, config'>>[1] # "candidate" /\ <<"fallback", config'>>[1] # "candidate"
      OBVIOUS
    <3>7. Fits(active') /\ Fits(fallback')  BY <2>1, <3>4, <3>5, <3>6 DEF Fits, IsDraft
    <3> QED  BY <2>2, <2>5, <3>4, <3>5, <3>7 DEF Rebase
  <2> QED  BY <1>12, <2>3, <2>4, <2>5 DEF Initialize
<1> QED
  BY <1>1, <1>2, <1>3, <1>4, <1>5, <1>6, <1>7, <1>8, <1>9, <1>10, <1>11, <1>12 DEF PolicyNext

-----------------------------------------------------------------------------
LEMMA Starts == PolicyInit => PolicyIInv
<1> SUFFICES ASSUME PolicyInit PROVE PolicyIInv
  OBVIOUS
<1> USE PolicyAssumption
<1>1. /\ active = Policy(<<"default">>, "active", {}, config)
      /\ fallback = Policy(<<"fallback">>, "fallback", {}, config)
      /\ shadow = None /\ canary = None /\ ewma = "none" /\ until = 0
      /\ DOMAIN recs = {} /\ pointer = None /\ control = None
      /\ todo = <<>> /\ after = "idle" /\ now = 0 /\ made = 0
  BY DEF PolicyInit, Default, FirstFallback
<1>2. /\ IsPolicy(active) /\ active.id = <<"default">> /\ active.changes = {}
      /\ IsPolicy(fallback) /\ fallback.id = <<"fallback">> /\ fallback.changes = {}
  <2>1. {"active", "fallback"} \subseteq States  BY DEF States
  <2>2. IsPolicy(active) /\ active.id = <<"default">> /\ active.changes = {}
    BY <1>1, <2>1, PolicyIs
  <2>3. IsPolicy(fallback) /\ fallback.id = <<"fallback">> /\ fallback.changes = {}
    BY <1>1, <2>1, PolicyIs
  <2> QED  BY <2>2, <2>3
<1>3. todo \in Seq(SUBSET Pending) /\ DOMAIN todo = {}  BY <1>1
<1>4. Pending = {}  BY <1>3 DEF Pending
<1>5. Policies = {active, fallback}  BY <1>1, <1>4 DEF Policies, Records
<1>6. ~IsDraft(active) /\ ~IsDraft(fallback)
  <2>1. <<"default">>[1] # "candidate" /\ <<"fallback">>[1] # "candidate"  OBVIOUS
  <2> QED  BY <1>2, <2>1 DEF IsDraft
<1>7. PolicyInv  BY <1>2, <1>5, <1>6 DEF PolicyInv
<1>8. ProvenInv  BY <1>1, <1>2, <1>4 DEF ProvenInv, Pointers
<1>9. PlanIsSafe  BY <1>3, <1>4 DEF PlanIsSafe
<1>10. DiskInv  BY <1>1, <1>9 DEF DiskInv, IsControl
<1> QED  BY <1>7, <1>8, <1>10 DEF PolicyIInv

LEMMA InvariantSuffices == PolicyIInv => OnlyProvenServes
<1> SUFFICES ASSUME PolicyIInv PROVE OnlyProvenServes
  OBVIOUS
<1>1. PolicyInv /\ ProvenInv /\ DiskInv  BY DEF PolicyIInv
<1>2. \A id \in DOMAIN recs : recs[id] \in Policies /\ recs[id].id = id  BY <1>1 DEF Policies, DiskInv
<1>3. \A p \in Policies : p.state \in States  BY <1>1 DEF PolicyInv, IsPolicy
<1>4. \A p \in {active, fallback, shadow, canary} : p = None \/ p \in Policies  BY DEF Policies
<1>5. PolicyTypeOK  BY <1>1, <1>2, <1>3, <1>4 DEF PolicyTypeOK, DiskInv, IsControl, Names
<1>6. pointer # None => /\ Named(pointer.active).changes \subseteq judged
                       /\ Named(pointer.fallback).changes \subseteq judged
  BY <1>1, <1>2 DEF ProvenInv, DiskInv, Proven, Names, Named
<1>7. ServedAreJudged  BY <1>1, <1>6 DEF ServedAreJudged, ProvenInv
<1> QED  BY <1>5, <1>7 DEF OnlyProvenServes

\* Whichever write the process died before, and however often it started with
\* another configuration: the policy that serves, the one a start would load and the
\* one a rollback would restore hold no learned change that was not found safe as a
\* canary (policy.ts: activate, rollback, initialize).
THEOREM OnlyProvenEverServes == PolicySpec => []OnlyProvenServes
<1>1. PolicyInit => PolicyIInv  BY Starts
<1>2. PolicyIInv /\ [PolicyNext]_policyVars => PolicyIInv'  BY NextStep
<1>3. PolicyIInv => OnlyProvenServes  BY InvariantSuffices
<1> QED  BY <1>1, <1>2, <1>3, PTL DEF PolicySpec

-----------------------------------------------------------------------------
(* RetrievalPipeline                                                          *)

SearchKinds == {"knowledge", "view", "memory"}

\* No knowledge this search found contradicts m, but such as is gone from the store.
Undisputed(m) == Contradicting(m) = {} \/ \E k \in Contradicting(m) : Gone(k)

\* What the stages that are behind have seen to.
ListInv ==
    /\ stage = "plan" => hits = {}
    /\ outcome # "returned" => context = {}
    /\ stage \in {"gate", "rerank", "assemble"} =>
           \A m \in KindIn(hits, "memory") : m.current => Undisputed(m)
    /\ stage \in {"rerank", "assemble"} => \A h \in hits : Allowed(h)

SearchIInv == RetrievalIsSound /\ ListInv

\* An empty context costs nothing.
LEMMA NothingCosts == InBudget({})
<1>1. {{h} \X (1..h.cost) : h \in {}} = {}  OBVIOUS
<1>2. UNION {{h} \X (1..h.cost) : h \in {}} = {}  BY <1>1
<1>3. Cost({}) = 0  BY <1>2, FS_EmptySet DEF Cost
<1>4. KindIn({}, "knowledge") = {} /\ {} \ KindIn({}, "knowledge") = {}  BY DEF KindIn
<1> QED  BY <1>3, <1>4, RetrievalAssumption DEF InBudget

\* As long as nothing is returned, nothing in the context can be wrong.
LEMMA EmptyContextIsTrusted == context = {} => ContextIsTrusted
<1>1. KindIn({}, "memory") = {}  BY DEF KindIn
<1> QED  BY <1>1, NothingCosts DEF ContextIsTrusted

\* The fused list is finite; of its memories those that are current are not disputed,
\* for a memory that is marked is no longer current, and one that is not is either
\* undisputed or contradicted by something that is gone.
LEMMA FusedList ==
    ASSUME SearchTypeOK, NEW bad \in SUBSET Disputed,
           \A m \in Disputed : m \notin bad => \E k \in Contradicting(m) : Gone(k)
    PROVE  /\ IsFiniteSet(Fused(bad))
           /\ \A m \in KindIn(Fused(bad), "memory") : m.current => Undisputed(m)
<1> DEFINE Marked == {Conflicted(m) : m \in bad}
           mark == [m \in bad |-> Conflicted(m)]
<1>1. \A k \in SearchKinds : found[k] \subseteq KindIn(Corpus, k)  BY DEF SearchTypeOK, SearchKinds
<1>2. \A k \in SearchKinds : found[k] \subseteq Corpus /\ IsFiniteSet(found[k])
  BY <1>1, RetrievalAssumption, FS_Subset DEF KindIn
<1>3. bad \subseteq found["memory"] /\ IsFiniteSet(bad)  BY <1>2, FS_Subset DEF Disputed, SearchKinds
<1>4. IsFiniteSet(Marked)
  <2>1. mark \in Surjection(bad, Marked)  BY DEF Surjection
  <2> QED  BY <2>1, <1>3, FS_Surjection
<1>5. IsFiniteSet(found["memory"] \ bad)  BY <1>2, FS_Subset DEF SearchKinds
<1>6. Fused(bad) = ((found["knowledge"] \cup found["view"]) \cup (found["memory"] \ bad)) \cup Marked
  BY DEF Fused
<1>7. IsFiniteSet(found["knowledge"] \cup found["view"])  BY <1>2, FS_Union DEF SearchKinds
<1>8. IsFiniteSet((found["knowledge"] \cup found["view"]) \cup (found["memory"] \ bad))
  BY <1>7, <1>5, FS_Union
<1>9. IsFiniteSet(Fused(bad))  BY <1>8, <1>4, <1>6, FS_Union
<1>10. ASSUME NEW m \in KindIn(Fused(bad), "memory"), m.current  PROVE Undisputed(m)
  <2>1. m \in Fused(bad) /\ m.kind = "memory"  BY DEF KindIn
  <2>2. \A h \in Marked : h.current = FALSE
    <3> SUFFICES ASSUME NEW b \in bad PROVE Conflicted(b).current = FALSE  OBVIOUS
    <3>1. "current" \in DOMAIN b  BY <1>2, <1>3, RetrievalAssumption DEF SearchKinds
    <3> QED  BY <3>1 DEF Conflicted
  <2>3. m \notin Marked  BY <2>2, <1>10
  <2>4. m \notin found["knowledge"] /\ m \notin found["view"]  BY <1>1, <2>1 DEF KindIn, SearchKinds
  <2>5. m \in found["memory"] \ bad  BY <2>1, <2>3, <2>4, <1>6
  <2>6. CASE m \in Disputed  BY <2>5, <2>6 DEF Undisputed
  <2>7. CASE m \notin Disputed  BY <2>5, <2>7 DEF Undisputed, Disputed
  <2> QED  BY <2>6, <2>7
<1> QED  BY <1>9, <1>10

\* Of a list that is not empty, some of the best are not nothing.
LEMMA BestOfSome ==
    ASSUME NEW s, IsFiniteSet(s), s # {}, NEW n \in Nat \ {0}, NEW b \in Best(s, n)
    PROVE  b # {} /\ b \subseteq s
<1>1. Cardinality(s) \in Nat /\ Cardinality(s) # 0  BY FS_EmptySet, FS_CardinalityType
<1>2. b \subseteq s /\ Cardinality(b) # 0  BY <1>1 DEF Best
<1> QED  BY <1>2, FS_EmptySet

\* From the gated list to the context.
LEMMA ContextOfList ==
    ASSUME SearchIInv, stage = "assemble",
           NEW unique \in Deduped(hits), NEW kept \in AfterCutoff(unique),
           NEW diverse \in Best(kept, TopK), NEW chosen \in Selected(diverse)
    PROVE  /\ chosen \subseteq hits /\ InBudget(chosen)
           /\ \A g, h \in chosen : g.content = h.content => g = h
           /\ \A h \in chosen : Allowed(h)
           /\ (\E h \in hits : TextHit(h)) => chosen # {} \/ \E h \in hits : ~InBudget({h})
<1>1. unique \subseteq hits /\ kept \subseteq unique  BY DEF Deduped, AfterCutoff
<1>2. diverse \subseteq kept /\ chosen \subseteq diverse /\ InBudget(chosen)  BY DEF Best, Selected
<1>3. \A g, h \in unique : g.content = h.content => g = h  BY DEF Deduped
<1>4. ASSUME NEW h \in hits, TextHit(h), chosen = {}  PROVE \E g \in hits : ~InBudget({g})
  <2>1. h.content \in {g.content : g \in unique}  BY DEF Deduped
  <2>2. PICK g \in unique : g.content = h.content  BY <2>1
  <2>3. g.fts  BY <2>2, <1>1, <1>4 DEF TextHit
  <2>4. kept # {}  BY <2>3 DEF AfterCutoff
  <2>5. IsFiniteSet(kept)  BY <1>1, FS_Subset DEF SearchIInv, RetrievalIsSound, SearchTypeOK
  <2>6. diverse # {}  BY <2>4, <2>5, BestOfSome, RetrievalAssumption
  <2>7. PICK d \in diverse : TRUE  BY <2>6
  <2>8. ~InBudget({} \cup {d})  BY <2>7, <1>4 DEF Selected
  <2>9. {} \cup {d} = {d}  OBVIOUS
  <2> QED  BY <2>7, <2>8, <2>9, <1>1, <1>2
<1> QED  BY <1>1, <1>2, <1>3, <1>4 DEF SearchIInv, ListInv

-----------------------------------------------------------------------------
\* Nothing is disputed anew when the signal fires, and what is removed stays removed.
LEMMA SearchSignalled ==
    ASSUME SearchIInv, TimeOut \/ GiveUp \/ Remove
    PROVE  SearchIInv'
<1>1. UNCHANGED <<stage, request, found, marked, hits, outcome, context>>
  BY DEF TimeOut, GiveUp, Remove
<1>a. {timedOut', aborted'} \subseteq BOOLEAN
  BY DEF TimeOut, GiveUp, Remove, SearchIInv, RetrievalIsSound, SearchTypeOK
<1>b. aborted => aborted'  BY DEF TimeOut, GiveUp, Remove
<1>c. \A x : x \in removed => x \in removed'  BY DEF TimeOut, GiveUp, Remove
<1>2. SearchTypeOK'  BY <1>1, <1>a DEF SearchIInv, RetrievalIsSound, SearchTypeOK
<1>3. \A m : Contradicting(m)' = Contradicting(m)  BY <1>1 DEF Contradicting
<1>4. \A k : Gone(k) => Gone(k)'  BY <1>c DEF Gone
<1>5. \A m : Undisputed(m) => Undisputed(m)'  BY <1>3, <1>4 DEF Undisputed
<1>6. \A h : Allowed(h)' <=> Allowed(h)  BY <1>1 DEF Allowed
<1>7. ListInv'  BY <1>1, <1>5, <1>6 DEF SearchIInv, ListInv, KindIn
<1>8. ContextIsTrusted'  BY <1>1, <1>3, <1>4 DEF SearchIInv, RetrievalIsSound, ContextIsTrusted, InBudget, KindIn
<1>9. Disputed' = Disputed  BY <1>1, <1>3 DEF Disputed
<1>10. FailureDegrades'  BY <1>1, <1>b, <1>9 DEF SearchIInv, RetrievalIsSound, FailureDegrades
<1>11. TextHitIsShown'  BY <1>1 DEF SearchIInv, RetrievalIsSound, TextHitIsShown, TextHit, InBudget
<1> QED  BY <1>2, <1>7, <1>8, <1>10, <1>11 DEF SearchIInv, RetrievalIsSound

\* A step that returns nothing keeps the promises about what is returned.
LEMMA NothingReturned ==
    ASSUME context' = {}, outcome' # "returned"
    PROVE  ContextIsTrusted' /\ TextHitIsShown'
<1>1. ContextIsTrusted'
  <2>1. KindIn({}, "memory") = {}  BY DEF KindIn
  <2> QED  BY <2>1, NothingCosts DEF ContextIsTrusted
<1> QED  BY <1>1 DEF TextHitIsShown

LEMMA SearchNextStep == ASSUME SearchIInv, [SearchNext]_searchVars PROVE SearchIInv'
<1> USE DEF SearchIInv, RetrievalIsSound
<1>1. CASE Plan
  <2>1. UNCHANGED <<request, timedOut, aborted, found, removed, hits, context>> /\ context = {} /\ hits = {}
    BY <1>1 DEF Plan, ListInv, SearchTypeOK
  <2>2. SearchTypeOK'  BY <1>1, <2>1 DEF Plan, SearchEnds, SearchTypeOK
  <2>3. ListInv'  BY <1>1, <2>1 DEF Plan, SearchEnds, ListInv, KindIn
  <2>4. FailureDegrades'  BY <1>1, <2>1 DEF Plan, SearchEnds, FailureDegrades, SearchTypeOK
  <2>5. ContextIsTrusted' /\ TextHitIsShown'
    <3>1. KindIn({}, "memory") = {}  BY DEF KindIn
    <3> QED  BY <2>1, <3>1, NothingCosts DEF ContextIsTrusted, TextHitIsShown
  <2> QED  BY <2>2, <2>3, <2>4, <2>5
<1>2. CASE SearchKnowledge \/ SearchViews \/ SearchMemories
  <2>1. PICK k \in SearchKinds, to \in {"view", "memory", "verify"} : Stage(k, to)
    BY <1>2 DEF SearchKnowledge, SearchViews, SearchMemories, SearchKinds
  <2>2. /\ stage' = to /\ stage # "done"
        /\ UNCHANGED <<request, timedOut, aborted, removed, marked, hits, outcome, context>>
    BY <2>1 DEF Stage, SearchKinds
  <2>3. \A j \in SearchKinds : found'[j] \subseteq KindIn(Corpus, j)
    BY <2>1 DEF Stage, SearchTypeOK, SearchKinds
  <2>4. SearchTypeOK'  BY <2>2, <2>3 DEF SearchTypeOK, SearchKinds
  <2>5. outcome = "open" /\ context = {}  BY <2>2 DEF SearchTypeOK, ListInv
  <2>6. ListInv'  BY <2>2, <2>5 DEF ListInv
  <2>7. FailureDegrades'  BY <2>2, <2>5 DEF FailureDegrades
  <2> QED  BY <2>2, <2>4, <2>5, <2>6, <2>7, NothingReturned
<1>3. CASE Verify
  <2>1. UNCHANGED <<request, timedOut, aborted, found, removed, context>> /\ stage = "verify"
    BY <1>3 DEF Verify
  <2>2. outcome = "open" /\ context = {}  BY <2>1 DEF SearchTypeOK, ListInv
  <2>3. Disputed' = Disputed /\ \A m : Undisputed(m)' <=> Undisputed(m)
    BY <2>1 DEF Disputed, Undisputed, Contradicting, Gone
  <2>4. CASE stage' = "gate"
    <3>1. PICK bad \in SUBSET Disputed :
              /\ \A m \in Disputed : m \notin bad => \E k \in Contradicting(m) : Gone(k)
              /\ hits' = Fused(bad) /\ outcome' = "open"
      BY <1>3, <2>2, <2>4 DEF Verify, SearchEnds
    <3>2. /\ IsFiniteSet(Fused(bad))
          /\ \A m \in KindIn(Fused(bad), "memory") : m.current => Undisputed(m)
      BY <3>1, FusedList
    <3>3. SearchTypeOK'  BY <3>1, <3>2, <2>1, <2>2, <2>4 DEF SearchTypeOK
    <3>4. ListInv'  BY <3>1, <3>2, <2>1, <2>2, <2>3, <2>4 DEF ListInv
    <3>5. FailureDegrades'  BY <3>1 DEF FailureDegrades
    <3> QED  BY <3>1, <3>3, <3>4, <3>5, <2>1, <2>2, NothingReturned
  <2>5. CASE stage' # "gate"
    <3>1. stage' = "done" /\ outcome' = "failed" /\ hits' = hits /\ Disputed # {}
      BY <1>3, <2>5 DEF Verify, SearchEnds
    <3>2. SearchTypeOK' /\ ListInv'  BY <3>1, <2>1, <2>2 DEF SearchTypeOK, ListInv
    <3>3. FailureDegrades'  BY <3>1, <2>3 DEF FailureDegrades
    <3> QED  BY <3>1, <3>2, <3>3, <2>1, <2>2, NothingReturned
  <2> QED  BY <2>4, <2>5
<1>4. CASE Gate
  <2>1. /\ stage = "gate" /\ stage' = "rerank"
        /\ UNCHANGED <<request, timedOut, aborted, found, removed, outcome, context>>
        /\ hits' \subseteq {h \in hits : Allowed(h)}
    BY <1>4 DEF Gate, Best
  <2>2. outcome = "open" /\ context = {}  BY <2>1 DEF SearchTypeOK, ListInv
  <2>3. IsFiniteSet(hits')  BY <2>1, FS_Subset DEF SearchTypeOK
  <2>4. SearchTypeOK'  BY <2>1, <2>2, <2>3 DEF SearchTypeOK
  <2>5. /\ \A m : Undisputed(m)' <=> Undisputed(m)
        /\ \A h : Allowed(h)' <=> Allowed(h)
    BY <2>1 DEF Undisputed, Contradicting, Gone, Allowed
  <2>6. ListInv'  BY <2>1, <2>2, <2>5 DEF ListInv, KindIn
  <2>7. FailureDegrades'  BY <2>1, <2>2 DEF FailureDegrades
  <2> QED  BY <2>1, <2>2, <2>4, <2>6, <2>7, NothingReturned
<1>5. CASE Rerank
  <2>1. /\ stage = "rerank" /\ UNCHANGED <<request, timedOut, aborted, found, removed, hits, context>>
        /\ \/ stage' = "assemble" /\ outcome' = outcome
           \/ stage' = "done" /\ outcome' = "failed" /\ request.required
    BY <1>5 DEF Rerank, SearchEnds
  <2>2. outcome = "open" /\ context = {}  BY <2>1 DEF SearchTypeOK, ListInv
  <2>3. SearchTypeOK'  BY <2>1, <2>2 DEF SearchTypeOK
  <2>4. /\ \A m : Undisputed(m)' <=> Undisputed(m)
        /\ \A h : Allowed(h)' <=> Allowed(h)
    BY <2>1 DEF Undisputed, Contradicting, Gone, Allowed
  <2>5. ListInv'  BY <2>1, <2>2, <2>4 DEF ListInv, KindIn
  <2>6. FailureDegrades'  BY <2>1, <2>2 DEF FailureDegrades
  <2> QED  BY <2>1, <2>2, <2>3, <2>5, <2>6, NothingReturned
<1>6. CASE Assemble
  <2>1. /\ stage = "assemble" /\ stage' = "done" /\ outcome' = "returned"
        /\ UNCHANGED <<request, timedOut, aborted, found, removed, hits>>
    BY <1>6 DEF Assemble, SearchEnds
  <2>2. PICK unique \in Deduped(hits) : \E kept \in AfterCutoff(unique) :
            \E diverse \in Best(kept, TopK) : context' \in Selected(diverse)
    BY <1>6 DEF Assemble
  <2>3. /\ context' \subseteq hits /\ InBudget(context')
        /\ \A g, h \in context' : g.content = h.content => g = h
        /\ \A h \in context' : Allowed(h)
        /\ (\E h \in hits : TextHit(h)) => context' # {} \/ \E h \in hits : ~InBudget({h})
    BY <2>1, <2>2, ContextOfList
  <2>4. SearchTypeOK'  BY <2>1, <2>3 DEF SearchTypeOK
  <2>5. ListInv'  BY <2>1 DEF ListInv
  <2>6. FailureDegrades'  BY <2>1 DEF FailureDegrades
  <2>7. TextHitIsShown'  BY <2>1, <2>3 DEF TextHitIsShown, TextHit
  <2>8. \A m \in KindIn(context', "memory") :
            request.historical \/ Contradicting(m) = {} \/ \E k \in Contradicting(m) : Gone(k)
    BY <2>1, <2>3 DEF ListInv, KindIn, Allowed, Undisputed
  <2>9. \A h \in context' : h.own /\ h.authority >= request.minimum  BY <2>3 DEF Allowed
  <2>10. \A m : Contradicting(m)' = Contradicting(m)  BY <2>1 DEF Contradicting
  <2>11. ContextIsTrusted'  BY <2>1, <2>3, <2>8, <2>9, <2>10 DEF ContextIsTrusted, KindIn, Gone
  <2> QED  BY <2>4, <2>5, <2>6, <2>7, <2>11
<1>7. CASE TimeOut \/ GiveUp \/ Remove  BY <1>7, SearchSignalled
<1>8. CASE UNCHANGED searchVars
  BY <1>8 DEF searchVars, SearchTypeOK, ListInv, ContextIsTrusted, FailureDegrades, TextHitIsShown, TextHit,
              Undisputed, Contradicting, Gone, Allowed, Disputed
<1> QED  BY <1>1, <1>2, <1>3, <1>4, <1>5, <1>6, <1>7, <1>8 DEF SearchNext

LEMMA SearchStarts == SearchInit => SearchIInv
<1> SUFFICES ASSUME SearchInit PROVE SearchIInv  OBVIOUS
<1>1. SearchTypeOK  BY FS_EmptySet DEF SearchInit, SearchTypeOK, KindIn
<1>2. ListInv  BY DEF SearchInit, ListInv
<1>3. ContextIsTrusted  BY EmptyContextIsTrusted DEF SearchInit
<1> QED  BY <1>1, <1>2, <1>3 DEF SearchInit, SearchIInv, RetrievalIsSound, FailureDegrades, TextHitIsShown

\* RetrievalPipeline: whichever stages of a search fail, run out of time or race with a removal,
\* the context keeps its budgets, repeats nothing, holds only what the caller may see, no memory
\* that knowledge found with it contradicts, and is not empty when text was found.
THEOREM RetrievalAlwaysSound == SearchSpec => []RetrievalIsSound
<1>1. SearchInit => SearchIInv  BY SearchStarts
<1>2. SearchIInv /\ [SearchNext]_searchVars => SearchIInv'  BY SearchNextStep
<1>3. SearchIInv => RetrievalIsSound  BY DEF SearchIInv
<1> QED  BY <1>1, <1>2, <1>3, PTL DEF SearchSpec

-----------------------------------------------------------------------------
(* RecallCoordinator                                                          *)

\* The id names a record of k, and of no other store.
OnlyIn(k) == up /\ there[k] = "ready" /\ \A other \in Kinds \ {k} : there[other] = "absent"
LeadsTo(x, k) == x.type = k /\ x.reason = "resolved"

\* The owner's entry says what has been so since before it was made.
CacheInv ==
    /\ faults \in Nat
    /\ \A k \in Kinds :
           /\ faults = 0 /\ OnlyIn(k)
           /\ <<"bare", Owner>> \in DOMAIN cache /\ since < cache[<<"bare", Owner>>].at
           => LeadsTo(cache[<<"bare", Owner>>], k)

Plain(c) == asking[c].request.id = "bare" /\ Mine(c)

\* What a call that probes has seen of a record that was there before it began.
ProbeFine(c) ==
    /\ asking[c] = [pc |-> "probe", user |-> asking[c].user, request |-> asking[c].request,
                    pending |-> asking[c].pending, seen |-> asking[c].seen]
    /\ asking[c].pending \subseteq Kinds
    /\ \A k \in Kinds :
           faults = 0 /\ OnlyIn(k) /\ since < clock /\ Plain(c)
               => asking[c].seen = IF k \in asking[c].pending THEN {} ELSE {<<k, "ready">>}

\* Where a call is led that comes late enough after the last change.
RouteFine(c) ==
    \A k \in Kinds :
        faults = 0 /\ OnlyIn(k) /\ since + TTL <= clock /\ Plain(c) => LeadsTo(asking[c], k)

CallFine(c) ==
    /\ asking[c].pc = "search" => asking[c].request.id = Nil
    /\ asking[c].pc \in {"probe", "route"} => asking[c].request.id # Nil
    /\ asking[c].pc = "probe" => ProbeFine(c)
    /\ asking[c].pc = "route" => RouteFine(c)

RecallIInv ==
    /\ RecallTypeOK /\ CacheInv
    /\ DOMAIN asking = Callers /\ \A c \in Callers : CallFine(c)

\* A call that is left alone stays as fine as it was, while nothing changes around it or
\* a read fails.
LEMMA LeftAlone ==
    ASSUME RecallIInv, NEW c \in Callers, asking'[c] = asking[c], UNCHANGED <<world, clock>>,
           faults' = faults \/ faults' = faults + 1
    PROVE  CallFine(c)'
<1>1. UNCHANGED <<there, up, since>>  BY DEF world
<1>2. faults' = 0 => faults = 0  BY DEF RecallIInv, CacheInv
<1>3. \A k : OnlyIn(k)' = OnlyIn(k)  BY <1>1 DEF OnlyIn
<1>4. Plain(c)' = Plain(c)  BY DEF Plain, Mine
<1>5. CallFine(c)  BY DEF RecallIInv
<1>6. ASSUME ProbeFine(c)  PROVE ProbeFine(c)'
  BY <1>1, <1>2, <1>3, <1>4, <1>6 DEF ProbeFine
<1>7. ASSUME RouteFine(c)  PROVE RouteFine(c)'
  BY <1>1, <1>2, <1>3, <1>4, <1>7 DEF RouteFine, LeadsTo
<1> QED  BY <1>5, <1>6, <1>7 DEF CallFine

\* A step of one call, which leaves the world as it is.
LEMMA OneCallMoves ==
    ASSUME RecallIInv, NEW c \in Callers, UNCHANGED <<world, clock>>,
           faults' = faults \/ faults' = faults + 1,
           DOMAIN asking' = Callers, \A d \in Callers \ {c} : asking'[d] = asking[d],
           \/ asking'[c] = Unasked
           \/ /\ asking'[c].pc \in {"search", "probe", "route"}
              /\ asking'[c].user \in Users /\ asking'[c].request \in RecallRequests,
           CallFine(c)',
           \A key \in DOMAIN cache' : cache'[key].at \in 0..clock,
           CacheInv'
    PROVE  RecallIInv'
<1>1. UNCHANGED <<there, up, since>>  BY DEF world
<1>2. \A d \in Callers : CallFine(d)'  BY LeftAlone
<1>3. RecallTypeOK'  BY <1>1 DEF RecallIInv, RecallTypeOK
<1> QED  BY <1>2, <1>3 DEF RecallIInv

\* As long as the cache stays as it is, so does what is known of it.
LEMMA CacheKept ==
    ASSUME RecallIInv, UNCHANGED <<world, cache>>, faults' = faults \/ faults' = faults + 1
    PROVE  CacheInv'
<1>1. UNCHANGED <<there, up, since>>  BY DEF world
<1>2. faults' \in Nat /\ (faults' = 0 => faults = 0)  BY DEF RecallIInv, CacheInv
<1>3. \A k : OnlyIn(k)' = OnlyIn(k)  BY <1>1 DEF OnlyIn
<1> QED  BY <1>1, <1>2, <1>3 DEF RecallIInv, CacheInv

LEMMA UnaskedIsFine == \A c : asking[c] = Unasked => CallFine(c)
BY DEF Unasked, CallFine

LEMMA AskStep ==
    ASSUME RecallIInv, NEW c \in Callers, NEW user \in Users, NEW asks \in RecallRequests,
           Ask(c, user, asks)
    PROVE  RecallIInv'
<1> DEFINE key == <<asks.id, user>>
<1>1. /\ UNCHANGED <<world, cache, clock, faults>> /\ DOMAIN asking = Callers
      /\ DOMAIN asking' = Callers /\ \A d \in Callers \ {c} : asking'[d] = asking[d]
  BY DEF Ask, RecallIInv
<1>u. UNCHANGED <<there, up, since>>  BY <1>1 DEF world
<1>2. CacheInv'  BY <1>1, CacheKept
<1>3. \A e \in DOMAIN cache' : cache'[e].at \in 0..clock  BY <1>1 DEF RecallIInv, RecallTypeOK
<1>4. clock \in Nat /\ since \in 0..clock /\ TTL \in Nat \ {0} /\ Nil # "bare"
  BY RecallAssumption DEF RecallIInv, RecallTypeOK
<1>5. CASE asks.id = Nil
  <2>1. asking'[c] = [pc |-> "search", user |-> user, request |-> asks]
    BY <1>1, <1>5 DEF Ask
  <2>2. CallFine(c)'  BY <2>1, <1>5 DEF CallFine
  <2> QED  BY <1>1, <1>2, <1>3, <2>1, <2>2, OneCallMoves
<1>6. CASE asks.id # Nil /\ key \in DOMAIN cache /\ Valid(cache[key])
  <2>1. asking'[c] = [pc |-> "route", user |-> user, request |-> asks,
                      type |-> cache[key].type, reason |-> cache[key].reason]
    BY <1>1, <1>6 DEF Ask, Routed
  <2>2. cache[key].at + TTL > clock /\ cache[key].at \in 0..clock
    BY <1>6 DEF Valid, RecallIInv, RecallTypeOK
  <2>3. ASSUME NEW k \in Kinds, faults = 0, OnlyIn(k), since + TTL <= clock,
               asks.id = "bare", user = Owner
        PROVE  cache[key].type = k /\ cache[key].reason = "resolved"
    <3>1. since < cache[key].at  BY <2>2, <2>3, <1>4
    <3> QED  BY <3>1, <2>3, <1>6 DEF RecallIInv, CacheInv, LeadsTo
  <2>4. RouteFine(c)'
    <3>1. \A k : OnlyIn(k)' = OnlyIn(k)  BY <1>u DEF OnlyIn
    <3> QED  BY <3>1, <2>1, <2>3, <1>1, <1>u DEF RouteFine, LeadsTo, Plain, Mine
  <2>5. CallFine(c)'  BY <2>1, <2>4, <1>6 DEF CallFine
  <2> QED  BY <1>1, <1>2, <1>3, <2>1, <2>5, OneCallMoves
<1>7. CASE asks.id # Nil /\ ~(key \in DOMAIN cache /\ Valid(cache[key]))
  <2>1. asking'[c] = [pc |-> "probe", user |-> user, request |-> asks,
                      pending |-> Probed(asks.id), seen |-> {}]
    BY <1>1, <1>7 DEF Ask
  <2>2. Probed(asks.id) \subseteq Kinds /\ (asks.id = "bare" => Probed(asks.id) = Kinds)
    BY DEF Probed, Kinds
  <2>3. ProbeFine(c)'  BY <2>1, <2>2 DEF ProbeFine, Plain, Mine
  <2>4. CallFine(c)'  BY <2>1, <2>3, <1>7 DEF CallFine
  <2> QED  BY <1>1, <1>2, <1>3, <2>1, <2>4, OneCallMoves
<1> QED  BY <1>5, <1>6, <1>7

LEMMA ProbeStep ==
    ASSUME RecallIInv, NEW c \in Callers, NEW k \in Kinds, Probe(c, k)
    PROVE  RecallIInv'
<1> DEFINE old == asking[c]
           Seen(s) == [pc |-> "probe", user |-> old.user, request |-> old.request,
                       pending |-> old.pending \ {k}, seen |-> s]
<1>1. /\ UNCHANGED <<world, cache, clock>> /\ DOMAIN asking = Callers
      /\ DOMAIN asking' = Callers /\ \A d \in Callers \ {c} : asking'[d] = asking[d]
      /\ faults' = faults \/ faults' = faults + 1
      /\ old.pc = "probe" /\ k \in old.pending
  BY DEF Probe, RecallIInv, Doing
<1>u. UNCHANGED <<there, up, since>>  BY <1>1 DEF world
<1>2. CacheInv'  BY <1>1, CacheKept
<1>3. \A e \in DOMAIN cache' : cache'[e].at \in 0..clock  BY <1>1 DEF RecallIInv, RecallTypeOK
<1>4. ProbeFine(c) /\ CallFine(c) /\ old # Unasked  BY <1>1 DEF RecallIInv, CallFine, Unasked
<1>5. old.user \in Users /\ old.request \in RecallRequests /\ old.request.id # Nil
  BY <1>1, <1>4 DEF RecallIInv, RecallTypeOK, CallFine
<1>6. old = [pc |-> "probe", user |-> old.user, request |-> old.request,
             pending |-> old.pending, seen |-> old.seen] /\ old.pending \subseteq Kinds
  BY <1>4 DEF ProbeFine
<1>7. \/ /\ asking'[c] = Seen(IF Visible(c, k) THEN old.seen \cup {<<k, there[k]>>} ELSE old.seen)
         /\ faults' = faults
      \/ asking'[c] = Seen(old.seen) /\ faults' = faults + 1
  BY <1>1, <1>6 DEF Probe
<1>8. asking'[c].pc = "probe" /\ asking'[c].user = old.user /\ asking'[c].request = old.request
  BY <1>7
<1>9. ProbeFine(c)'
  <2>1. asking'[c] = Seen(asking'[c].seen)  BY <1>7
  <2>2. ASSUME NEW j \in Kinds, faults' = 0, OnlyIn(j)', since < clock, Plain(c)'
        PROVE  asking'[c].seen = IF j \in old.pending \ {k} THEN {} ELSE {<<j, "ready">>}
    <3>1. OnlyIn(j)  BY <2>2, <1>u DEF OnlyIn
    <3>2. Plain(c) /\ Mine(c)  BY <2>2, <1>8 DEF Plain, Mine
    <3>3. faults = 0 /\ faults' = faults  BY <2>2, <1>1 DEF RecallIInv, CacheInv
    <3>4. old.seen = IF j \in old.pending THEN {} ELSE {<<j, "ready">>}
      BY <3>1, <3>2, <3>3, <2>2, <1>4 DEF ProbeFine
    <3>5. asking'[c] = Seen(IF Visible(c, k) THEN old.seen \cup {<<k, there[k]>>} ELSE old.seen)
      BY <3>3, <1>7 DEF RecallIInv, CacheInv
    <3>6. CASE k = j
      <4>1. Visible(c, k) /\ there[k] = "ready"  BY <3>1, <3>2, <3>6 DEF Visible, OnlyIn
      <4> QED  BY <4>1, <3>4, <3>5, <3>6, <1>1
    <3>7. CASE k # j
      <4>1. ~Visible(c, k)  BY <3>1, <3>7 DEF Visible, OnlyIn
      <4> QED  BY <4>1, <3>4, <3>5, <3>7
    <3> QED  BY <3>6, <3>7
  <2> QED  BY <2>1, <2>2, <1>1, <1>u, <1>6, <1>8 DEF ProbeFine
<1>10. CallFine(c)'  BY <1>5, <1>8, <1>9 DEF CallFine
<1> QED  BY <1>1, <1>2, <1>3, <1>5, <1>8, <1>10, OneCallMoves

\* One record that was seen is what a bare id is resolved to.
LEMMA ResolvedToOne ==
    ASSUME NEW c, NEW k \in Kinds, asking[c].seen = {<<k, "ready">>}, asking[c].request.id = "bare"
    PROVE  Resolution(c) = [type |-> k, reason |-> "resolved"]
<1> DEFINE seen == asking[c].seen
           alive == {s \in seen : s[1] = "artifact" => s[2] = "ready"}
<1>1. alive = {<<k, "ready">>}  OBVIOUS
<1>2. Cardinality(alive) = 1  BY <1>1, FS_Singleton
<1>3. (CHOOSE s \in alive : TRUE) = <<k, "ready">>  BY <1>1
<1>4. (CHOOSE s \in alive : TRUE)[1] = k  BY <1>3
<1> HIDE DEF alive
<1>5. Resolution(c) = CASE Cardinality(alive) > 1 -> [type |-> "unknown", reason |-> "ambiguous"]
                        [] Cardinality(alive) = 1 -> [type |-> (CHOOSE s \in alive : TRUE)[1],
                                                      reason |-> "resolved"]
                        [] OTHER -> [type |-> "unknown", reason |-> "not_found"]
  BY DEF Resolution, alive
<1> QED  BY <1>2, <1>4, <1>5

LEMMA ResolveStep ==
    ASSUME RecallIInv, NEW c \in Callers, Resolve(c)
    PROVE  RecallIInv'
<1> DEFINE old == asking[c]
           r == Resolution(c)
           key == <<old.request.id, old.user>>
<1>1. /\ UNCHANGED <<world, clock, faults>> /\ DOMAIN asking = Callers
      /\ DOMAIN asking' = Callers /\ \A d \in Callers \ {c} : asking'[d] = asking[d]
      /\ old.pc = "probe" /\ old.pending = {}
      /\ asking'[c] = [pc |-> "route", user |-> old.user, request |-> old.request,
                       type |-> r.type, reason |-> r.reason]
      /\ cache' = [x \in DOMAIN cache \cup {key} |->
                      IF x = key THEN [type |-> r.type, reason |-> r.reason, at |-> clock] ELSE cache[x]]
  BY DEF Resolve, RecallIInv, Doing, Routed, Put
<1>u. UNCHANGED <<there, up, since>>  BY <1>1 DEF world
<1>2. ProbeFine(c) /\ CallFine(c) /\ old # Unasked  BY <1>1 DEF RecallIInv, CallFine, Unasked
<1>3. old.user \in Users /\ old.request \in RecallRequests /\ old.request.id # Nil
  BY <1>1, <1>2 DEF RecallIInv, RecallTypeOK, CallFine
<1>4. clock \in Nat /\ since \in 0..clock /\ TTL \in Nat \ {0} /\ faults \in Nat
  BY RecallAssumption DEF RecallIInv, RecallTypeOK, CacheInv
<1>5. ASSUME NEW k \in Kinds, faults = 0, OnlyIn(k), since < clock, Plain(c)
      PROVE  r.type = k /\ r.reason = "resolved"
  <2>1. old.seen = {<<k, "ready">>}  BY <1>1, <1>2, <1>5 DEF ProbeFine
  <2>2. r = [type |-> k, reason |-> "resolved"]  BY <2>1, <1>5, ResolvedToOne DEF Plain
  <2> QED  BY <2>2
<1>6. \A k : OnlyIn(k)' = OnlyIn(k)  BY <1>u DEF OnlyIn
<1>7. Plain(c)' = Plain(c)  BY <1>1 DEF Plain, Mine
<1>8. RouteFine(c)'
  <2>1. \A k \in Kinds : since + TTL <= clock => since < clock  BY <1>4
  <2> QED  BY <2>1, <1>1, <1>u, <1>5, <1>6, <1>7 DEF RouteFine, LeadsTo
<1>9. CallFine(c)'  BY <1>1, <1>3, <1>8 DEF CallFine
<1>10. \A e \in DOMAIN cache' : cache'[e].at \in 0..clock
  BY <1>1, <1>4 DEF RecallIInv, RecallTypeOK
<1>11. CacheInv'
  <2> DEFINE own == <<"bare", Owner>>
  <2> SUFFICES ASSUME NEW k \in Kinds, faults = 0, OnlyIn(k), own \in DOMAIN cache', since < cache'[own].at
               PROVE  cache'[own].type = k /\ cache'[own].reason = "resolved"
    BY <1>1, <1>u, <1>4, <1>6 DEF CacheInv, LeadsTo
  <2>1. CASE own = key
    <3>1. Plain(c)  BY <2>1 DEF Plain, Mine
    <3>2. cache'[own] = [type |-> r.type, reason |-> r.reason, at |-> clock]  BY <2>1, <1>1
    <3> QED  BY <3>1, <3>2, <1>5
  <2>2. CASE own # key
    <3>1. own \in DOMAIN cache /\ cache'[own] = cache[own]  BY <2>2, <1>1
    <3> QED  BY <3>1 DEF RecallIInv, CacheInv, LeadsTo
  <2> QED  BY <2>1, <2>2
<1>12. asking'[c].pc = "route" /\ asking'[c].user = old.user /\ asking'[c].request = old.request
  BY <1>1
<1> QED  BY <1>1, <1>3, <1>9, <1>10, <1>11, <1>12, OneCallMoves

LEMMA ReadStep ==
    ASSUME RecallIInv, NEW c \in Callers, Read(c)
    PROVE  RecallIInv' /\ (answer' # Nil => FailsClosed' /\ FoundInTime')
<1> DEFINE old == asking[c]
           k == old.type
           query == old.request.query
<1>1. /\ UNCHANGED <<world, cache, clock>> /\ DOMAIN asking = Callers
      /\ DOMAIN asking' = Callers /\ \A d \in Callers \ {c} : asking'[d] = asking[d]
      /\ faults' = faults \/ faults' = faults + 1
      /\ old.pc = "route" /\ asking'[c] = Unasked
  BY DEF Read, RecallIInv, Doing, Answer
<1>u. UNCHANGED <<there, up, since>>  BY <1>1 DEF world
<1>2. CacheInv'  BY <1>1, CacheKept
<1>3. \A e \in DOMAIN cache' : cache'[e].at \in 0..clock  BY <1>1 DEF RecallIInv, RecallTypeOK
<1>4. CallFine(c)'  BY <1>1 DEF CallFine, Unasked
<1>5. RecallIInv'  BY <1>1, <1>2, <1>3, <1>4, OneCallMoves
<1>6. RouteFine(c) /\ old.request.id # Nil  BY <1>1 DEF RecallIInv, CallFine
<1>7. PICK any, reason, shown :
          /\ answer' = [request |-> old.request, user |-> old.user, found |-> any,
                        reason |-> reason, hits |-> shown]
          /\ \/ shown = {}
             \/ shown = Hits(c, k) /\ any = TRUE /\ Mine(c)
          /\ faults' = faults /\ old.reason = "resolved" /\ ~(query /\ k = "event")
                 /\ old.request.id = "bare" /\ Visible(c, k) /\ (k = "artifact" /\ query => there[k] = "ready")
             => reason = "resolved"
  BY DEF Read, Answer, Nothing, Visible, RecallIInv, CacheInv
<1>8. "others" \notin shown  BY <1>7 DEF Hits
<1>9. answer'.hits # {} => answer'.user = Owner /\ answer'.found  BY <1>7 DEF Mine
<1>10. FailsClosed'  BY <1>7, <1>8, <1>9 DEF FailsClosed
<1>11. FoundInTime'
  <2> SUFFICES ASSUME NEW j \in Kinds, faults' = 0, answer'.request.id = "bare", answer'.user = Owner,
                      answer'.request.query => j # "event",
                      up, there[j] = "ready", since + TTL <= clock,
                      \A other \in Kinds \ {j} : there[other] = "absent"
               PROVE  answer'.reason = "resolved"
    BY <1>1, <1>u DEF FoundInTime
  <2>1. faults = 0 /\ faults' = faults  BY <1>1 DEF RecallIInv, CacheInv
  <2>2. Plain(c) /\ OnlyIn(j)  BY <1>7 DEF Plain, Mine, OnlyIn
  <2>3. k = j /\ old.reason = "resolved"  BY <2>1, <2>2, <1>6 DEF RouteFine, LeadsTo
  <2>4. Visible(c, k)  BY <2>2, <2>3 DEF Visible, Plain
  <2>5. reason = "resolved"  BY <2>1, <2>2, <2>3, <2>4, <1>7 DEF Plain
  <2> QED  BY <2>5, <1>7
<1> QED  BY <1>5, <1>10, <1>11

LEMMA SearchStep ==
    ASSUME RecallIInv, NEW c \in Callers, Search(c)
    PROVE  RecallIInv' /\ FailsClosed' /\ FoundInTime'
<1> DEFINE old == asking[c]
<1>1. /\ UNCHANGED <<world, cache, clock, faults>> /\ DOMAIN asking = Callers
      /\ DOMAIN asking' = Callers /\ \A d \in Callers \ {c} : asking'[d] = asking[d]
      /\ old.pc = "search" /\ asking'[c] = Unasked
  BY DEF Search, RecallIInv, Doing, Answer
<1>2. CacheInv'  BY <1>1, CacheKept
<1>3. \A e \in DOMAIN cache' : cache'[e].at \in 0..clock  BY <1>1 DEF RecallIInv, RecallTypeOK
<1>4. CallFine(c)'  BY <1>1 DEF CallFine, Unasked
<1>5. RecallIInv'  BY <1>1, <1>2, <1>3, <1>4, OneCallMoves
<1>6. old.request.id = Nil  BY <1>1 DEF RecallIInv, CallFine
<1>7. PICK any, shown :
          /\ answer' = [request |-> old.request, user |-> old.user, found |-> any,
                        reason |-> Nil, hits |-> shown]
          /\ shown # {} => any /\ Mine(c)
  BY DEF Search, Answer, Visible
<1>8. answer'.request.id = Nil  BY <1>6, <1>7
<1>9. FailsClosed'  BY <1>7, <1>8 DEF FailsClosed, Mine
<1>10. FoundInTime'  BY <1>8, RecallAssumption DEF FoundInTime
<1> QED  BY <1>5, <1>9, <1>10

\* A change of the world makes every entry and every call too early for it.
LEMMA WorldStep ==
    ASSUME RecallIInv, Open \/ \E k \in Kinds, state \in {"writing", "ready", "expired"} : Becomes(k, state)
    PROVE  RecallIInv'
<1>1. UNCHANGED <<cache, asking, clock, faults>> /\ since' = clock
  BY DEF Open, Becomes
<1>2. there' \in [Kinds -> RecordStates] /\ up' \in BOOLEAN
  BY DEF Open, Becomes, RecallIInv, RecallTypeOK, RecordStates
<1>3. clock \in Nat /\ TTL \in Nat \ {0}  BY RecallAssumption DEF RecallIInv, RecallTypeOK
<1>4. RecallTypeOK'  BY <1>1, <1>2, <1>3 DEF RecallIInv, RecallTypeOK
<1>5. CacheInv'
  <2>1. \A key \in DOMAIN cache : ~(clock < cache[key].at)  BY <1>3 DEF RecallIInv, RecallTypeOK
  <2> QED  BY <1>1, <2>1 DEF RecallIInv, CacheInv
<1>6. ASSUME NEW c \in Callers  PROVE CallFine(c)'
  <2>1. CallFine(c)  BY DEF RecallIInv
  <2>2. ProbeFine(c) => ProbeFine(c)'  BY <1>1, <1>3 DEF ProbeFine
  <2>3. RouteFine(c)'
    <3>1. ~(clock + TTL <= clock)  BY <1>3
    <3> QED  BY <1>1, <3>1 DEF RouteFine
  <2> QED  BY <1>1, <2>1, <2>2, <2>3 DEF CallFine
<1> QED  BY <1>1, <1>4, <1>5, <1>6 DEF RecallIInv

LEMMA ClockStep ==
    ASSUME RecallIInv, TimePasses
    PROVE  RecallIInv'
<1>1. /\ UNCHANGED <<world, cache, asking, faults>> /\ clock' = clock + 1
      /\ \A c \in Callers : asking[c] = Unasked
  BY DEF TimePasses, Resting
<1>u. UNCHANGED <<there, up, since>>  BY <1>1 DEF world
<1>2. RecallTypeOK'  BY <1>1, <1>u DEF RecallIInv, RecallTypeOK
<1>3. CacheInv'  BY <1>1, CacheKept
<1>4. \A c \in Callers : CallFine(c)'  BY <1>1 DEF CallFine, Unasked
<1> QED  BY <1>1, <1>2, <1>3, <1>4 DEF RecallIInv

\* Every step keeps the invariant, and gives no answer or a right one.
LEMMA RecallNextStep ==
    ASSUME RecallIInv, FailsClosed /\ FoundInTime, [RecallNext]_recallVars
    PROVE  RecallIInv' /\ FailsClosed' /\ FoundInTime'
<1>0. answer' = Nil => FailsClosed' /\ FoundInTime'  BY DEF FailsClosed, FoundInTime
<1>1. ASSUME NEW c \in Callers, NEW u \in Users, NEW r \in RecallRequests, Ask(c, u, r)
      PROVE  RecallIInv' /\ answer' = Nil
  BY <1>1, AskStep DEF Ask
<1>2. ASSUME NEW c \in Callers, NEW k \in Kinds, Probe(c, k)  PROVE RecallIInv' /\ answer' = Nil
  BY <1>2, ProbeStep DEF Probe
<1>3. ASSUME NEW c \in Callers, Resolve(c)  PROVE RecallIInv' /\ answer' = Nil
  BY <1>3, ResolveStep DEF Resolve
<1>4. ASSUME NEW c \in Callers, Read(c)  PROVE RecallIInv' /\ FailsClosed' /\ FoundInTime'
  BY <1>0, <1>4, ReadStep
<1>5. ASSUME NEW c \in Callers, Search(c)  PROVE RecallIInv' /\ FailsClosed' /\ FoundInTime'
  BY <1>5, SearchStep
<1>6. CASE Open \/ \E k \in Kinds, state \in {"writing", "ready", "expired"} : Becomes(k, state)
  BY <1>0, <1>6, WorldStep DEF Open, Becomes
<1>7. CASE TimePasses  BY <1>0, <1>7, ClockStep DEF TimePasses
<1>8. CASE UNCHANGED recallVars
  <2>1. UNCHANGED <<world, cache, asking, answer, clock, faults>> /\ UNCHANGED <<there, up, since>>
    BY <1>8 DEF recallVars, world
  <2>2. RecallTypeOK'  BY <2>1 DEF RecallIInv, RecallTypeOK
  <2>3. CacheInv'  BY <2>1, CacheKept
  <2>4. \A c \in Callers : CallFine(c)'  BY <2>1, LeftAlone
  <2>5. RecallIInv'  BY <2>1, <2>2, <2>3, <2>4 DEF RecallIInv
  <2> QED  BY <2>1, <2>5 DEF FailsClosed, FoundInTime
<1> QED  BY <1>0, <1>1, <1>2, <1>3, <1>4, <1>5, <1>6, <1>7, <1>8 DEF RecallNext

LEMMA RecallStarts == RecallInit => RecallIInv /\ FailsClosed /\ FoundInTime
<1> SUFFICES ASSUME RecallInit PROVE RecallIInv /\ FailsClosed /\ FoundInTime  OBVIOUS
<1>1. DOMAIN cache = {}  BY DEF RecallInit
<1>2. RecallTypeOK
  <2>1. there \in [Kinds -> RecordStates] /\ up \in BOOLEAN
    BY DEF RecallInit, LeftBehind, RecordStates
  <2>2. clock \in Nat /\ since \in 0..clock  BY DEF RecallInit
  <2>3. \A c \in Callers : asking[c] = Unasked  BY DEF RecallInit
  <2> QED  BY <1>1, <2>1, <2>2, <2>3 DEF RecallTypeOK
<1>3. CacheInv  BY <1>1 DEF RecallInit, CacheInv
<1>4. DOMAIN asking = Callers /\ \A c \in Callers : CallFine(c)  BY UnaskedIsFine DEF RecallInit
<1> QED  BY <1>2, <1>3, <1>4 DEF RecallIInv, FailsClosed, FoundInTime, RecallInit

\* RecallCoordinator: an id leads to the record it names or to nothing, never to a search of
\* everything and never to another user's; and one that has been readable in one store for the
\* life of a cache entry is found, unless a read failed.
THEOREM RecallAlwaysFailsClosed == RecallSpec => []RecallFailsClosed
<1> DEFINE Inv == RecallIInv /\ FailsClosed /\ FoundInTime
<1>1. RecallInit => Inv  BY RecallStarts
<1>2. Inv /\ [RecallNext]_recallVars => Inv'  BY RecallNextStep
<1>3. Inv => RecallFailsClosed  BY DEF RecallIInv, RecallFailsClosed
<1> QED  BY <1>1, <1>2, <1>3, PTL DEF RecallSpec

-----------------------------------------------------------------------------
(* ExperienceLearning                                                         *)

\* The steps of a job know of episodes that are over, of numbered revisions and memories.
JobType(j) ==
    /\ job[j].pc \in {"outcome", "mutate"} => job[j].episode \in DOMAIN episodes
    /\ job[j].pc = "commit" => job[j].evidence \subseteq DOMAIN episodes /\ job[j].revision \in Nat
    /\ job[j].pc = "settle" => job[j].revision \in Nat /\ job[j].memory \in Nat \cup {Missing}

TypeInv ==
    /\ episodes \in Seq(BOOLEAN)
    /\ disturbed \in BOOLEAN
    /\ candidate # Missing => candidate \in Procedures /\ candidate.outcomes \subseteq DOMAIN episodes
    /\ Busy # {} => candidate # Missing
    /\ DOMAIN job = Jobs /\ \A j \in Jobs : JobType(j)
    /\ \A r \in DOMAIN keys : /\ r \in Nat
                             /\ keys[r].evidence \subseteq DOMAIN episodes /\ keys[r].memory \in Nat \cup {Missing}
    /\ IsFiniteSet(DOMAIN memories) /\ DOMAIN memories \subseteq Nat

IInv1 == TypeInv /\ EpisodesCountOnce

\* What earns a procedure its promotion.
Earned(s) == /\ Cardinality(s) >= MinimumOutcomes
             /\ 100 * (1 + Cardinality(Good(s))) >= MinimumPercent * (2 + Cardinality(s))

\* The record knows the memory that is served and the revisions that were committed.
Known == /\ Served \subseteq {candidate.memory}
         /\ \A r \in DOMAIN keys : r <= candidate.revision

\* The record between two jobs.
Rests == /\ Known
         /\ candidate.state = "retired" => Served = {}
         /\ candidate.state = "promoted" => candidate.memory \in Served
         /\ candidate.state = "degraded" => candidate.revision \in notices

\* What a job that nobody disturbs has still to do before the record rests again.
Turned(j) ==
    /\ At(j, "outcome") => Rests
    /\ At(j, "mutate") => Rests /\ job[j].initial = candidate.state
    /\ At(j, "notice") => Known /\ candidate.state = "degraded" /\ job[j].revision = candidate.revision
    /\ At(j, "tombstone") => Known /\ candidate.state = "retired" /\ job[j].memory = candidate.memory
    /\ At(j, "qualify") => Rests
    /\ At(j, "promote") => Known /\ candidate.state = "qualified" /\ Earned(candidate.outcomes)
    /\ At(j, "commit") => Known /\ Earned(job[j].evidence) /\ job[j].revision = candidate.revision + 1
    /\ At(j, "settle") =>
            /\ \A r \in DOMAIN keys : r <= job[j].revision
            /\ IF job[j].memory = Missing THEN Served \subseteq {candidate.memory}
               ELSE Served = {job[j].memory}

Serial ==
    /\ \A i, j \in Busy : i = j
    /\ candidate = Missing => Served = {} /\ DOMAIN keys = {}
    /\ candidate # Missing /\ Busy = {} => Rests
    /\ \A j \in Busy : Turned(j)

ServedInv ==
    /\ \A m, n \in Served : m = n
    /\ ~disturbed => Serial /\ \A r \in DOMAIN keys : Earned(keys[r].evidence)

-----------------------------------------------------------------------------
\* An episode that is over keeps its outcome when another one ends.
LEMMA EpisodesKept ==
    ASSUME episodes \in Seq(BOOLEAN), NEW b \in BOOLEAN, episodes' = Append(episodes, b)
    PROVE  /\ episodes' \in Seq(BOOLEAN)
           /\ DOMAIN episodes \subseteq DOMAIN episodes' /\ Len(episodes) + 1 \in DOMAIN episodes'
           /\ \A e \in DOMAIN episodes : episodes'[e] = episodes[e]
  OBVIOUS

\* Finite sets of episodes, and their good ones.
LEMMA EpisodesFinite ==
    ASSUME episodes \in Seq(BOOLEAN), NEW S, S \subseteq DOMAIN episodes
    PROVE  /\ IsFiniteSet(S) /\ Cardinality(S) \in Nat
           /\ IsFiniteSet(Good(S)) /\ Cardinality(Good(S)) \in Nat
           /\ IsFiniteSet(S \ Good(S)) /\ Cardinality(S \ Good(S)) \in Nat
           /\ Cardinality(S) = Cardinality(Good(S)) + Cardinality(S \ Good(S))
<1>1. DOMAIN episodes = 1 .. Len(episodes) /\ Len(episodes) \in Nat  OBVIOUS
<1>2. IsFiniteSet(DOMAIN episodes)  BY <1>1, FS_Interval
<1>3. IsFiniteSet(S)  BY <1>2, FS_Subset
<1>4. Good(S) \in SUBSET S /\ S \ Good(S) \in SUBSET S  BY DEF Good
<1>5. IsFiniteSet(Good(S)) /\ IsFiniteSet(S \ Good(S))  BY <1>3, <1>4, FS_Subset
<1>6. Cardinality(S \ Good(S)) = Cardinality(S) - Cardinality(S \cap Good(S))
  BY <1>3, FS_Difference
<1>7. S \cap Good(S) = Good(S)  BY <1>4
<1>8. /\ Cardinality(S) \in Nat /\ Cardinality(Good(S)) \in Nat
      /\ Cardinality(S \ Good(S)) \in Nat
  BY <1>3, <1>5, FS_CardinalityType
<1>9. Cardinality(S \ Good(S)) = Cardinality(S) - Cardinality(Good(S))  BY <1>6, <1>7
<1> QED  BY <1>3, <1>5, <1>8, <1>9

\* Counting one more episode.
LEMMA OneMoreEpisode ==
    ASSUME TypeInv, EpisodesCountOnce, candidate # Missing, NEW e \in DOMAIN episodes,
           e \notin candidate.outcomes, NEW c, c = With(candidate, e)
    PROVE  /\ c \in Procedures
           /\ c.outcomes = candidate.outcomes \cup {e}
           /\ c.revision = candidate.revision /\ c.memory = candidate.memory
           /\ c.successes = Cardinality(Good(c.outcomes))
           /\ c.failures = Cardinality(c.outcomes \ Good(c.outcomes))
<1> DEFINE old == candidate.outcomes
           new == old \cup {e}
           s == IF episodes[e] THEN candidate.successes + 1 ELSE candidate.successes
           f == IF episodes[e] THEN candidate.failures ELSE candidate.failures + 1
           added == [candidate EXCEPT !.outcomes = new, !.successes = s, !.failures = f]
<1>1. candidate \in Procedures /\ old \subseteq DOMAIN episodes /\ episodes \in Seq(BOOLEAN)
  BY DEF TypeInv
<1>2. e \in Nat  BY <1>1
<1>3. /\ IsFiniteSet(Good(old)) /\ Cardinality(Good(old)) \in Nat
      /\ IsFiniteSet(old \ Good(old)) /\ Cardinality(old \ Good(old)) \in Nat
  BY <1>1, EpisodesFinite
<1>4. candidate.successes = Cardinality(Good(old)) /\ candidate.failures = Cardinality(old \ Good(old))
  BY DEF EpisodesCountOnce
<1>5. s \in Nat /\ f \in Nat /\ new \in SUBSET Nat  BY <1>1, <1>2 DEF Procedures
<1>6. /\ added.outcomes = new /\ added.successes = s /\ added.failures = f
      /\ added.state = candidate.state
      /\ added.revision = candidate.revision /\ added.memory = candidate.memory
      /\ added \in Procedures
  <2> HIDE DEF new, s, f
  <2> QED  BY <1>1, <1>5 DEF Procedures
<1>7. c = [added EXCEPT !.state = StateAfter(added)]  BY DEF With
<1> HIDE DEF added
<1>8. StateAfter(added) \in ProcedureStates  BY <1>6 DEF StateAfter, Procedures, ProcedureStates
<1>9. /\ c \in Procedures /\ c.outcomes = new /\ c.successes = s /\ c.failures = f
      /\ c.revision = candidate.revision /\ c.memory = candidate.memory
  <2> HIDE DEF new, s, f
  <2> QED  BY <1>6, <1>7, <1>8 DEF Procedures
<1>10. Cardinality(Good(new)) = s /\ Cardinality(new \ Good(new)) = f
  <2>1. CASE episodes[e]
    <3>1. Good(new) = Good(old) \cup {e} /\ new \ Good(new) = old \ Good(old) /\ e \notin Good(old)
      BY <2>1 DEF Good
    <3>2. Cardinality(Good(new)) = Cardinality(Good(old)) + 1  BY <1>3, <3>1, FS_AddElement
    <3>3. s = candidate.successes + 1 /\ f = candidate.failures  BY <2>1
    <3> QED  BY <1>4, <3>1, <3>2, <3>3
  <2>2. CASE ~episodes[e]
    <3>1. /\ Good(new) = Good(old) /\ new \ Good(new) = (old \ Good(old)) \cup {e}
          /\ e \notin old \ Good(old)
      BY <2>2 DEF Good
    <3>2. Cardinality(new \ Good(new)) = Cardinality(old \ Good(old)) + 1
      BY <1>3, <3>1, FS_AddElement
    <3>3. s = candidate.successes /\ f = candidate.failures + 1  BY <2>2
    <3> QED  BY <1>4, <3>1, <3>2, <3>3
  <2> QED  BY <2>1, <2>2
<1> HIDE DEF new, s, f
<1> QED  BY <1>9, <1>10 DEF new

-----------------------------------------------------------------------------
\* A job that is somewhere is busy; the others stay where they are.
LEMMA OneJob ==
    ASSUME DOMAIN job = Jobs, NEW j \in Jobs, NEW r, job' = [job EXCEPT ![j] = r]
    PROVE  /\ DOMAIN job' = Jobs /\ job'[j] = r
           /\ \A i \in Jobs \ {j} : job'[i] = job[i]
           /\ Busy' \subseteq Busy \cup {j}
           /\ r = Idle => Busy' = Busy \ {j}
           /\ r # Idle => Busy' = Busy \cup {j}
  BY DEF Busy, Idle

\* What a state is when the steps of the procedure leave the episodes alone.
LEMMA TypeKept ==
    ASSUME IInv1, UNCHANGED <<episodes>>, disturbed' \in BOOLEAN,
           candidate' = candidate \/ (candidate' \in Procedures /\ candidate'.outcomes \subseteq DOMAIN episodes),
           candidate' # Missing =>
               /\ candidate'.successes = Cardinality(Good(candidate'.outcomes))
               /\ candidate'.failures = Cardinality(candidate'.outcomes \ Good(candidate'.outcomes)),
           NEW j \in Jobs, job[j] # Idle, NEW r, job' = [job EXCEPT ![j] = r], JobType(j)',
           \A k \in DOMAIN keys' : /\ k \in Nat
                                  /\ keys'[k].evidence \subseteq DOMAIN episodes
                                  /\ keys'[k].memory \in Nat \cup {Missing},
           IsFiniteSet(DOMAIN memories'), DOMAIN memories' \subseteq Nat
    PROVE  IInv1'
<1> USE DEF IInv1, TypeInv
<1>1. /\ DOMAIN job' = Jobs /\ \A i \in Jobs \ {j} : job'[i] = job[i]
      /\ Busy' \subseteq Busy \cup {j}
  BY OneJob
<1>2. j \in Busy  BY DEF Busy
<1>3. \A i \in Jobs : JobType(i)'  BY <1>1 DEF JobType
<1>4. candidate # Missing /\ candidate' # Missing  BY <1>2, ExperienceAssumption
<1>5. EpisodesCountOnce'  BY DEF EpisodesCountOnce, Good
<1> QED  BY <1>1, <1>3, <1>4, <1>5

\* A new memory has a number.
LEMMA FreshType == ASSUME IsFiniteSet(DOMAIN memories) PROVE FreshMemory \in Nat
  BY FS_CardinalityType DEF FreshMemory

LEMMA CountStep == IInv1 /\ [LearnNext]_learnVars => IInv1'
<1> SUFFICES ASSUME IInv1, [LearnNext]_learnVars PROVE IInv1'
  OBVIOUS
<1>t. /\ TypeInv /\ EpisodesCountOnce /\ DOMAIN job = Jobs
      /\ episodes \in Seq(BOOLEAN) /\ disturbed \in BOOLEAN
  BY DEF IInv1, TypeInv
<1>k. \A r \in DOMAIN keys : /\ r \in Nat
                            /\ keys[r].evidence \subseteq DOMAIN episodes
                            /\ keys[r].memory \in Nat \cup {Missing}
  BY <1>t DEF TypeInv
<1>m. IsFiniteSet(DOMAIN memories) /\ DOMAIN memories \subseteq Nat  BY <1>t DEF TypeInv
<1>b. ASSUME NEW j \in Jobs, job[j] # Idle
      PROVE  /\ candidate # Missing /\ candidate \in Procedures
             /\ candidate.outcomes \subseteq DOMAIN episodes
             /\ candidate.successes = Cardinality(Good(candidate.outcomes))
             /\ candidate.failures = Cardinality(candidate.outcomes \ Good(candidate.outcomes))
             /\ JobType(j)
  BY <1>t, <1>b DEF TypeInv, Busy, EpisodesCountOnce
<1>1. ASSUME NEW j \in Jobs, NEW e \in 1 .. EpisodeLimit, Observe(j, e) PROVE IInv1'
  <2>1. /\ episodes' \in Seq(BOOLEAN) /\ DOMAIN episodes \subseteq DOMAIN episodes' /\ e \in DOMAIN episodes'
        /\ \A d \in DOMAIN episodes : episodes'[d] = episodes[d]
    <3>1. CASE e \in DOMAIN episodes /\ UNCHANGED episodes  BY <1>t, <3>1
    <3>2. CASE e = Len(episodes) + 1 /\ \E b \in BOOLEAN : episodes' = Append(episodes, b)
      BY <1>t, <3>2, EpisodesKept
    <3> QED  BY <1>1, <3>1, <3>2 DEF Observe
  <2> DEFINE r == [pc |-> "outcome", episode |-> e]
             new == [state |-> "observed", outcomes |-> {}, successes |-> 0, failures |-> 0,
                     revision |-> 0, memory |-> Missing]
  <2>2. job' = [job EXCEPT ![j] = r]  BY <1>1 DEF Observe
  <2>3. DOMAIN job' = Jobs /\ job'[j] = r /\ \A i \in Jobs \ {j} : job'[i] = job[i]
    BY <1>t, <2>2, OneJob
  <2>4. \A i \in Jobs : JobType(i)'
    BY <1>t, <2>1, <2>3 DEF TypeInv, JobType
  <2>5. new \in Procedures  BY DEF Procedures, ProcedureStates
  <2>6. new # Missing  BY <2>5, ExperienceAssumption
  <2>7. \/ candidate # Missing /\ candidate' = candidate
        \/ candidate' = new
    BY <1>1 DEF Observe
  <2>8. /\ candidate' # Missing /\ candidate' \in Procedures
        /\ candidate'.outcomes \subseteq DOMAIN episodes'
    <3>1. CASE candidate # Missing /\ candidate' = candidate
      <4>1. candidate \in Procedures /\ candidate.outcomes \subseteq DOMAIN episodes
        BY <1>t, <3>1 DEF TypeInv
      <4> QED  BY <2>1, <3>1, <4>1
    <3>2. CASE candidate' = new
      <4>1. candidate'.outcomes = {}  BY <3>2
      <4> QED  BY <2>5, <2>6, <3>2, <4>1
    <3> QED  BY <2>7, <3>1, <3>2
  <2>9. EpisodesCountOnce'
    <3>1. CASE candidate # Missing /\ candidate' = candidate
      <4>1. candidate.outcomes \subseteq DOMAIN episodes  BY <1>t, <3>1 DEF TypeInv
      <4>2. Good(candidate.outcomes)' = Good(candidate.outcomes)
        BY <2>1, <3>1, <4>1 DEF Good
      <4> QED  BY <1>t, <3>1, <4>2 DEF EpisodesCountOnce
    <3>2. CASE candidate' = new
      <4>1. Good(candidate.outcomes)' = {} /\ candidate'.outcomes \ Good(candidate.outcomes)' = {}
        BY <3>2 DEF Good
      <4> QED  BY <3>2, <4>1, FS_EmptySet DEF EpisodesCountOnce
    <3> QED  BY <2>7, <3>1, <3>2
  <2>10. UNCHANGED <<keys, memories>> /\ disturbed' \in BOOLEAN
    BY <1>1 DEF Observe
  <2>11. \A k \in DOMAIN keys' : /\ k \in Nat
                                 /\ keys'[k].evidence \subseteq DOMAIN episodes'
                                 /\ keys'[k].memory \in Nat \cup {Missing}
    BY <1>k, <2>1, <2>10
  <2> QED  BY <1>m, <2>1, <2>3, <2>4, <2>8, <2>9, <2>10, <2>11 DEF IInv1, TypeInv
<1>2. ASSUME NEW j \in Jobs, ReadInitial(j) PROVE IInv1'
  <2>1. job[j] # Idle  BY <1>2 DEF ReadInitial, At, Idle
  <2>2. UNCHANGED <<candidate, keys, memories, episodes, disturbed>>  BY <1>2 DEF ReadInitial
  <2>3. CASE Ends(j)
    <3>1. JobType(j)'  BY <1>t, <2>3 DEF Ends, Idle, JobType
    <3> QED  BY <1>b, <1>k, <1>m, <1>t, <2>1, <2>2, <2>3, <3>1, TypeKept DEF Ends
  <2>4. CASE job' = [job EXCEPT ![j] = [pc |-> "mutate", episode |-> job[j].episode,
                                        initial |-> candidate.state]]
    <3>1. JobType(j)'  BY <1>b, <1>2, <1>t, <2>1, <2>2, <2>4 DEF JobType, ReadInitial, At
    <3> QED  BY <1>b, <1>k, <1>m, <1>t, <2>1, <2>2, <2>4, <3>1, TypeKept
  <2> QED  BY <1>2, <2>3, <2>4 DEF ReadInitial
<1>3. ASSUME NEW j \in Jobs, RecordOutcome(j) PROVE IInv1'
  <2>1. job[j] # Idle  BY <1>3 DEF RecordOutcome, At, Idle
  <2>2. UNCHANGED <<keys, memories, episodes, disturbed>>  BY <1>3 DEF RecordOutcome
  <2>3. job[j].episode \in DOMAIN episodes  BY <1>b, <1>3, <2>1 DEF RecordOutcome, At, JobType
  <2>4. \/ candidate' = candidate
        \/ candidate' = With(candidate, job[j].episode) /\ job[j].episode \notin candidate.outcomes
    BY <1>3 DEF RecordOutcome, Counted
  <2>5. /\ candidate' \in Procedures /\ candidate'.outcomes \subseteq DOMAIN episodes
        /\ candidate'.successes = Cardinality(Good(candidate'.outcomes))
        /\ candidate'.failures = Cardinality(candidate'.outcomes \ Good(candidate'.outcomes))
    <3>1. CASE candidate' = candidate  BY <1>b, <2>1, <2>2, <3>1 DEF Good
    <3>2. CASE candidate' = With(candidate, job[j].episode) /\ job[j].episode \notin candidate.outcomes
      <4>1. candidate # Missing /\ candidate.outcomes \subseteq DOMAIN episodes  BY <1>b, <2>1
      <4>2. /\ candidate' \in Procedures
            /\ candidate'.outcomes = candidate.outcomes \cup {job[j].episode}
            /\ candidate'.successes = Cardinality(Good(candidate'.outcomes))
            /\ candidate'.failures = Cardinality(candidate'.outcomes \ Good(candidate'.outcomes))
        BY <1>t, <2>3, <3>2, <4>1, OneMoreEpisode
      <4> QED  BY <2>3, <4>1, <4>2
    <3> QED  BY <2>4, <3>1, <3>2
  <2>6. PICK r : job' = [job EXCEPT ![j] = r] /\ r.pc \in {"notice", "tombstone", "qualify"}
    <3> DEFINE c == IF Counted(candidate, job[j].episode) THEN candidate
                    ELSE With(candidate, job[j].episode)
               next == CASE c.state = "degraded" /\ job[j].initial # "degraded" ->
                                [pc |-> "notice", revision |-> c.revision]
                         [] c.state = "retired" /\ job[j].initial # "retired" /\ c.memory # Missing ->
                                [pc |-> "tombstone", memory |-> c.memory]
                         [] OTHER -> [pc |-> "qualify"]
    <3>1. job' = [job EXCEPT ![j] = next]  BY <1>3 DEF RecordOutcome
    <3>2. next.pc \in {"notice", "tombstone", "qualify"}
      <4> HIDE DEF c
      <4> QED  OBVIOUS
    <3> QED  BY <3>1, <3>2
  <2>7. JobType(j)'  BY <1>t, <2>6 DEF JobType
  <2> QED  BY <1>k, <1>m, <1>t, <2>1, <2>2, <2>5, <2>6, <2>7, TypeKept
<1>4. ASSUME NEW j \in Jobs, Announce(j) PROVE IInv1'
  <2>1. job[j] # Idle  BY <1>4 DEF Announce, At, Idle
  <2>2. UNCHANGED <<candidate, keys, memories, episodes, disturbed>>  BY <1>4 DEF Announce
  <2>3. job' = [job EXCEPT ![j] = [pc |-> "qualify"]] /\ JobType(j)'
    BY <1>4, <1>t DEF Announce, Proceed, JobType
  <2> QED  BY <1>b, <1>k, <1>m, <1>t, <2>1, <2>2, <2>3, TypeKept
<1>5. ASSUME NEW j \in Jobs, Tombstone(j) PROVE IInv1'
  <2>1. job[j] # Idle  BY <1>5 DEF Tombstone, At, Idle
  <2>2. UNCHANGED <<candidate, keys, episodes, disturbed>> /\ DOMAIN memories' = DOMAIN memories
    BY <1>5 DEF Tombstone
  <2>3. job' = [job EXCEPT ![j] = [pc |-> "qualify"]] /\ JobType(j)'
    BY <1>5, <1>t DEF Tombstone, Proceed, JobType
  <2> QED  BY <1>b, <1>k, <1>m, <1>t, <2>1, <2>2, <2>3, TypeKept
<1>6. ASSUME NEW j \in Jobs, Qualify(j) PROVE IInv1'
  <2>1. job[j] # Idle  BY <1>6 DEF Qualify, At, Idle
  <2>2. UNCHANGED <<keys, memories, episodes, disturbed>>  BY <1>6 DEF Qualify
  <2>3. CASE candidate' = [candidate EXCEPT !.state = "qualified"] /\ Proceed(j, "promote")
    <3>1. /\ candidate' \in Procedures /\ candidate'.outcomes = candidate.outcomes
          /\ candidate'.successes = candidate.successes /\ candidate'.failures = candidate.failures
      BY <1>b, <2>1, <2>3 DEF Procedures, ProcedureStates
    <3>2. job' = [job EXCEPT ![j] = [pc |-> "promote"]] /\ JobType(j)'
      BY <1>t, <2>3 DEF Proceed, JobType
    <3> QED  BY <1>b, <1>k, <1>m, <1>t, <2>1, <2>2, <3>1, <3>2, TypeKept
  <2>4. CASE UNCHANGED candidate /\ Ends(j)
    <3>1. job' = [job EXCEPT ![j] = Idle] /\ JobType(j)'  BY <1>t, <2>4 DEF Ends, Idle, JobType
    <3> QED  BY <1>b, <1>k, <1>m, <1>t, <2>1, <2>2, <2>4, <3>1, TypeKept
  <2> QED  BY <1>6, <2>3, <2>4 DEF Qualify
<1>7. ASSUME NEW j \in Jobs, ReadQualified(j) PROVE IInv1'
  <2>1. job[j] # Idle  BY <1>7 DEF ReadQualified, At, Idle
  <2>2. UNCHANGED <<candidate, keys, memories, episodes, disturbed>>  BY <1>7 DEF ReadQualified
  <2>3. CASE job' = [job EXCEPT ![j] = [pc |-> "commit", evidence |-> candidate.outcomes,
                                        revision |-> candidate.revision + 1]]
    <3>1. candidate.revision + 1 \in Nat  BY <1>b, <2>1 DEF Procedures
    <3>2. JobType(j)'  BY <1>b, <1>t, <2>1, <2>2, <2>3, <3>1 DEF JobType
    <3> QED  BY <1>b, <1>k, <1>m, <1>t, <2>1, <2>2, <2>3, <3>2, TypeKept
  <2>4. CASE Ends(j)
    <3>1. job' = [job EXCEPT ![j] = Idle] /\ JobType(j)'  BY <1>t, <2>4 DEF Ends, Idle, JobType
    <3> QED  BY <1>b, <1>k, <1>m, <1>t, <2>1, <2>2, <3>1, TypeKept
  <2> QED  BY <1>7, <2>3, <2>4 DEF ReadQualified
<1>8. ASSUME NEW j \in Jobs, CommitProcedure(j) PROVE IInv1'
  <2>1. job[j] # Idle  BY <1>8 DEF CommitProcedure, At, Idle
  <2>2. UNCHANGED <<candidate, episodes, disturbed>>  BY <1>8 DEF CommitProcedure
  <2>3. job[j].revision \in Nat /\ job[j].evidence \subseteq DOMAIN episodes
    BY <1>8, <1>b, <2>1 DEF CommitProcedure, At, JobType
  <2>4. PICK m \in Nat \cup {Missing} :
            /\ job' = [job EXCEPT ![j] = [pc |-> "settle", revision |-> job[j].revision, memory |-> m]]
            /\ \/ UNCHANGED keys
               \/ keys' = Plus(keys, job[j].revision, [evidence |-> job[j].evidence, memory |-> m])
            /\ \/ UNCHANGED memories
               \/ m = FreshMemory /\ memories' = Plus(memories, m, "active")
    BY <1>8, <1>k, <1>m, FreshType DEF CommitProcedure, Served
  <2>5. JobType(j)'  BY <1>t, <2>3, <2>4 DEF JobType
  <2>6. \A k \in DOMAIN keys' : /\ k \in Nat
                                /\ keys'[k].evidence \subseteq DOMAIN episodes
                                /\ keys'[k].memory \in Nat \cup {Missing}
    BY <1>k, <2>3, <2>4 DEF Plus
  <2>7. IsFiniteSet(DOMAIN memories') /\ DOMAIN memories' \subseteq Nat
    <3>1. CASE UNCHANGED memories  BY <1>m, <3>1
    <3>2. CASE m = FreshMemory /\ memories' = Plus(memories, m, "active")
      <4>1. DOMAIN memories' = DOMAIN memories \cup {m}  BY <3>2 DEF Plus
      <4>2. m \in Nat  BY <1>m, <3>2, FreshType
      <4> QED  BY <1>m, <4>1, <4>2, FS_AddElement
    <3> QED  BY <2>4, <3>1, <3>2
  <2> QED  BY <1>b, <1>t, <2>1, <2>2, <2>4, <2>5, <2>6, <2>7, TypeKept
<1>9. ASSUME NEW j \in Jobs, Settle(j) PROVE IInv1'
  <2>1. job[j] # Idle  BY <1>9 DEF Settle, At, Idle
  <2>2. UNCHANGED <<keys, memories, episodes, disturbed>>  BY <1>9 DEF Settle
  <2>3. job[j].revision \in Nat /\ job[j].memory \in Nat \cup {Missing}
    BY <1>9, <1>b, <2>1 DEF Settle, At, JobType
  <2>4. /\ candidate' \in Procedures /\ candidate'.outcomes = candidate.outcomes
        /\ candidate'.successes = candidate.successes /\ candidate'.failures = candidate.failures
    BY <1>9, <1>b, <2>1, <2>3 DEF Settle, Procedures, ProcedureStates
  <2>5. job' = [job EXCEPT ![j] = Idle] /\ JobType(j)'
    BY <1>9, <1>t DEF Settle, Ends, Idle, JobType
  <2> QED  BY <1>b, <1>k, <1>m, <1>t, <2>1, <2>2, <2>4, <2>5, TypeKept
<1>10. ASSUME NEW j \in Jobs, Cut(j) PROVE IInv1'
  <2>1. job[j] # Idle  BY <1>10 DEF Cut
  <2>2. UNCHANGED <<candidate, keys, memories, episodes>> /\ disturbed' \in BOOLEAN  BY <1>10 DEF Cut
  <2>3. job' = [job EXCEPT ![j] = Idle] /\ JobType(j)'
    BY <1>10, <1>t DEF Cut, Ends, Idle, JobType
  <2> QED  BY <1>b, <1>k, <1>m, <1>t, <2>1, <2>2, <2>3, TypeKept
<1>11. CASE UNCHANGED learnVars
  <2>1. TypeInv'  BY <1>t, <1>11 DEF TypeInv, learnVars, Busy, JobType
  <2>2. EpisodesCountOnce'  BY <1>t, <1>11 DEF EpisodesCountOnce, learnVars, Good
  <2> QED  BY <2>1, <2>2 DEF IInv1
<1> QED
  BY <1>1, <1>2, <1>3, <1>4, <1>5, <1>6, <1>7, <1>8, <1>9, <1>10, <1>11 DEF LearnNext

-----------------------------------------------------------------------------
\* One step of the only job under way.
LEMMA OnlyJob ==
    ASSUME Serial, DOMAIN job = Jobs, NEW j \in Jobs, job[j] # Idle,
           NEW r, job' = [job EXCEPT ![j] = r], candidate' # Missing,
           r = Idle => Rests', r # Idle => Turned(j)'
    PROVE  Serial'
<1>1. j \in Busy /\ \A i \in Busy : i = j  BY DEF Serial, Busy
<1>2. \A i \in Busy' : i = j /\ r # Idle
  <2>1. Busy' \subseteq Busy \cup {j} /\ (r = Idle => Busy' = Busy \ {j})  BY OneJob
  <2> QED  BY <1>1, <2>1
<1>3. Busy' = {} => r = Idle  BY OneJob
<1>4. \A i \in Busy' : Turned(i)'
  <2> SUFFICES ASSUME NEW i \in Busy' PROVE Turned(i)'
    OBVIOUS
  <2>1. i = j /\ r # Idle  BY <1>2
  <2> QED  BY <2>1
<1> QED  BY <1>2, <1>3, <1>4 DEF Serial

\* What qualifies has been earned.
LEMMA QualifiedIsEarned ==
    ASSUME IInv1, candidate # Missing, Enough(candidate), Reaches(candidate, 0)
    PROVE  Earned(candidate.outcomes)
<1> DEFINE S == candidate.outcomes
           n == Cardinality(S)
           g == Cardinality(Good(S))
           b == Cardinality(S \ Good(S))
<1>1. S \subseteq DOMAIN episodes /\ episodes \in Seq(BOOLEAN)  BY DEF IInv1, TypeInv
<1>2. n \in Nat /\ g \in Nat /\ b \in Nat /\ n = g + b  BY <1>1, EpisodesFinite
<1>3. candidate.successes = g /\ candidate.failures = b  BY DEF IInv1, EpisodesCountOnce
<1>4. n >= MinimumOutcomes  BY DEF Enough
<1>5. 100 * (1 + g) >= (MinimumPercent - 0) * (2 + g + b)  BY <1>3 DEF Reaches
<1> HIDE DEF n, g, b
<1>6. MinimumPercent - 0 = MinimumPercent /\ 2 + g + b = 2 + n  BY <1>2, ExperienceAssumption
<1>7. 100 * (1 + g) >= MinimumPercent * (2 + n)  BY <1>5, <1>6
<1> QED  BY <1>4, <1>7 DEF Earned, n, g

\* Episodes that are over stay what they were, so what was earned stays earned.
LEMMA EarnedStays ==
    ASSUME NEW S, S \subseteq DOMAIN episodes, \A e \in DOMAIN episodes : episodes'[e] = episodes[e]
    PROVE  Earned(S)' = Earned(S)
<1>1. Good(S)' = Good(S)  BY DEF Good
<1> QED  BY <1>1 DEF Earned

LEMMA ServedStep ==
    IInv1 /\ IInv1' /\ ServedInv /\ [LearnNext]_learnVars => ServedInv'
<1> SUFFICES ASSUME IInv1, IInv1', ServedInv, [LearnNext]_learnVars PROVE ServedInv'
  OBVIOUS
<1>t. /\ TypeInv /\ TypeInv' /\ DOMAIN job = Jobs /\ episodes \in Seq(BOOLEAN)
      /\ \A r \in DOMAIN keys : r \in Nat /\ keys[r].evidence \subseteq DOMAIN episodes
      /\ DOMAIN memories \subseteq Nat /\ IsFiniteSet(DOMAIN memories)
  BY DEF IInv1, TypeInv
<1>o. \A m, n \in Served : m = n  BY DEF ServedInv
<1>s. ~disturbed => Serial /\ \A r \in DOMAIN keys : Earned(keys[r].evidence)  BY DEF ServedInv
<1>b. ASSUME NEW j \in Jobs, job[j] # Idle
      PROVE  /\ candidate # Missing /\ candidate \in Procedures
             /\ JobType(j) /\ (~disturbed => Turned(j))
  <2>1. j \in Busy /\ candidate # Missing /\ JobType(j)  BY <1>t, <1>b DEF TypeInv, Busy
  <2>2. candidate \in Procedures  BY <1>t, <2>1 DEF TypeInv
  <2> QED  BY <1>s, <2>1, <2>2 DEF Serial
<1>c. ASSUME NEW j \in Jobs, NEW r, job' = [job EXCEPT ![j] = r], job[j] # Idle,
             UNCHANGED <<episodes, disturbed>>,
             candidate' = candidate \/ candidate' \in Procedures,
             \A m, n \in Served' : m = n,
             ~disturbed => \A k \in DOMAIN keys' : Earned(keys'[k].evidence),
             ~disturbed => (r = Idle => Rests') /\ (r # Idle => Turned(j)')
      PROVE  ServedInv'
  <2>1. candidate' # Missing  BY <1>b, <1>c, ExperienceAssumption
  <2>2. ~disturbed => Serial'  BY <1>c, <1>s, <1>t, <2>1, OnlyJob
  <2>3. \A S : Earned(S)' <=> Earned(S)  BY <1>c DEF Earned, Good
  <2> QED  BY <1>c, <2>2, <2>3 DEF ServedInv
<1>1. ASSUME NEW j \in Jobs, NEW e \in 1 .. EpisodeLimit, Observe(j, e) PROVE ServedInv'
  <2> DEFINE r == [pc |-> "outcome", episode |-> e]
             new == [state |-> "observed", outcomes |-> {}, successes |-> 0, failures |-> 0,
                     revision |-> 0, memory |-> Missing]
  <2>1. /\ UNCHANGED <<keys, memories, notices>> /\ Served' = Served
        /\ job' = [job EXCEPT ![j] = r] /\ job[j] = Idle
        /\ disturbed' = (disturbed \/ Busy # {})
    BY <1>1 DEF Observe, Served
  <2>2. \A d \in DOMAIN episodes : episodes'[d] = episodes[d]
    <3>1. CASE UNCHANGED episodes  BY <3>1
    <3>2. CASE \E b \in BOOLEAN : episodes' = Append(episodes, b)  BY <1>t, <3>2, EpisodesKept
    <3> QED  BY <1>1, <3>1, <3>2 DEF Observe
  <2>3. SUFFICES ASSUME ~disturbed'
                 PROVE  Serial' /\ \A k \in DOMAIN keys : Earned(keys[k].evidence)'
    BY <1>o, <2>1 DEF ServedInv
  <2>4. ~disturbed /\ Busy = {} /\ Serial  BY <1>s, <2>1, <2>3
  <2>5. \A k \in DOMAIN keys : Earned(keys[k].evidence)'
    <3> SUFFICES ASSUME NEW k \in DOMAIN keys PROVE Earned(keys[k].evidence)'
      OBVIOUS
    <3>1. keys[k].evidence \subseteq DOMAIN episodes /\ keys'[k].evidence = keys[k].evidence
      BY <1>t, <2>1
    <3>2. Good(keys[k].evidence)' = Good(keys[k].evidence)  BY <2>2, <3>1 DEF Good
    <3>3. Earned(keys[k].evidence)  BY <1>s, <2>4
    <3> QED  BY <3>1, <3>2, <3>3 DEF Earned
  <2>6. candidate' # Missing /\ Rests'
    <3>1. CASE candidate # Missing /\ candidate' = candidate
      <4>1. Rests  BY <2>4, <3>1 DEF Serial
      <4> QED  BY <2>1, <3>1, <4>1 DEF Rests, Known
    <3>2. CASE candidate = Missing /\ candidate' = new
      <4>1. Served = {} /\ DOMAIN keys = {}  BY <2>4, <3>2 DEF Serial
      <4>2. new \in Procedures  BY DEF Procedures, ProcedureStates
      <4>3. candidate' # Missing  BY <3>2, <4>2, ExperienceAssumption
      <4>4. candidate'.state = "observed"  BY <3>2
      <4> QED  BY <2>1, <4>1, <4>3, <4>4 DEF Rests, Known
    <3> QED  BY <1>1, <3>1, <3>2 DEF Observe
  <2>7. Busy' = {j} /\ job'[j] = r
    <3>1. r # Idle  BY DEF Idle
    <3>2. Busy' = Busy \cup {j} /\ job'[j] = r  BY <1>t, <2>1, <3>1, OneJob
    <3> QED  BY <2>4, <3>2
  <2>8. Turned(j)'  BY <2>6, <2>7 DEF Turned, At
  <2> QED  BY <2>5, <2>6, <2>7, <2>8 DEF Serial
<1>2. ASSUME NEW j \in Jobs, ReadInitial(j) PROVE ServedInv'
  <2>1. job[j] # Idle /\ At(j, "outcome")  BY <1>2 DEF ReadInitial, At, Idle
  <2>2. /\ UNCHANGED <<candidate, keys, memories, notices, episodes, disturbed>>
        /\ Served' = Served
    BY <1>2 DEF ReadInitial, Served
  <2>3. ~disturbed => Rests'
    <3>1. ~disturbed => Rests  BY <1>b, <2>1 DEF Turned
    <3> QED  BY <2>2, <3>1 DEF Rests, Known
  <2>4. CASE Ends(j)
    <3>1. job' = [job EXCEPT ![j] = Idle]  BY <2>4 DEF Ends
    <3> QED  BY <1>c, <1>o, <1>s, <2>1, <2>2, <2>3, <3>1
  <2>5. CASE job' = [job EXCEPT ![j] = [pc |-> "mutate", episode |-> job[j].episode,
                                        initial |-> candidate.state]]
    <3>1. ~disturbed => Turned(j)'  BY <1>t, <2>2, <2>3, <2>5 DEF Turned, At
    <3>2. [pc |-> "mutate", episode |-> job[j].episode, initial |-> candidate.state] # Idle
      BY DEF Idle
    <3> QED  BY <1>c, <1>o, <1>s, <2>1, <2>2, <2>5, <3>1, <3>2
  <2> QED  BY <1>2, <2>4, <2>5 DEF ReadInitial
<1>3. ASSUME NEW j \in Jobs, RecordOutcome(j) PROVE ServedInv'
  <2> DEFINE e == job[j].episode
             c == IF Counted(candidate, e) THEN candidate ELSE With(candidate, e)
             r == CASE c.state = "degraded" /\ job[j].initial # "degraded" ->
                           [pc |-> "notice", revision |-> c.revision]
                    [] c.state = "retired" /\ job[j].initial # "retired" /\ c.memory # Missing ->
                           [pc |-> "tombstone", memory |-> c.memory]
                    [] OTHER -> [pc |-> "qualify"]
  <2>1. job[j] # Idle /\ At(j, "mutate")  BY <1>3 DEF RecordOutcome, At, Idle
  <2>2. /\ UNCHANGED <<keys, memories, notices, episodes, disturbed>> /\ Served' = Served
        /\ candidate' = c /\ job' = [job EXCEPT ![j] = r]
    BY <1>3 DEF RecordOutcome, Served
  <2>3. e \in DOMAIN episodes  BY <1>b, <2>1 DEF At, JobType
  <2>4. c \in Procedures /\ c.revision = candidate.revision /\ c.memory = candidate.memory
    <3>1. CASE Counted(candidate, e)  BY <1>b, <2>1, <3>1
    <3>2. CASE ~Counted(candidate, e)
      BY <1>b, <1>t, <2>1, <2>3, <3>2, OneMoreEpisode DEF Counted, IInv1
    <3> QED  BY <3>1, <3>2
  <2>5. c.state = candidate.state \/ c.state # "promoted"
    <3>1. CASE Counted(candidate, e)  BY <3>1
    <3>2. CASE ~Counted(candidate, e)
      <4> DEFINE added == [candidate EXCEPT !.outcomes = @ \cup {e},
                             !.successes = IF episodes[e] THEN @ + 1 ELSE @,
                             !.failures = IF episodes[e] THEN @ ELSE @ + 1]
      <4>1. c = [added EXCEPT !.state = StateAfter(added)] /\ added.state = candidate.state
        BY <1>b, <2>1, <3>2 DEF With, Procedures
      <4>2. StateAfter(added) = added.state \/ StateAfter(added) # "promoted"
        <5> HIDE DEF added
        <5> QED  BY DEF StateAfter
      <4>3. "state" \in DOMAIN added  BY <1>b, <2>1 DEF Procedures
      <4> HIDE DEF added, c
      <4>4. c.state = StateAfter(added)  BY <4>1, <4>3
      <4> QED  BY <4>1, <4>2, <4>4
    <3> QED  BY <3>1, <3>2
  <2> HIDE DEF c, e
  <2>6. ~disturbed => Rests /\ job[j].initial = candidate.state /\ Known'
    <3>1. ~disturbed => Rests /\ job[j].initial = candidate.state  BY <1>b, <2>1 DEF Turned
    <3> QED  BY <2>2, <2>4, <3>1 DEF Rests, Known
  <2>7. CASE c.state = "degraded" /\ job[j].initial # "degraded"
    <3>1. r = [pc |-> "notice", revision |-> c.revision]  BY <2>7
    <3>2. r # Idle /\ r.pc = "notice" /\ r.revision = c.revision  BY <3>1 DEF Idle
    <3> HIDE DEF r
    <3>3. ~disturbed => Turned(j)'  BY <1>t, <2>2, <2>6, <2>7, <3>2 DEF Turned, At
    <3> QED  BY <1>c, <1>o, <1>s, <2>1, <2>2, <2>4, <3>2, <3>3
  <2>8. CASE c.state = "retired" /\ job[j].initial # "retired" /\ c.memory # Missing
    <3>1. r = [pc |-> "tombstone", memory |-> c.memory]  BY <2>8
    <3>2. r # Idle /\ r.pc = "tombstone" /\ r.memory = c.memory  BY <3>1 DEF Idle
    <3> HIDE DEF r
    <3>3. ~disturbed => Turned(j)'  BY <1>t, <2>2, <2>6, <2>8, <3>2 DEF Turned, At
    <3> QED  BY <1>c, <1>o, <1>s, <2>1, <2>2, <2>4, <3>2, <3>3
  <2>9. CASE /\ ~(c.state = "degraded" /\ job[j].initial # "degraded")
             /\ ~(c.state = "retired" /\ job[j].initial # "retired" /\ c.memory # Missing)
    <3>1. r = [pc |-> "qualify"]  BY <2>9
    <3>2. r # Idle /\ r.pc = "qualify"  BY <3>1 DEF Idle
    <3> HIDE DEF r
    <3>3. ~disturbed => Rests'
      <4> SUFFICES ASSUME ~disturbed PROVE Rests'
        OBVIOUS
      <4>1. Rests /\ job[j].initial = candidate.state /\ Known'  BY <2>6
      <4>2. c.state = "retired" => Served = {}
        <5>1. CASE c.memory = Missing
          <6>1. Served \subseteq {Missing}  BY <2>4, <4>1, <5>1 DEF Rests, Known
          <6>2. Served \subseteq Nat  BY <1>t DEF Served
          <6> QED  BY <6>1, <6>2, ExperienceAssumption
        <5>2. CASE job[j].initial = "retired"  BY <4>1, <5>2 DEF Rests
        <5> QED  BY <2>9, <5>1, <5>2
      <4>3. c.state = "promoted" => c.memory \in Served  BY <2>4, <2>5, <4>1 DEF Rests
      <4>4. c.state = "degraded" => c.revision \in notices  BY <2>4, <2>9, <4>1 DEF Rests
      <4> QED  BY <2>2, <4>1, <4>2, <4>3, <4>4 DEF Rests
    <3>4. ~disturbed => Turned(j)'  BY <1>t, <2>2, <3>2, <3>3 DEF Turned, At
    <3> QED  BY <1>c, <1>o, <1>s, <2>1, <2>2, <2>4, <3>2, <3>4
  <2> QED  BY <2>7, <2>8, <2>9
<1>4. ASSUME NEW j \in Jobs, Announce(j) PROVE ServedInv'
  <2> DEFINE r == [pc |-> "qualify"]
  <2>1. job[j] # Idle /\ At(j, "notice") /\ r # Idle  BY <1>4 DEF Announce, At, Idle
  <2>2. /\ UNCHANGED <<candidate, keys, memories, episodes, disturbed>> /\ Served' = Served
        /\ notices' = notices \cup {job[j].revision} /\ job' = [job EXCEPT ![j] = r]
    BY <1>4 DEF Announce, Proceed, Served
  <2>3. ~disturbed => Known /\ candidate.state = "degraded" /\ job[j].revision = candidate.revision
    BY <1>b, <2>1 DEF Turned
  <2>4. ~disturbed => Rests'  BY <2>2, <2>3 DEF Rests, Known
  <2>5. ~disturbed => Turned(j)'  BY <1>t, <2>2, <2>4 DEF Turned, At
  <2> QED  BY <1>c, <1>o, <1>s, <2>1, <2>2, <2>5
<1>5. ASSUME NEW j \in Jobs, Tombstone(j) PROVE ServedInv'
  <2> DEFINE r == [pc |-> "qualify"]
  <2>1. job[j] # Idle /\ At(j, "tombstone") /\ r # Idle  BY <1>5 DEF Tombstone, At, Idle
  <2>2. /\ UNCHANGED <<candidate, keys, notices, episodes, disturbed>>
        /\ Served' = Served \ {job[j].memory} /\ job' = [job EXCEPT ![j] = r]
    BY <1>5 DEF Tombstone, Proceed, Served
  <2>3. ~disturbed => Known /\ candidate.state = "retired" /\ job[j].memory = candidate.memory
    BY <1>b, <2>1 DEF Turned
  <2>4. ~disturbed => Rests'  BY <2>2, <2>3 DEF Rests, Known
  <2>5. ~disturbed => Turned(j)'  BY <1>t, <2>2, <2>4 DEF Turned, At
  <2> QED  BY <1>c, <1>o, <1>s, <2>1, <2>2, <2>5
<1>6. ASSUME NEW j \in Jobs, Qualify(j) PROVE ServedInv'
  <2> DEFINE r == [pc |-> "promote"]
  <2>1. job[j] # Idle /\ At(j, "qualify") /\ r # Idle  BY <1>6 DEF Qualify, At, Idle
  <2>2. UNCHANGED <<keys, memories, notices, episodes, disturbed>> /\ Served' = Served
    BY <1>6 DEF Qualify, Served
  <2>3. ~disturbed => Rests  BY <1>b, <2>1 DEF Turned
  <2>4. CASE Qualifies(candidate) /\ candidate' = [candidate EXCEPT !.state = "qualified"] /\ Proceed(j, "promote")
    <3>1. /\ candidate' \in Procedures /\ candidate'.outcomes = candidate.outcomes
          /\ candidate'.state = "qualified" /\ candidate'.revision = candidate.revision
          /\ candidate'.memory = candidate.memory
      BY <1>b, <2>1, <2>4 DEF Procedures, ProcedureStates
    <3>2. Earned(candidate.outcomes)  BY <1>b, <2>1, <2>4, QualifiedIsEarned DEF Qualifies
    <3>3. Earned(candidate.outcomes)'  BY <2>2, <3>1, <3>2 DEF Earned, Good
    <3>4. ~disturbed => Known'  BY <2>2, <2>3, <3>1 DEF Rests, Known
    <3>5. job' = [job EXCEPT ![j] = r]  BY <2>4 DEF Proceed
    <3>6. ~disturbed => Turned(j)'  BY <1>t, <3>1, <3>3, <3>4, <3>5 DEF Turned, At
    <3> QED  BY <1>c, <1>o, <1>s, <2>1, <2>2, <3>1, <3>5, <3>6
  <2>5. CASE UNCHANGED candidate /\ Ends(j)
    <3>1. job' = [job EXCEPT ![j] = Idle]  BY <2>5 DEF Ends
    <3>2. ~disturbed => Rests'  BY <2>2, <2>3, <2>5 DEF Rests, Known
    <3> QED  BY <1>c, <1>o, <1>s, <2>1, <2>2, <2>5, <3>1, <3>2
  <2> QED  BY <1>6, <2>4, <2>5 DEF Qualify
<1>7. ASSUME NEW j \in Jobs, ReadQualified(j) PROVE ServedInv'
  <2> DEFINE r == [pc |-> "commit", evidence |-> candidate.outcomes, revision |-> candidate.revision + 1]
  <2>1. job[j] # Idle /\ At(j, "promote") /\ r # Idle  BY <1>7 DEF ReadQualified, At, Idle
  <2>2. /\ UNCHANGED <<candidate, keys, memories, notices, episodes, disturbed>>
        /\ Served' = Served
    BY <1>7 DEF ReadQualified, Served
  <2>3. ~disturbed => Known /\ candidate.state = "qualified" /\ Earned(candidate.outcomes)
    BY <1>b, <2>1 DEF Turned
  <2>4. ~disturbed => Known'  BY <2>2, <2>3 DEF Known
  <2>5. CASE job' = [job EXCEPT ![j] = r]
    <3>1. job'[j] = r /\ r.pc = "commit" /\ r.evidence = candidate.outcomes
          /\ r.revision = candidate.revision + 1
      BY <1>t, <2>5
    <3> HIDE DEF r
    <3>2. ~disturbed => Turned(j)'  BY <2>2, <2>3, <2>4, <3>1 DEF Turned, At, Earned, Good
    <3> QED  BY <1>c, <1>o, <1>s, <2>1, <2>2, <2>5, <3>2
  <2>6. CASE Ends(j) /\ candidate.state \notin {"qualified", "degraded"}
    <3>1. job' = [job EXCEPT ![j] = Idle]  BY <2>6 DEF Ends
    <3> QED  BY <1>c, <1>o, <1>s, <2>1, <2>2, <2>3, <2>6, <3>1
  <2> QED  BY <1>7, <2>5, <2>6 DEF ReadQualified
<1>8. ASSUME NEW j \in Jobs, CommitProcedure(j) PROVE ServedInv'
  <2> DEFINE k == job[j].revision
             E == job[j].evidence
             r(m) == [pc |-> "settle", revision |-> k, memory |-> m]
  <2>1. job[j] # Idle /\ At(j, "commit")  BY <1>8 DEF CommitProcedure, At, Idle
  <2>2. UNCHANGED <<candidate, notices, episodes, disturbed>>  BY <1>8 DEF CommitProcedure
  <2>3. candidate.revision \in Nat /\ k \in Nat  BY <1>b, <2>1 DEF Procedures, JobType, At
  <2>4. ~disturbed => /\ Served \subseteq {candidate.memory} /\ Earned(E)
                      /\ k \notin DOMAIN keys /\ \A x \in DOMAIN keys : x <= k
    <3>1. ~disturbed => Known /\ Earned(E) /\ k = candidate.revision + 1
      BY <1>b, <2>1 DEF Turned
    <3> HIDE DEF k
    <3>2. k = candidate.revision + 1 /\ Known => \A x \in DOMAIN keys : x <= k /\ x # k
      BY <1>t, <2>3 DEF Known
    <3> QED  BY <3>1, <3>2 DEF Known
  <2>5. \A m : r(m) # Idle  BY <2>3 DEF Idle
  <2>6. ASSUME NEW m, job' = [job EXCEPT ![j] = r(m)],
               keys' = Plus(keys, k, [evidence |-> E, memory |-> m]),
               \A x, y \in Served' : x = y,
               IF m = Missing THEN Served' = Served ELSE Served' = {m}
        PROVE  ServedInv'
    <3>1. DOMAIN keys' = DOMAIN keys \cup {k}
      BY <2>6 DEF Plus
    <3>2. keys'[k].evidence = E /\ \A x \in DOMAIN keys \ {k} : keys'[x] = keys[x]
      BY <2>6 DEF Plus
    <3>3. ~disturbed => \A x \in DOMAIN keys' : Earned(keys'[x].evidence)
      <4> SUFFICES ASSUME ~disturbed, NEW x \in DOMAIN keys' PROVE Earned(keys'[x].evidence)
        OBVIOUS
      <4>1. CASE x = k  BY <2>4, <3>2, <4>1
      <4>2. CASE x # k
        <5>1. x \in DOMAIN keys /\ keys'[x] = keys[x]  BY <3>1, <3>2, <4>2
        <5> QED  BY <1>s, <5>1
      <4> QED  BY <4>1, <4>2
    <3>4. /\ job'[j].pc = "settle" /\ job'[j].revision = k /\ job'[j].memory = m
      BY <1>t, <2>6
    <3> HIDE DEF k, E, r
    <3>5. ~disturbed => \A x \in DOMAIN keys' : x <= k  BY <2>3, <2>4, <3>1
    <3>6. ~disturbed => IF m = Missing THEN Served' \subseteq {candidate'.memory} ELSE Served' = {m}
      BY <2>2, <2>4, <2>6
    <3>7. ~disturbed => Turned(j)'  BY <3>4, <3>5, <3>6 DEF Turned, At
    <3> QED  BY <1>c, <2>1, <2>2, <2>5, <2>6, <3>3, <3>7
  <2>7. CASE k \in DOMAIN keys /\ UNCHANGED <<keys, memories>> /\ job' = [job EXCEPT ![j] = r(keys[k].memory)]
    <3>1. disturbed  BY <1>t, <2>4, <2>7 DEF TypeInv
    <3>2. Served' = Served  BY <2>7 DEF Served
    <3> HIDE DEF k, E, r
    <3> QED  BY <1>c, <1>o, <2>1, <2>2, <2>7, <3>1, <3>2
  <2>8. CASE /\ UNCHANGED memories
             /\ \E m \in Served : /\ keys' = Plus(keys, k, [evidence |-> E, memory |-> m])
                                 /\ job' = [job EXCEPT ![j] = r(m)]
    <3>1. PICK m \in Served : /\ keys' = Plus(keys, k, [evidence |-> E, memory |-> m])
                              /\ job' = [job EXCEPT ![j] = r(m)]
      BY <2>8
    <3>2. Served' = Served /\ Served = {m} /\ m \in Nat  BY <1>o, <1>t, <2>8 DEF Served
    <3>3. m # Missing  BY <3>2, ExperienceAssumption
    <3> HIDE DEF k, E, r
    <3> QED  BY <2>6, <3>1, <3>2, <3>3
  <2>9. CASE /\ Served = {} /\ memories' = Plus(memories, FreshMemory, "active")
             /\ keys' = Plus(keys, k, [evidence |-> E, memory |-> FreshMemory])
             /\ job' = [job EXCEPT ![j] = r(FreshMemory)]
    <3>1. FreshMemory # Missing  BY <1>t, FreshType, ExperienceAssumption
    <3>2. Served' = {FreshMemory}
      <4>1. DOMAIN memories' = DOMAIN memories \cup {FreshMemory}  BY <2>9 DEF Plus
      <4>2. memories'[FreshMemory] = "active" /\ \A x \in DOMAIN memories \ {FreshMemory} : memories'[x] = memories[x]
        BY <2>9 DEF Plus
      <4>3. \A x \in DOMAIN memories : memories[x] # "active"  BY <2>9 DEF Served
      <4> QED  BY <4>1, <4>2, <4>3 DEF Served
    <3> HIDE DEF k, E, r
    <3> QED  BY <2>6, <2>9, <3>1, <3>2
  <2>10. CASE /\ UNCHANGED memories
              /\ keys' = Plus(keys, k, [evidence |-> E, memory |-> Missing])
              /\ job' = [job EXCEPT ![j] = r(Missing)]
    <3>1. Served' = Served  BY <2>10 DEF Served
    <3> HIDE DEF k, E, r
    <3> QED  BY <1>o, <2>6, <2>10, <3>1
  <2> QED  BY <1>8, <2>7, <2>8, <2>9, <2>10 DEF CommitProcedure
<1>9. ASSUME NEW j \in Jobs, Settle(j) PROVE ServedInv'
  <2>1. job[j] # Idle /\ At(j, "settle")  BY <1>9 DEF Settle, At, Idle
  <2>2. /\ UNCHANGED <<keys, memories, notices, episodes, disturbed>> /\ Served' = Served
        /\ job' = [job EXCEPT ![j] = Idle]
    BY <1>9 DEF Settle, Ends, Served
  <2>3. job[j].revision \in Nat /\ job[j].memory \in Nat \cup {Missing}
    BY <1>b, <2>1 DEF At, JobType
  <2>4. /\ candidate' \in Procedures /\ candidate'.revision = job[j].revision
        /\ candidate'.state = IF job[j].memory = Missing THEN "rejected" ELSE "promoted"
        /\ candidate'.memory = IF job[j].memory = Missing THEN candidate.memory ELSE job[j].memory
    BY <1>9, <1>b, <2>1, <2>3 DEF Settle, Procedures, ProcedureStates
  <2>5. ~disturbed => /\ \A k \in DOMAIN keys : k <= job[j].revision
                      /\ IF job[j].memory = Missing THEN Served \subseteq {candidate.memory}
                         ELSE Served = {job[j].memory}
    BY <1>b, <2>1 DEF Turned
  <2>6. ~disturbed => Rests'  BY <2>2, <2>4, <2>5 DEF Rests, Known
  <2> QED  BY <1>c, <1>o, <1>s, <2>1, <2>2, <2>4, <2>6
<1>10. ASSUME NEW j \in Jobs, Cut(j) PROVE ServedInv'
  <2>1. disturbed' /\ Served' = Served  BY <1>10 DEF Cut, Served
  <2> QED  BY <1>o, <2>1 DEF ServedInv
<1>11. CASE UNCHANGED learnVars
  <2>1. /\ UNCHANGED <<candidate, job, keys, memories, notices, episodes, disturbed>>
        /\ Served' = Served /\ Busy' = Busy
    BY <1>11 DEF learnVars, Served, Busy
  <2>2. Rests' = Rests  BY <2>1 DEF Rests, Known
  <2>3. Serial' = Serial  BY <2>1, <2>2 DEF Serial, Turned, Known, Earned, Good, At
  <2>4. \A S : Earned(S)' = Earned(S)  BY <2>1 DEF Earned, Good
  <2> QED  BY <1>o, <1>s, <2>1, <2>3, <2>4 DEF ServedInv
<1> QED
  BY <1>1, <1>2, <1>3, <1>4, <1>5, <1>6, <1>7, <1>8, <1>9, <1>10, <1>11 DEF LearnNext

-----------------------------------------------------------------------------
LEMMA LearningStarts == LearnInit => IInv1 /\ ServedInv
<1> SUFFICES ASSUME LearnInit PROVE IInv1 /\ ServedInv
  OBVIOUS
<1>1. /\ candidate = Missing /\ episodes = <<>> /\ disturbed = FALSE
      /\ DOMAIN keys = {} /\ DOMAIN memories = {} /\ DOMAIN job = Jobs
      /\ \A j \in Jobs : job[j] = Idle
  BY DEF LearnInit
<1>2. Busy = {} /\ Served = {}  BY <1>1 DEF Busy, Served
<1>3. \A j \in Jobs : JobType(j)  BY <1>1 DEF JobType, Idle
<1>4. IsFiniteSet({})  BY FS_EmptySet
<1>5. TypeInv
  <2>1. episodes \in Seq(BOOLEAN)  BY <1>1
  <2>2. IsFiniteSet(DOMAIN memories) /\ DOMAIN memories \subseteq Nat  BY <1>1, <1>4
  <2> QED  BY <1>1, <1>2, <1>3, <2>1, <2>2 DEF TypeInv
<1>6. ServedInv  BY <1>1, <1>2 DEF ServedInv, Serial
<1> QED  BY <1>1, <1>5, <1>6 DEF IInv1, EpisodesCountOnce

\* What the invariants say of the procedure that is served.
LEMMA InvariantsSuffice == IInv1 /\ ServedInv => ProceduresAreEarned
<1> SUFFICES ASSUME IInv1, ServedInv PROVE ProceduresAreEarned
  OBVIOUS
<1>1. Cardinality(Served) <= 1
  <2>1. CASE Served = {}  BY <2>1, FS_EmptySet
  <2>2. CASE Served # {}
    <3>1. PICK m : Served = {m}  BY <2>2 DEF ServedInv
    <3>2. Cardinality({m}) = 1  BY FS_Singleton
    <3> QED  BY <3>1, <3>2
  <2> QED  BY <2>1, <2>2
<1>2. MemoryIsEarned  BY <1>1 DEF MemoryIsEarned, ServedInv, Earned
<1>3. StateIsServed  BY DEF StateIsServed, ServedInv, Serial, Rests
<1> QED  BY <1>2, <1>3 DEF ProceduresAreEarned, IInv1

\* However jobs race, repeat an episode or are cut: every episode counts once, at
\* most one memory serves the procedure, and while no job overlapped or was cut it
\* is served exactly when enough episodes succeeded (experience.ts).
THEOREM ProceduresAlwaysEarned == LearnSpec => []ProceduresAreEarned
<1>1. LearnInit => IInv1 /\ ServedInv  BY LearningStarts
<1>2. IInv1 /\ ServedInv /\ [LearnNext]_learnVars => IInv1' /\ ServedInv'  BY CountStep, ServedStep
<1>3. IInv1 /\ ServedInv => ProceduresAreEarned  BY InvariantsSuffice
<1> QED  BY <1>1, <1>2, <1>3, PTL DEF LearnSpec
=============================================================================
