----------------------------- MODULE ArtifactStore -----------------------------
(***************************************************************************)
(* The life of an artifact (memory/src/evidence.ts 238-357 and 663-743): a   *)
(* content-addressed record in the store, and a directory of chunks with a   *)
(* manifest beside it.  A write publishes pending, persisting, ready; the     *)
(* maintenance of a session start judges what other processes left, and       *)
(* removes what is past its expiry.  Several Pi processes share the root.     *)
(*                                                                         *)
(* An artifact is its content: the chunks of one identifier are always the   *)
(* same bytes, so a directory only lacks them or has them.                  *)
(***************************************************************************)
EXTENDS Naturals, FiniteSets

CONSTANTS Procs,     \* Pi processes, each with one write and one maintenance at a time
          Artifacts, \* identifiers, i.e. contents
          Episodes,
          Lifetimes, \* "kept", "expiring"
          NoRecord,
          WriteLimit, MaintLimit, FaultLimit \* bounds; a crash is a fault

VARIABLES rec,   \* artifact -> its record, or NoRecord
          files, \* artifact -> [chunks, manifest] in its directory
          write, \* process -> its writeArtifact, or NoRecord
          maint, \* process -> its maintenance, or NoRecord
          clock, \* 0 until the expiring artifacts of time 0 are past it
          acked, \* artifacts a caller was given as ready, since the last write that began
          raced, \* artifacts whose removal met a write or a recovery of them
          met,   \* artifacts a write of which met another write, or maintenance
          spent  \* uses of each bound

artifactVars == <<rec, files, write, maint, clock, acked, raced, met, spent>>

Limits == [write |-> WriteLimit, maint |-> MaintLimit, fault |-> FaultLimit]
Spend(b) == spent[b] < Limits[b] /\ spent' = [spent EXCEPT ![b] = @ + 1]

ArtifactStates == {"pending", "persisting", "ready", "failed", "expired", "deleted"}
Never == 9
Expiries == {1, 2, Never}
Records == [state : ArtifactStates, episode : Episodes, expiry : Expiries]
NoFiles == [chunks |-> FALSE, manifest |-> NoRecord]
\* What a write and a maintenance know.
Writes == [a : Artifacts, pc : {"pending", "persisting", "chunks", "manifest", "ready", "failed"},
           episode : Episodes, expiry : Expiries]
Lists == UNION {[listed -> Records] : listed \in SUBSET Artifacts}
Jobs == [pc : {"recover", "repair", "reject", "collect", "delete", "remove"}, list : Lists,
         a : Artifacts \cup {NoRecord}]
ASSUME ArtifactAssumption ==
    NoRecord \notin Artifacts \cup Records \cup Writes \cup Jobs \cup [episode : Episodes, expiry : Expiries]
Expired(r) == r.expiry <= clock
\* A manifest is a complete record in state ready.
Whole(a) == files[a].chunks /\ files[a].manifest # NoRecord
Writing(a) == \E p \in Procs : write[p] # NoRecord /\ write[p].a = a
Maintains(p, a) == maint[p] # NoRecord /\ (maint[p].a = a \/ a \in DOMAIN maint[p].list)

ArtifactInit == /\ rec = [a \in Artifacts |-> NoRecord]
                /\ files = [a \in Artifacts |-> NoFiles]
                /\ write = [p \in Procs |-> NoRecord]
                /\ maint = [p \in Procs |-> NoRecord]
                /\ clock = 0
                /\ acked = {}
                /\ raced = {}
                /\ met = {}
                /\ spent = [b \in DOMAIN Limits |-> 0]

-----------------------------------------------------------------------------
\* writeArtifact.  A ready record is returned as it is; its episode's namespace
\* is part of the identifier.
Reusable(a) == rec[a] # NoRecord /\ rec[a].state = "ready"
ExpiryOf(life) == IF life = "kept" THEN Never ELSE clock + 1

WriteCall(p, a) ==
    /\ write[p] = NoRecord /\ Spend("write")
    /\ \E e \in Episodes, life \in Lifetimes :
         IF Reusable(a)
         THEN /\ acked' = acked \cup {a}
              /\ UNCHANGED write
         ELSE /\ write' = [write EXCEPT ![p] =
                    [a |-> a, pc |-> "pending", episode |-> e, expiry |-> ExpiryOf(life)]]
              /\ acked' = acked \ {a}
    /\ met' = IF Writing(a) \/ (\E q \in Procs : Maintains(q, a)) THEN met \cup {a} ELSE met
    /\ UNCHANGED <<rec, files, maint, clock, raced>>

WriteAt(p, pc) == write[p] # NoRecord /\ write[p].pc = pc
GotoWrite(p, pc) == write' = [write EXCEPT ![p].pc = pc]
Persist(p, state) ==
    rec' = [rec EXCEPT ![write[p].a] =
               [state |-> state, episode |-> write[p].episode, expiry |-> write[p].expiry]]

PersistPending(p) ==
    /\ WriteAt(p, "pending")
    /\ Persist(p, "pending") /\ GotoWrite(p, "persisting")
    /\ UNCHANGED <<files, maint, clock, acked, raced, met, spent>>

PersistPersisting(p) ==
    /\ WriteAt(p, "persisting")
    /\ Persist(p, "persisting") /\ GotoWrite(p, "chunks")
    /\ UNCHANGED <<files, maint, clock, acked, raced, met, spent>>

\* Every chunk is written beside its name and renamed.
WriteChunks(p) ==
    /\ WriteAt(p, "chunks")
    /\ files' = [files EXCEPT ![write[p].a].chunks = TRUE]
    /\ GotoWrite(p, "manifest")
    /\ UNCHANGED <<rec, maint, clock, acked, raced, met, spent>>

\* The manifest goes the same way, into a directory that has to be there.
WriteManifest(p) ==
    /\ WriteAt(p, "manifest")
    /\ IF files[write[p].a].chunks
       THEN /\ files' = [files EXCEPT ![write[p].a].manifest =
                             [episode |-> write[p].episode, expiry |-> write[p].expiry]]
            /\ GotoWrite(p, "ready")
       ELSE /\ GotoWrite(p, "failed")
            /\ UNCHANGED files
    /\ UNCHANGED <<rec, maint, clock, acked, raced, met, spent>>

\* A file operation, or the last record, fails.
WriteFails(p) ==
    /\ WriteAt(p, "chunks") \/ WriteAt(p, "manifest") \/ WriteAt(p, "ready")
    /\ Spend("fault")
    /\ GotoWrite(p, "failed")
    /\ UNCHANGED <<rec, files, maint, clock, acked, raced, met>>

PersistReady(p) ==
    /\ WriteAt(p, "ready")
    /\ Persist(p, "ready")
    /\ acked' = acked \cup {write[p].a}
    /\ write' = [write EXCEPT ![p] = NoRecord]
    /\ UNCHANGED <<files, maint, clock, raced, met, spent>>

\* The catch: another writer of the same content may have published it.
PersistFailed(p) ==
    /\ WriteAt(p, "failed")
    /\ Persist(p, "failed")
    /\ write' = [write EXCEPT ![p] = NoRecord]
    /\ UNCHANGED <<files, maint, clock, acked, raced, met, spent>>

-----------------------------------------------------------------------------
\* The maintenance job: recoverArtifacts lists the unfinished records ...
Unfinished == {a \in Artifacts : rec[a] # NoRecord /\ rec[a].state \in {"pending", "persisting"}}
Job(pc, list) == [pc |-> pc, list |-> [a \in list |-> rec[a]], a |-> NoRecord]

MaintStart(p) ==
    /\ maint[p] = NoRecord /\ Spend("maint")
    /\ maint' = [maint EXCEPT ![p] = Job("recover", Unfinished)]
    /\ met' = met \cup {a \in Unfinished : Writing(a)}
    /\ UNCHANGED <<rec, files, write, clock, acked, raced>>

\* A removal meets a write, or the maintenance of another process.
Meets(p, a) == Writing(a) \/ \E q \in Procs \ {p} : Maintains(q, a)
Listed(p) == DOMAIN maint[p].list
Drop(p, a) == [maint EXCEPT ![p].list = [b \in Listed(p) \ {a} |-> maint[p].list[b]]]

\* Mutant: a directory with chunks is taken for a written one.
GenuineChunks(p, a) == a \in Listed(p) /\ files[a].chunks
\* ... and reads the manifest and the chunks of each of them, ...
Genuine(p, a) ==
    Whole(a) /\ files[a].manifest.episode = maint[p].list[a].episode
Judge(p, a) ==
    /\ maint[p] # NoRecord /\ maint[p].pc = "recover" /\ a \in Listed(p)
    /\ maint' = [maint EXCEPT ![p].pc = IF Genuine(p, a) THEN "repair" ELSE "reject",
                              ![p].a = a]
    /\ UNCHANGED <<rec, files, write, clock, acked, raced, met, spent>>

\* ... publishes the manifest, or writes the listed record back as failed.
Verdict(p) ==
    /\ maint[p] # NoRecord /\ maint[p].pc \in {"repair", "reject"}
    /\ LET a == maint[p].a IN
       /\ rec' = [rec EXCEPT ![a] =
                    IF maint[p].pc = "repair"
                    THEN [state |-> "ready", episode |-> maint[p].list[a].episode,
                          expiry |-> IF files[a].manifest = NoRecord THEN maint[p].list[a].expiry
                                     ELSE files[a].manifest.expiry]
                    ELSE [maint[p].list[a] EXCEPT !.state = "failed"]]
       /\ maint' = [Drop(p, a) EXCEPT ![p].pc = "recover", ![p].a = NoRecord]
    /\ UNCHANGED <<files, write, clock, acked, raced, met, spent>>

Collectable == {a \in Artifacts : Reusable(a) /\ Expired(rec[a])}
\* collectExpiredArtifacts lists the ready records past their expiry, ...
MaintCollect(p) ==
    /\ maint[p] # NoRecord /\ maint[p].pc = "recover" /\ Listed(p) = {}
    /\ maint' = [maint EXCEPT ![p] =
                    Job("collect", Collectable)]
    /\ UNCHANGED <<rec, files, write, clock, acked, raced, met, spent>>

\* ... marks each as expired; deleteArtifact marks it as deleted, ...
ExpireArtifact(p, a) ==
    /\ maint[p] # NoRecord /\ maint[p].pc = "collect" /\ a \in Listed(p)
    /\ rec' = [rec EXCEPT ![a] = [maint[p].list[a] EXCEPT !.state = "expired"]]
    /\ maint' = [Drop(p, a) EXCEPT ![p].pc = "delete", ![p].a = a]
    /\ raced' = IF Meets(p, a) THEN raced \cup {a} ELSE raced
    /\ UNCHANGED <<files, write, clock, acked, met, spent>>

DeleteArtifact(p) ==
    /\ maint[p] # NoRecord /\ maint[p].pc = "delete"
    /\ rec' = [rec EXCEPT ![maint[p].a].state = "deleted"]
    /\ maint' = [maint EXCEPT ![p].pc = "remove"]
    /\ raced' = IF Meets(p, maint[p].a) THEN raced \cup {maint[p].a} ELSE raced
    /\ UNCHANGED <<files, write, clock, acked, met, spent>>

\* ... and removes the directory.
RemoveFiles(p) ==
    /\ maint[p] # NoRecord /\ maint[p].pc = "remove"
    /\ files' = [files EXCEPT ![maint[p].a] = NoFiles]
    /\ raced' = IF Meets(p, maint[p].a) \/ Reusable(maint[p].a)
                THEN raced \cup {maint[p].a} ELSE raced
    /\ maint' = [maint EXCEPT ![p].pc = "collect", ![p].a = NoRecord]
    /\ UNCHANGED <<rec, write, clock, acked, met, spent>>

MaintEnd(p) ==
    /\ maint[p] # NoRecord /\ maint[p].pc = "collect" /\ Listed(p) = {}
    /\ maint' = [maint EXCEPT ![p] = NoRecord]
    /\ UNCHANGED <<rec, files, write, clock, acked, raced, met, spent>>

\* A process dies between two operations.
Dies(p) ==
    /\ write[p] # NoRecord \/ maint[p] # NoRecord
    /\ Spend("fault")
    /\ write' = [write EXCEPT ![p] = NoRecord]
    /\ maint' = [maint EXCEPT ![p] = NoRecord]
    /\ UNCHANGED <<rec, files, clock, acked, raced, met>>

TimePasses == /\ clock = 0 /\ clock' = 1
              /\ UNCHANGED <<rec, files, write, maint, acked, raced, met, spent>>

WriteStep(p) == \/ PersistPending(p) \/ PersistPersisting(p) \/ WriteChunks(p)
                \/ WriteManifest(p) \/ WriteFails(p) \/ PersistReady(p) \/ PersistFailed(p)
MaintStep(p) == \/ (\E a \in Artifacts : Judge(p, a) \/ ExpireArtifact(p, a)) \/ Verdict(p)
                \/ MaintCollect(p) \/ DeleteArtifact(p) \/ RemoveFiles(p) \/ MaintEnd(p)
ArtifactNext == \/ \E p \in Procs : \/ \E a \in Artifacts : WriteCall(p, a)
                                    \/ WriteStep(p) \/ MaintStart(p) \/ MaintStep(p) \/ Dies(p)
                \/ TimePasses

ArtifactSpec == ArtifactInit /\ [][ArtifactNext]_artifactVars

-----------------------------------------------------------------------------
\* Every variable holds a value of its type.
ArtifactTypeOK == /\ rec \in [Artifacts -> Records \cup {NoRecord}]
                  /\ clock \in {0, 1}
                  /\ acked \subseteq Artifacts /\ raced \subseteq Artifacts
                  /\ \A p \in Procs : write[p] # NoRecord => write[p].a \in Artifacts

\* Publication is atomic: a record that says ready has all its files, however
\* many processes write it, die, or recover it; only a removal that meets a
\* write or a recovery of the same content can take them away.
ReadyIsWhole == \A a \in Artifacts \ raced : Reusable(a) => Whole(a)

\* What a caller was given as ready stays so until its expiry, through crashes,
\* recoveries and later calls; two writes of one content, or a write and a
\* maintenance job, may undo each other only when they met.
PublishedStays == \A a \in acked \ met : Expired(rec[a]) \/ Reusable(a)

\* Both, whatever fails and whoever dies.
ArtifactsHold == ArtifactTypeOK /\ ReadyIsWhole /\ PublishedStays
=============================================================================
