-------------------------- MODULE MCSidecarSession --------------------------
(***************************************************************************)
(* A session of the Sidecar, side by side: the working memory it reduces the *)
(* turns of a branch into and shows to Pi (SidecarSession), and what it       *)
(* learns from the turns (TurnLearning).  They share no variable: part,       *)
(* chosen at the start, says which of them runs.                              *)
(***************************************************************************)
EXTENDS SidecarSession, SequencesExt

\* Two branches, the second without a parent Pi can name; two turns that belong to
\* different tasks.
CONSTANTS trunk, side, work, chore
MCParents == [b \in {trunk, side} |-> NoBranch]
MCTasks == [t \in 1..MaxTurns |-> IF t = 1 THEN work ELSE chore]

\* Working memory on its own, with the verifications of two commands; the two kinds of
\* jobs on their own, with those of one.
VARIABLES part, enabled, sess, log, done, settle, wm, episodes, held, jobs, learned,
          applied, order, lost, tied, mishaps
Enough == {{"working memory"}, {"formation"}, {"consolidation"}}
Learning == INSTANCE TurnLearning
    WITH Tasks <- {work, chore}, NoTask <- NoTask, Naming <- {"test"}, Configurations <- Enough,
        Batches <- [c \in Enough |-> SeqOf([kind : {"pass", "fail"}, command :
                        IF c = {"working memory"} THEN {"test", "lint"} ELSE {"test"}], 2)],
        Goals <- [c \in Enough |-> [n \in 1..MaxTurns |->
                    IF n = 2 /\ c = {"working memory"} THEN {work, chore} ELSE {work}]],
        Stating <- {1}, LoopLimit <- 3, Checkpoint <- 2, MaxCandidates <- 2, MaxAssertions <- 1,
        EventLimit <- [c \in Enough |-> IF c = {"working memory"} THEN 3 ELSE IF c = {"formation"} THEN 1 ELSE 2],
        MishapLimit <- [c \in Enough |-> IF c = {"working memory"} THEN 0 ELSE 1],
        finished <- done

sessionVars == vars
learningVars == <<enabled, sess, log, done, settle, wm, episodes, held, jobs, learned,
                  applied, order, lost, tied, mishaps>>
all == <<part, sessionVars, learningVars>>

Begin == /\ part \in {"session", "learning"}
         /\ Init /\ Learning!Init
         /\ part # "learning" => enabled = {"formation"}
Go == \/ part = "session" /\ Next /\ UNCHANGED <<part, learningVars>>
      \/ part = "learning" /\ Learning!Next /\ UNCHANGED <<part, sessionVars>>
\* A part that does not run stays in its initial state, where nothing fair is enabled.
Sides == Begin /\ [][Go]_all /\ Fairness /\ Learning!Fairness

\* TurnLearning: the loops shown as open are open, nothing is learned late or from what
\* steering gave up, and the episode of a task is whole.
LearningIsSound == /\ Learning!TypeOK /\ Learning!LoopsAreOpen /\ Learning!LearnsInTime
                   /\ Learning!LearnsWhatHolds /\ Learning!EpisodeIsWhole
\* SidecarSession, TurnLearning: Pi has the latest state of its branch in the end, and
\* every turn, settlement and job comes to its end.
SessionConverges == ContextCatchesUp /\ Learning!LearningSettles
=============================================================================
