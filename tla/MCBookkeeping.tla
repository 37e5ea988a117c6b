----------------------------- MODULE MCBookkeeping -----------------------------
(* What a search keeps, side by side: in a behaviour one part runs, the archive  *)
(* of CoverageArchive, that of MIO, the suites with their cached values, local   *)
(* search with what it must set back, or the record of what a test has created   *)
(* in the file system.  The others rest in an initial state.                     *)
EXTENDS CoverageArchive, MIO, Suites, LocalSearch, FsIsolation, TLC

CONSTANTS Parts,    \* a subset of {"archive", "mio", "suites", "local search", "files"}
          g1, g2, s1, s2, s3, s4, x1, x2

VARIABLE part

all == <<part, archiveVars, mioVars, suitesVars, localVars, filesVars>>

--------------------------------------------------------------------------------
(* Two goals and four test cases: two of the first goal, one of both, one of *)
(* the second; sizes and errors such that every comparison of                *)
(* _is_better_than_current goes either way.                                  *)
MCGoals == {g1, g2}
MCSolutions == {s1, s2, s3, s4}
MCCovers == s1 :> {g1} @@ s2 :> {g1} @@ s3 :> {g1, g2} @@ s4 :> {g2}
MCSize == s1 :> 3 @@ s2 :> 2 @@ s3 :> 5 @@ s4 :> 1
MCFailing == {s2}

(* Two targets; test cases that cover one, come near to it, cover both, fail, *)
(* or are no use for a target at all.                                         *)
MCTargets == {x1, x2}
MCTests == {"a", "b", "c", "d", "e"}
MCHeuristic ==
  "a" :> (x1 :> 1 @@ x2 :> 0) @@ "b" :> (x1 :> 2 @@ x2 :> 1) @@ "c" :> (x1 :> 2 @@ x2 :> 2)
      @@ "d" :> (x1 :> 3 @@ x2 :> 1) @@ "e" :> (x1 :> 3 @@ x2 :> 3)
MCTestSize == "a" :> 1 @@ "b" :> 2 @@ "c" :> 2 @@ "d" :> 1 @@ "e" :> 2
MCFailingTests == {"b", "d"}
MCInitial == [tests |-> 3, mutations |-> 1]
MCBuiltin == [tests |-> 2, mutations |-> 2]
MCFocused == [tests |-> 1, mutations |-> 2]

(* Two suites in the population, of two contents that reach one goal or both. *)
MCBodies == {s1, s3}
MCReaches == s1 :> {g1} @@ s3 :> {g1, g2}

\* Asking for all goals is asking for one after the other, in any order.
TestRecords == [content : Bodies, changed : BOOLEAN, result : Bodies \cup {None},
                cache : [SuiteGoals -> BOOLEAN \cup {None}]]
ASSUME AskedOneByOne == \A t \in TestRecords :
  \A order \in {q \in [1..2 -> SuiteGoals] : q[1] # q[2]} :
    AskAll(t) = FoldLeft(LAMBDA u, g : get_is_covered(u, g), t, order)

(* Every statement contributes a distance of its own, or the statements interact. *)
Distances == [Values -> 0..1]
MCLandscapes ==
  {[c \in Contents |-> d[c[1]] + e[c[2]]] : d \in Distances, e \in {x \in Distances : x[1] = 0 /\ x[2] <= x[3]}}
    \cup {[c \in Contents |-> IF c[1] = c[2] THEN 0 ELSE d[c[1]]] : d \in [Values -> 1..2]}

--------------------------------------------------------------------------------
\* The parts that do not run: nothing is known, offered, or there.
SuitesRest == suites = [p \in Slots |-> NewSuite(<<NewTestCase(s1)>>)]
LocalRest == fitness = [c \in Contents |-> 0] /\ content = [i \in Positions |-> 1]
FilesRest == fs = [p \in Paths |-> "absent"]

MCInit ==
  /\ part \in Parts
  /\ IF part = "archive" THEN ArchiveStart ELSE ArchiveInit({})
  /\ MIOInit
  /\ (part = "suites" \/ SuitesRest) /\ SuitesInit
  /\ (part = "local search" \/ LocalRest) /\ LocalInit
  /\ (part = "files" \/ FilesRest) /\ FilesInit

Archive == part = "archive" /\ UNCHANGED <<part, mioVars, suitesVars, localVars, filesVars>>
Independent == part = "mio" /\ UNCHANGED <<part, archiveVars, suitesVars, localVars, filesVars>>
WholeSuites == part = "suites" /\ UNCHANGED <<part, archiveVars, mioVars, localVars, filesVars>>
Local == part = "local search" /\ UNCHANGED <<part, archiveVars, mioVars, suitesVars, filesVars>>
Files == part = "files" /\ UNCHANGED <<part, archiveVars, mioVars, suitesVars, localVars>>

ArchivePart ==
  \/ Archive /\ Update
  \/ Archive /\ StoreCandidate
  \/ Archive /\ PassCandidate
  \/ Archive /\ NextObjective
  \/ Archive /\ EndUpdate
  \/ Archive /\ Return
  \/ Archive /\ Extend
  \/ Archive /\ Reset
MIOPart ==
  \/ Independent /\ MutateSolution
  \/ Independent /\ NewTest
  \/ Independent /\ SampleArchive
  \/ Independent /\ UpdateArchive
  \/ Independent /\ UpdateParameters
  \/ Independent /\ Finish
  \/ Independent /\ MIOTerminated
SuitesPart ==
  \/ WholeSuites /\ \E p \in Slots : AskFitness(p)
  \/ WholeSuites /\ \E p \in Slots : AskCoverage(p)
  \/ WholeSuites /\ \E p \in Slots : AddTest(p)
  \/ WholeSuites /\ \E p \in Slots : \E i \in DOMAIN suites[p].tests : MutateTest(p, i)
  \/ WholeSuites /\ \E p \in Slots : \E i \in DOMAIN suites[p].tests : EmptyTest(p, i)
  \/ WholeSuites /\ \E p, q \in Slots : Clone(p, q)
  \/ WholeSuites /\ \E p, q \in Slots :
        \E i \in DOMAIN suites[p].tests, j \in DOMAIN suites[q].tests : CrossOver(p, q, i, j)
  \/ WholeSuites /\ _update_archive
LocalSearchPart ==
  \/ Local /\ Skip
  \/ Local /\ StartDifferent
  \/ Local /\ Leave
  \/ Local /\ Flip
  \/ Local /\ TryOther
  \/ Local /\ EndTry
  \/ Local /\ ChangeCall
  \/ Local /\ EndRetype
  \/ Local /\ Climb
  \/ Local /\ EndClimb
  \/ Local /\ Round
  \/ Local /\ EndRound
  \/ Local /\ Probe
  \/ Local /\ TryLetter
  \/ Local /\ StartLetter
  \/ Local /\ IterateString
  \/ Local /\ IterateBytes
  \/ Local /\ EndLetters
  \/ Local /\ Offer
  \/ Local /\ NextSearch
  \/ Local /\ LocalTerminated
  \/ Local /\ \E k \in Kinds : StartSame(k)
FilesPart ==
  \/ Files /\ \E p \in Paths : Write(p)
  \/ Files /\ \E p \in Paths : MakeDir(p)
  \/ Files /\ \E p \in Paths : MakeDirAgain(p)
  \/ Files /\ \E p \in Paths : Delete(p)
  \/ Files /\ \E p \in Paths : RemoveTree(p)
  \/ Files /\ \E p, q \in Paths : CopyInto(p, q)
  \/ Files /\ \E p, q \in Paths : Rename(p, q)
  \/ Files /\ \E p, q \in Paths : RenamePath(p, q)
  \/ Files /\ \E p, q \in Paths : MoveInto(p, q)
  \/ Files /\ Exit
  \/ Files /\ FilesTerminated

MCNext == ArchivePart \/ MIOPart \/ SuitesPart \/ LocalSearchPart \/ FilesPart
MCSpec == MCInit /\ [][MCNext]_all
================================================================================
