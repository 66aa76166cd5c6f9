-------------------------- MODULE InvocationProofs --------------------------
(***************************************************************************)
(* What an invocation leaves on disk is true at every moment, and an exit  *)
(* tells the truth: for any number of runs, any shared fixtures and any    *)
(* bugs, wherever the deadline or a signal comes.                          *)
(*                                                                         *)
(* Recorded is about the summary, in memory and on disk, and what the runs *)
(* really did; InOrder and Placed say what each run has left behind at     *)
(* each point of the invocation; Coded and Left are what the exit code,    *)
(* the last summary and the state of the cluster rest on.                  *)
(***************************************************************************)
EXTENDS Invocation, TLAPS

\* The values of the variables.
Points == {"plan", "session", "prepare", "next", "execute", "discard", "shrink", "cut",
           "minimized", "rerun", "rerunEnds", "report", "row", "finish", "close", "recheck",
           "exit", "gone", "killed"}
Outcomes == {"none", "notRun", "unfinished", "interrupted", "passed", "violation", "error"}
Summaries == [outcome : Outcomes, exit : Int, runs : [Runs -> Outcomes], rerunning : BOOLEAN]
Sequenced == {"none", "drawn", "small"}
Dirs == [files : Sequenced, seq : Sequenced, report : Sequenced, left : Sequenced]
Finds == [shrunk : Sequenced, reported : Sequenced, warned : BOOLEAN, torn : BOOLEAN]
Fired == {-1, 0, 1}
Parts == ClusterFixtures \cup {"cluster"}

TypeOK ==
    /\ command \in {"drawn", "named", "matrix"}
    /\ pc \in Points /\ at \in 0 .. NRuns
    /\ signal \in Points \cup {"no"} /\ ended \in {"no", "interrupt", "deadline"}
    /\ code \in {NoCode, 0, 1, 2, Killed}
    /\ rec \in Summaries /\ disk \in Summaries
    /\ dir \in [Runs -> Dirs] /\ truth \in [Runs -> {"none", "error", "violation", "passed"}]
    /\ find \in Finds /\ session \in {"none", "started", "connected"}
    /\ shared \subseteq Parts /\ created \subseteq ClusterFixtures /\ told \subseteq Parts
    /\ rows \in [Bugs \cup {0} -> [bugged : Fired, correct : Fired]]
    /\ written \in BOOLEAN

\* The points of a run that failed, up to its report.
Failing == {"shrink", "cut", "minimized", "rerun", "rerunEnds", "report"}

\* The points where no run has failed.
Running == {"plan", "session", "prepare", "row", "next", "execute", "discard"}

\* The points after the runs of an invocation that was not killed.
Ending == {"finish", "close", "recheck", "exit", "gone"}

\* A summary is true of the runs.
True(s) ==
    \A i \in Runs : /\ s.runs[i] \in {"passed", "violation"} => truth[i] = s.runs[i]
                    /\ truth[i] = "violation" => s.runs[i] = "violation"
                    /\ truth[i] = "violation" /\ dir[i].files # "drawn" => s.rerunning

Recorded == True(rec) /\ True(disk)

\* The runs to come have left nothing; the ones before the run at hand passed.
InOrder ==
    /\ \A i \in Runs : i > at => truth[i] = "none" /\ dir[i] = NoDir
    /\ \A i \in Runs : i < at => truth[i] = "passed"
    /\ pc \in {"plan", "session", "prepare", "row"} => at = 0
    /\ pc \in {"execute", "discard"} \cup Failing => at \in Runs
    /\ pc = "next" /\ at \in Runs => truth[at] = "passed"

\* The sequence that is to be reported.
ToReport == IF command = "named" THEN "drawn" ELSE find.reported

\* What the run at hand has in its directory, and what is to be reported of it.
Placed ==
    /\ pc \in Running \cup Failing => \A i \in Runs : dir[i].report = "none"
    /\ pc = "execute" => truth[at] = "none" /\ dir[at] = NoDir
    /\ pc = "discard" => truth[at] = "passed"
    /\ pc \in Failing => truth[at] = "violation"
    /\ pc \in {"shrink", "cut", "minimized", "rerun"} =>
          command # "named" /\ dir[at].files = "drawn" /\ dir[at].seq = "drawn"
    /\ pc \in {"cut", "minimized", "rerun", "rerunEnds"} =>
          find.shrunk \in {"drawn", "small"} /\ find.reported = find.shrunk
    /\ pc \in {"rerun", "rerunEnds"} => command # "named" /\ rec.rerunning /\ disk.rerunning
    /\ pc = "rerunEnds" /\ ~find.warned => dir[at].files = "none"
    /\ pc = "report" =>
          /\ ToReport # "none" /\ (command = "named" => dir[at].seq = "drawn")
          /\ find.warned \/ find.torn \/ dir[at].files \in {"none", ToReport}
    /\ ReportedIsRun

\* What the code says of the runs and of the matrix.
Coded ==
    /\ pc \in Running => code = NoCode
    /\ pc \in Failing => code = 1 /\ command # "matrix"
    /\ command = "matrix" => pc \notin {"next", "execute", "discard"} \cup Failing
    /\ pc = "row" => command = "matrix"
    /\ pc \in Ending =>
          /\ code = 0 => IF command = "matrix"
                         THEN written /\ \A b \in DOMAIN rows :
                                 rows[b] = [bugged |-> IF b = 0 THEN 0 ELSE 1, correct |-> 0]
                         ELSE \A i \in Runs : truth[i] = "passed"
          /\ code = 1 /\ command = "matrix" => written
          /\ code = 1 /\ command # "matrix" =>
                \E i \in Runs : truth[i] = "violation" /\ (dir[i].report # "none" \/ find.warned)
    /\ rows[0].bugged = rows[0].correct

\* What the end of the invocation leaves of the summary and of the cluster.
Left ==
    /\ command = "matrix" \/ pc = "plan" => disk = NoSummary
    /\ pc = "plan" => shared = {}
    /\ pc \in {"plan", "session", "prepare"} => created = {}
    /\ shared \subseteq told \cup created \cup {c \in {"cluster"} : session = "started"}
    /\ pc \in {"recheck", "exit", "gone"} => shared \subseteq told
    /\ pc \in {"close", "recheck", "exit", "gone"} /\ disk # NoSummary => rec = disk
    /\ pc = "exit" /\ disk # NoSummary => disk.exit = exitStatus \/ signal = "exit"
    /\ SummaryTellsExit

\* The inductive invariant.
IInv == TypeOK /\ Recorded /\ InOrder /\ Placed /\ Coded /\ Left

-----------------------------------------------------------------------------
(* The summary and the directories keep their types and their other fields. *)

\* Noting the outcome of a run changes that of no other.
LEMMA RunNoted ==
    ASSUME TypeOK, NEW i \in Runs, NEW o \in Outcomes, rec' = [rec EXCEPT !.runs[i] = o]
    PROVE  /\ rec' \in Summaries /\ rec'.rerunning = rec.rerunning
           /\ \A j \in Runs : rec'.runs[j] = IF j = i THEN o ELSE rec.runs[j]
BY DEF TypeOK, Summaries

\* Before the rerun the summary on disk says there is one.
LEMMA RerunNoted ==
    ASSUME TypeOK, rerunning
    PROVE  rec' \in Summaries /\ rec'.runs = rec.runs /\ rec'.rerunning /\ disk' = rec'
BY DEF TypeOK, Summaries, rerunning, Save

\* The last summary says what the invocation ends with.
LEMMA EndNoted ==
    ASSUME TypeOK
    PROVE  /\ finished \in Summaries
           /\ finished.runs = rec.runs /\ finished.rerunning = rec.rerunning
           /\ finished.exit = exitStatus
<1> DEFINE o == IF signal # "no" THEN "interrupted"
                ELSE CASE code = 0 -> "passed" [] code = 1 -> "violation" [] OTHER -> "error"
<1>1. exitStatus \in Int
  BY DEF TypeOK, exitStatus, NoCode, Killed
<1>2. o \in Outcomes
  BY DEF Outcomes
<1>3. finished = [rec EXCEPT !.exit = exitStatus, !.outcome = o]
  BY DEF finished
<1> HIDE DEF o
<1> QED
  BY <1>1, <1>2, <1>3 DEF TypeOK, Summaries

\* The summaries there are at the start.
LEMMA FreshSummaries == newSummary \in Summaries /\ NoSummary \in Summaries
<1>1. newSummary \in Summaries
  BY DEF newSummary, Summaries, Outcomes, NoCode
<1> QED
  BY <1>1 DEF NoSummary, Summaries, Outcomes

\* The directory of a run that was not made.
LEMMA NoDirTyped == NoDir \in Dirs
BY DEF NoDir, Dirs, Sequenced

\* What a run writes, it writes to its own directory.
LEMMA DirWritten ==
    ASSUME TypeOK, at \in Runs, NEW f \in Sequenced, dir' \in wroteSome(f)
    PROVE  /\ dir' \in [Runs -> Dirs]
           /\ \A i \in Runs \ {at} : dir'[i] = dir[i]
           /\ dir'[at].files \in {dir[at].files, f} /\ dir'[at].report = dir[at].report
           /\ dir' = wrote(f) => dir'[at].files = f /\ dir'[at].seq = f
BY DEF TypeOK, Dirs, wrote, wroteSome

\* The report is written to the directory of the run that failed, or a warning says
\* what is not.
LEMMA DirReported ==
    ASSUME TypeOK, at \in Runs, ToReport \in Sequenced, Report
    PROVE  /\ dir' \in [Runs -> Dirs] /\ find' \in Finds
           /\ \A i \in Runs \ {at} : dir'[i] = dir[i]
           /\ dir'[at].files = dir[at].files
           /\ dir'[at].report \in {ToReport, dir[at].report}
           /\ find'.torn = find.torn /\ (find.warned => find'.warned)
           /\ \/ find'.warned
              \/ /\ dir'[at].report = ToReport
                 /\ dir'[at].seq = IF command = "named" THEN dir[at].seq ELSE ToReport
<1> DEFINE files == IF command = "named" THEN {"report"} ELSE {"seq", "report"}
<1>1. PICK done \in SUBSET files :
         /\ dir' = [dir EXCEPT ![at].seq = IF "seq" \in done THEN ToReport ELSE @,
                               ![at].report = IF "report" \in done THEN ToReport ELSE @]
         /\ find' = [find EXCEPT !.warned = @ \/ done # files]
  BY DEF Report, ToReport
<1>2. /\ dir[at] \in Dirs
      /\ dir'[at] = [dir[at] EXCEPT !.seq = IF "seq" \in done THEN ToReport ELSE @,
                                   !.report = IF "report" \in done THEN ToReport ELSE @]
      /\ \A i \in Runs \ {at} : dir'[i] = dir[i]
      /\ dir' = [dir EXCEPT ![at] = dir'[at]]
  BY <1>1 DEF TypeOK
<1>3. /\ dir'[at] \in Dirs /\ dir'[at].files = dir[at].files
      /\ dir'[at].seq = IF "seq" \in done THEN ToReport ELSE dir[at].seq
      /\ dir'[at].report = IF "report" \in done THEN ToReport ELSE dir[at].report
  BY <1>2 DEF Dirs
<1>4. /\ find' \in Finds /\ find'.torn = find.torn
      /\ find'.warned = (find.warned \/ done # files)
  <2>1. (find.warned \/ done # files) \in BOOLEAN
    OBVIOUS
  <2> DEFINE w == find.warned \/ done # files
  <2>2. find' = [find EXCEPT !.warned = w] /\ w \in BOOLEAN
    BY <1>1, <2>1
  <2> HIDE DEF w
  <2>3. find' \in Finds /\ find'.torn = find.torn /\ find'.warned = w
    BY <2>2 DEF TypeOK, Finds
  <2> QED
    BY <2>3 DEF w
<1>5. dir' \in [Runs -> Dirs]
  BY <1>2, <1>3 DEF TypeOK
<1> QED
  BY <1>2, <1>3, <1>4, <1>5

\* The shrunk sequence that is left beside the recordings changes nothing else.
LEMMA DirLeft ==
    ASSUME TypeOK, at \in Runs, dir' \in {dir, [dir EXCEPT ![at].left = find.shrunk]}
    PROVE  /\ dir' \in [Runs -> Dirs]
           /\ \A j \in Runs : /\ dir'[j].files = dir[j].files /\ dir'[j].seq = dir[j].seq
                              /\ dir'[j].report = dir[j].report
BY DEF TypeOK, Dirs, Finds

\* The directory is emptied for the second run, or a warning says it is not.
LEMMA DirEmptied ==
    ASSUME TypeOK, at \in Runs, Rerun
    PROVE  /\ dir' \in [Runs -> Dirs] /\ find' \in Finds
           /\ \A i \in Runs \ {at} : dir'[i] = dir[i]
           /\ dir'[at].report \in {dir[at].report, "none"}
           /\ find'.shrunk = find.shrunk /\ find'.reported = find.reported
           /\ find'.warned \/ dir'[at].files = "none"
<1>1. CASE dir' = [dir EXCEPT ![at] = NoDir] /\ UNCHANGED find
  <2>1. NoDir.report = "none" /\ NoDir.files = "none"
    BY DEF NoDir
  <2> QED
    BY <1>1, <2>1, NoDirTyped DEF TypeOK
<1>2. CASE /\ find' = [find EXCEPT !.warned = TRUE]
           /\ dir' \in {dir, [dir EXCEPT ![at].files = "none"], [dir EXCEPT ![at].seq = "none"]}
  <2>1. /\ find' \in Finds /\ find'.warned
        /\ find'.shrunk = find.shrunk /\ find'.reported = find.reported
    BY <1>2 DEF TypeOK, Finds
  <2>2. /\ dir' \in [Runs -> Dirs] /\ \A i \in Runs \ {at} : dir'[i] = dir[i]
        /\ dir'[at].report = dir[at].report
    BY <1>2 DEF TypeOK, Dirs, Sequenced
  <2> QED
    BY <2>1, <2>2
<1> QED
  BY <1>1, <1>2 DEF Rerun

-----------------------------------------------------------------------------
\* The invariant holds before the flags are read.
LEMMA Starts == Init => IInv
<1> SUFFICES ASSUME Init PROVE IInv
  OBVIOUS
<1>1. TypeOK
  <2>1. dir \in [Runs -> Dirs] /\ truth \in [Runs -> {"none", "error", "violation", "passed"}]
    BY NoDirTyped DEF Init
  <2>2. rows \in [Bugs \cup {0} -> [bugged : Fired, correct : Fired]]
    BY DEF Init, Fired
  <2>3. rec \in Summaries /\ disk \in Summaries
    BY FreshSummaries DEF Init
  <2>4. at \in 0 .. NRuns
    BY InvocationConstants DEF Init
  <2>5. /\ command \in {"drawn", "named", "matrix"} /\ pc \in Points
        /\ signal \in Points \cup {"no"} /\ ended \in {"no", "interrupt", "deadline"}
        /\ code \in {NoCode, 0, 1, 2, Killed}
        /\ session \in {"none", "started", "connected"}
        /\ shared \subseteq Parts /\ created \subseteq ClusterFixtures /\ told \subseteq Parts
        /\ written \in BOOLEAN
    BY DEF Init, Points
  <2>6. find \in Finds
    BY DEF Init, Finds, Sequenced
  <2> QED
    BY <2>1, <2>2, <2>3, <2>4, <2>5, <2>6 DEF TypeOK
<1> USE InvocationConstants DEF Init
<1>2. Recorded
  BY DEF Recorded, True, newSummary, NoSummary, Runs
<1>3. InOrder /\ Placed
  BY DEF InOrder, Placed, ReportedIsRun, Running, Failing, NoDir, Runs
<1>4. Coded /\ Left
  BY DEF Coded, Left, SummaryTellsExit, Running, Failing, Ending
<1> QED
  BY <1>1, <1>2, <1>3, <1>4 DEF IInv

\* What a run leaves, however it ends.
LEMMA Executed ==
    ASSUME TypeOK, InOrder, Placed, Execute
    PROVE  /\ at \in Runs /\ at' = at /\ truth[at] = "none"
           /\ rec' \in Summaries /\ disk' \in Summaries /\ dir' \in [Runs -> Dirs]
           /\ truth' \in [Runs -> {"none", "error", "violation", "passed"}]
           /\ \A i \in Runs \ {at} : truth'[i] = truth[i] /\ dir'[i] = dir[i]
           /\ dir'[at].report = "none"
           /\ \/ pc' = "finish"
              \/ pc' = "discard" /\ truth'[at] = "passed"
              \/ /\ pc' = (IF command = "drawn" THEN "shrink" ELSE "report")
                 /\ truth'[at] = "violation" /\ dir'[at].files = "drawn" /\ dir'[at].seq = "drawn"
           /\ \E o \in {"error", "interrupted", "violation", "passed"} :
                 /\ \A i \in Runs : rec'.runs[i] = IF i = at THEN o ELSE rec.runs[i]
                 /\ rec'.rerunning = rec.rerunning
                 /\ disk' = IF o = "violation" THEN rec' ELSE disk
                 /\ truth'[at] = IF o = "interrupted" THEN "error" ELSE o
                 /\ o = "violation" => dir'[at].files = "drawn"
<1>1. at \in Runs /\ truth[at] = "none" /\ dir[at].report = "none"
  BY DEF Execute, InOrder, Placed, NoDir
<1>2. PICK o \in {"error", "interrupted", "violation", "passed"} :
         /\ rec' = [rec EXCEPT !.runs[at] = o]
         /\ disk' = IF o = "violation" THEN rec' ELSE disk
         /\ truth' = [truth EXCEPT ![at] = IF o = "interrupted" THEN "error" ELSE o]
         /\ dir' \in wroteSome("drawn")
         /\ \/ pc' = "finish" /\ o \in {"error", "interrupted"}
            \/ pc' = "discard" /\ o = "passed"
            \/ /\ pc' = (IF command = "drawn" THEN "shrink" ELSE "report")
               /\ o = "violation" /\ dir' = wrote("drawn")
  BY DEF Execute, found, Save, wroteSome
<1>3. /\ rec' \in Summaries /\ rec'.rerunning = rec.rerunning
      /\ \A i \in Runs : rec'.runs[i] = IF i = at THEN o ELSE rec.runs[i]
  <2>1. o \in Outcomes
    BY DEF Outcomes
  <2>2. rec' = [rec EXCEPT !.runs[at] = o]
    BY <1>2
  <2> QED
    BY <1>1, <2>1, <2>2, RunNoted
<1>4. /\ dir' \in [Runs -> Dirs]
      /\ \A i \in Runs \ {at} : dir'[i] = dir[i]
      /\ dir'[at].report = "none"
      /\ dir' = wrote("drawn") => dir'[at].files = "drawn" /\ dir'[at].seq = "drawn"
  BY <1>1, <1>2, DirWritten DEF Sequenced
<1>5. /\ truth' \in [Runs -> {"none", "error", "violation", "passed"}]
      /\ \A i \in Runs \ {at} : truth'[i] = truth[i]
      /\ truth'[at] = IF o = "interrupted" THEN "error" ELSE o
  BY <1>1, <1>2 DEF TypeOK
<1>6. disk' \in Summaries
  BY <1>2, <1>3 DEF TypeOK
<1>7. at' = at
  BY DEF Execute
<1> QED
  BY <1>1, <1>2, <1>3, <1>4, <1>5, <1>6, <1>7

\* Every step keeps the types.
LEMMA TypeOKKept == IInv /\ [Next]_vars => TypeOK'
<1> SUFFICES ASSUME IInv, [Next]_vars PROVE TypeOK'
  OBVIOUS
<1> USE InvocationConstants DEF IInv, TypeOK, clusterVars, matrixVars
<1>1. CASE Plan
  BY <1>1, FreshSummaries DEF Plan, Save, Points, NoCode, Killed
<1>2. CASE OpenSession
  <2>1. shared' \subseteq Parts /\ told' \subseteq Parts /\ session' \in {"none", "started", "connected"}
    BY <1>2 DEF OpenSession, Parts
  <2> QED
    BY <1>2, <2>1 DEF OpenSession, Points
<1>3. CASE Prepare
  BY <1>3 DEF Prepare, knownFirst, Points, Parts
<1>4. CASE NextRun
  <2>1. at = NRuns \/ at + 1 \in Runs
    BY DEF Runs
  <2>3. at' \in 0 .. NRuns /\ rec' \in Summaries /\ disk' \in Summaries
    <3>1. CASE UNCHANGED <<at, rec, disk>>
      BY <3>1
    <3>2. CASE at # NRuns /\ at' = at + 1 /\ Save([rec EXCEPT !.runs[at + 1] = "unfinished"])
      <4>1. rec' \in Summaries
        BY <2>1, <3>2, RunNoted DEF Save, Outcomes
      <4> QED
        BY <2>1, <3>2, <4>1 DEF Save, Runs
    <3> QED
      BY <1>4, <3>1, <3>2 DEF NextRun
  <2> QED
    BY <1>4, <2>3 DEF NextRun, stoppedCode, Points, NoCode, Killed
<1>5. CASE Execute
  BY <1>5, Executed DEF Execute, Points, NoCode, Killed
<1>6. CASE Discard
  <2>1. at \in Runs
    BY <1>6 DEF Discard, InOrder
  <2> QED
    BY <1>6, <2>1, NoDirTyped DEF Discard, Points
<1>7. CASE Shrink
  <2>1. find' \in Finds
    BY <1>7 DEF Shrink, Finds, Sequenced
  <2> QED
    BY <1>7, <2>1 DEF Shrink, Points
<1>8. CASE Rerun
  <2>1. at \in Runs
    BY <1>8 DEF Rerun, InOrder, Failing
  <2> QED
    BY <1>8, <2>1, DirEmptied DEF Rerun, Points
<1>9. CASE RerunEnds
  <2>1. at \in Runs /\ find.shrunk \in Sequenced
    BY <1>9 DEF RerunEnds, InOrder, Failing, Finds
  <2>2. dir' \in [Runs -> Dirs]
    BY <1>9, <2>1, DirWritten DEF RerunEnds
  <2> QED
    BY <1>9, <2>2 DEF RerunEnds, Points
<1>10. CASE Report
  <2>1. at \in Runs /\ ToReport \in Sequenced
    BY <1>10 DEF Report, InOrder, Failing, ToReport, Finds, Sequenced
  <2>3. dir' \in [Runs -> Dirs] /\ find' \in Finds
    BY <1>10, <2>1, DirReported
  <2>4. rec' \in Summaries
    BY <1>10, <2>1, RunNoted DEF Report, Outcomes
  <2> QED
    BY <1>10, <2>3, <2>4 DEF Report, Points
<1>22. CASE CutShort
  <2>1. at \in Runs
    BY <1>22 DEF CutShort, InOrder, Failing
  <2>2. dir' \in [Runs -> Dirs]
    BY <1>22, <2>1, DirLeft DEF CutShort
  <2>3. find' \in Finds
    BY <1>22 DEF CutShort, evidenced, Finds, Sequenced
  <2> QED
    BY <1>22, <2>2, <2>3 DEF CutShort, Points
<1>23. CASE Minimized
  <2>1. rec' \in Summaries /\ disk' \in Summaries
    BY <1>23, RerunNoted DEF Minimized
  <2>2. find' \in Finds
    BY <1>23 DEF Minimized, simplified, Finds
  <2> QED
    BY <1>23, <2>1, <2>2 DEF Minimized, Points
<1>11. CASE ExerciseRow
  <2> DEFINE Result == [bugged : Fired, correct : Fired]
  <2>1. ASSUME NEW b \in Bugs \cup {0}, NEW fired \in {0, 1}
        PROVE  /\ [bugged |-> fired, correct |-> fired] \in Result
               /\ [rows[b] EXCEPT !.bugged = fired] \in Result
               /\ [rows[b] EXCEPT !.correct = fired] \in Result
    BY DEF Fired
  <2>2. rows' \in [Bugs \cup {0} -> Result]
    <3> DEFINE result(r, fired) ==
                 IF r = 0 THEN [bugged |-> fired, correct |-> fired]
                 ELSE IF rows[r].bugged = -1 THEN [rows[r] EXCEPT !.bugged = fired]
                 ELSE [rows[r] EXCEPT !.correct = fired]
    <3>1. \/ UNCHANGED rows
          \/ \E fired \in {0, 1} : rows' = [rows EXCEPT ![Row] = result(Row, fired)]
      BY <1>11 DEF ExerciseRow
    <3>2. ASSUME NEW r \in Bugs \cup {0}, NEW fired \in {0, 1} PROVE result(r, fired) \in Result
      BY <2>1
    <3> HIDE DEF Result, result
    <3> QED
      BY <3>1, <3>2 DEF Result
  <2> HIDE DEF Result
  <2> QED
    BY <1>11, <2>2 DEF ExerciseRow, Points, Result
<1>12. CASE WriteMatrix
  <2>1. code' \in {0, 1, 2}
    BY <1>12 DEF WriteMatrix, judged
  <2> QED
    BY <1>12, <2>1 DEF WriteMatrix, Points
<1>13. CASE Finish
  BY <1>13, EndNoted DEF Finish, Save, Points
<1>14. CASE Close
  BY <1>14 DEF Close, Points, Parts
<1>15. CASE Recheck
  BY <1>15, EndNoted DEF Recheck, rechecked, Save, Points
<1>16. CASE Exit
  BY <1>16 DEF Exit, exitStatus, Points
<1>17. CASE Interrupt
  BY <1>17 DEF Interrupt
<1>18. CASE Deadline
  BY <1>18 DEF Deadline
<1>19. CASE Kill
  BY <1>19 DEF Kill, Points
<1>20. CASE Done
  BY <1>20 DEF Done, vars
<1>21. CASE UNCHANGED vars
  BY <1>21 DEF vars
<1> QED
  BY <1>1, <1>2, <1>3, <1>4, <1>5, <1>6, <1>7, <1>8, <1>9, <1>10, <1>11, <1>12, <1>13,
     <1>14, <1>15, <1>16, <1>17, <1>18, <1>19, <1>20, <1>21, <1>22, <1>23 DEF Next, Work

\* A summary is saved before what it must own up to happens, and after what it claims.
LEMMA RecordedKept == IInv /\ [Next]_vars => Recorded'
<1> SUFFICES ASSUME IInv, [Next]_vars PROVE Recorded'
  OBVIOUS
<1> USE InvocationConstants DEF IInv, TypeOK, InOrder, Placed, Recorded, clusterVars, matrixVars
<1>1. CASE Plan
  BY <1>1 DEF Plan, Save, newSummary, True, Runs
<1>2. CASE OpenSession
  BY <1>2 DEF OpenSession, True
<1>3. CASE Prepare
  BY <1>3 DEF Prepare, True
<1>4. CASE NextRun
  <2>1. CASE UNCHANGED <<rec, disk>>
    BY <1>4, <2>1 DEF NextRun, True
  <2>2. CASE at + 1 \in Runs /\ Save([rec EXCEPT !.runs[at + 1] = "unfinished"])
    <3>1. \A i \in Runs : rec'.runs[i] = IF i = at + 1 THEN "unfinished" ELSE rec.runs[i]
      BY <2>2, RunNoted DEF Save, Outcomes
    <3>2. rec'.rerunning = rec.rerunning /\ disk' = rec'
      BY <2>2, RunNoted DEF Save, Outcomes
    <3>3. truth[at + 1] = "none"
      BY <2>2
    <3> QED
      BY <1>4, <3>1, <3>2, <3>3 DEF NextRun, True
  <2>3. at = NRuns \/ at + 1 \in Runs
    BY DEF Runs
  <2> QED
    BY <1>4, <2>1, <2>2, <2>3 DEF NextRun
<1>5. CASE Execute
  <2>1. PICK o \in {"error", "interrupted", "violation", "passed"} :
           /\ \A i \in Runs : rec'.runs[i] = IF i = at THEN o ELSE rec.runs[i]
           /\ rec'.rerunning = rec.rerunning
           /\ disk' = IF o = "violation" THEN rec' ELSE disk
           /\ truth'[at] = IF o = "interrupted" THEN "error" ELSE o
           /\ o = "violation" => dir'[at].files = "drawn"
    BY <1>5, Executed
  <2>2. /\ at \in Runs /\ truth[at] = "none"
        /\ \A i \in Runs \ {at} : truth'[i] = truth[i] /\ dir'[i] = dir[i]
    BY <1>5, Executed
  <2>3. True(rec)'
    BY <2>1, <2>2 DEF True
  <2>4. True(disk)'
    <3>1. CASE o = "violation"
      BY <2>1, <2>3, <3>1 DEF True
    <3>2. CASE o # "violation"
      <4>1. disk' = disk /\ truth'[at] # "violation"
        BY <2>1, <3>2
      <4>2. disk.runs[at] \notin {"passed", "violation"}
        BY <2>2 DEF True
      <4>3. ASSUME NEW i \in Runs
            PROVE  /\ disk'.runs[i] \in {"passed", "violation"} => truth'[i] = disk'.runs[i]
                   /\ truth'[i] = "violation" => disk'.runs[i] = "violation"
                   /\ truth'[i] = "violation" /\ dir'[i].files # "drawn" => disk'.rerunning
        <5>1. CASE i = at
          BY <4>1, <4>2, <5>1
        <5>2. CASE i # at
          BY <2>2, <4>1, <5>2 DEF True
        <5> QED
          BY <5>1, <5>2
      <4> QED
        BY <4>3 DEF True
    <3> QED
      BY <3>1, <3>2
  <2> QED
    BY <2>3, <2>4
<1>6. CASE Discard
  BY <1>6 DEF Discard, True
<1>7. CASE Shrink
  BY <1>7 DEF Shrink, True
<1>8. CASE Rerun
  <2>1. at \in Runs /\ rec.rerunning /\ disk.rerunning /\ UNCHANGED <<rec, disk, truth>>
    BY <1>8 DEF Rerun, Failing
  <2>2. \A i \in Runs \ {at} : dir'[i] = dir[i]
    BY <1>8, <2>1, DirEmptied
  <2> QED
    BY <2>1, <2>2 DEF True
<1>9. CASE RerunEnds
  BY <1>9 DEF RerunEnds, True
<1>22. CASE CutShort
  <2>1. at \in Runs /\ UNCHANGED <<rec, disk, truth>>
    BY <1>22 DEF CutShort, Failing
  <2>2. \A i \in Runs : dir'[i].files = dir[i].files
    BY <1>22, <2>1, DirLeft DEF CutShort
  <2> QED
    BY <2>1, <2>2 DEF True
<1>23. CASE Minimized
  <2>1. UNCHANGED <<dir, truth>> /\ (rerunning \/ UNCHANGED <<rec, disk>>)
    BY <1>23 DEF Minimized
  <2>2. CASE rerunning
    <3>1. rec'.runs = rec.runs /\ rec'.rerunning /\ disk' = rec'
      BY <2>2, RerunNoted
    <3> QED
      BY <2>1, <3>1 DEF True
  <2>3. CASE UNCHANGED <<rec, disk>>
    BY <2>1, <2>3 DEF True
  <2> QED
    BY <2>1, <2>2, <2>3
<1>10. CASE Report
  <2>1. at \in Runs /\ ToReport \in Sequenced /\ truth[at] = "violation" /\ UNCHANGED <<disk, truth>>
    BY <1>10 DEF Report, Failing, ToReport, Finds, Sequenced
  <2>2. \A i \in Runs : dir'[i].files = dir[i].files
    BY <1>10, <2>1, DirReported
  <2>3. /\ rec'.rerunning = rec.rerunning
        /\ \A j \in Runs : rec'.runs[j] = IF j = at THEN "violation" ELSE rec.runs[j]
    BY <1>10, <2>1, RunNoted DEF Report, Outcomes
  <2> QED
    BY <2>1, <2>2, <2>3 DEF True
<1>11. CASE ExerciseRow
  BY <1>11 DEF ExerciseRow, True
<1>12. CASE WriteMatrix
  BY <1>12 DEF WriteMatrix, True
<1>13. CASE Finish
  BY <1>13, EndNoted DEF Finish, Save, True
<1>14. CASE Close
  BY <1>14 DEF Close, True
<1>15. CASE Recheck
  BY <1>15, EndNoted DEF Recheck, rechecked, Save, True
<1>16. CASE Exit
  BY <1>16 DEF Exit, True
<1>17. CASE Interrupt
  BY <1>17 DEF Interrupt, True
<1>18. CASE Deadline
  BY <1>18 DEF Deadline, True
<1>19. CASE Kill
  BY <1>19 DEF Kill, True
<1>20. CASE Done
  BY <1>20 DEF Done, vars, True
<1>21. CASE UNCHANGED vars
  BY <1>21 DEF vars, True
<1> QED
  BY <1>1, <1>2, <1>3, <1>4, <1>5, <1>6, <1>7, <1>8, <1>9, <1>10, <1>11, <1>12, <1>13,
     <1>14, <1>15, <1>16, <1>17, <1>18, <1>19, <1>20, <1>21, <1>22, <1>23 DEF Next, Work

\* The runs go in order, and the first that fails is the last.
LEMMA InOrderKept == IInv /\ [Next]_vars => InOrder'
<1> SUFFICES ASSUME IInv, [Next]_vars PROVE InOrder'
  OBVIOUS
<1> USE InvocationConstants DEF IInv, TypeOK, Placed, InOrder, clusterVars, matrixVars
<1>1. CASE Plan
  BY <1>1 DEF Plan, Failing
<1>2. CASE OpenSession
  BY <1>2 DEF OpenSession, Failing
<1>3. CASE Prepare
  BY <1>3 DEF Prepare, Failing, Runs
<1>4. CASE NextRun
  BY <1>4 DEF NextRun, Failing, Runs
<1>5. CASE Execute
  <2>1. /\ at \in Runs /\ at' = at /\ truth[at] = "none"
        /\ \A i \in Runs \ {at} : truth'[i] = truth[i] /\ dir'[i] = dir[i]
        /\ pc' \in {"finish", "discard", "shrink", "report"}
    BY <1>5, Executed
  <2> QED
    BY <2>1 DEF Runs
<1>6. CASE Discard
  BY <1>6 DEF Discard
<1>7. CASE Shrink
  BY <1>7 DEF Shrink, Failing
<1>8. CASE Rerun
  <2>1. at \in Runs /\ at' = at /\ truth' = truth /\ pc' = "rerunEnds"
    BY <1>8 DEF Rerun, Failing
  <2>2. \A i \in Runs \ {at} : dir'[i] = dir[i]
    BY <1>8, <2>1, DirEmptied
  <2> QED
    BY <2>1, <2>2 DEF Runs
<1>9. CASE RerunEnds
  <2>1. /\ at \in Runs /\ at' = at /\ truth' = truth /\ pc' = "report"
        /\ find.shrunk \in Sequenced
    BY <1>9 DEF RerunEnds, Failing, Finds
  <2>2. \A i \in Runs \ {at} : dir'[i] = dir[i]
    BY <1>9, <2>1, DirWritten DEF RerunEnds
  <2> QED
    BY <2>1, <2>2 DEF Runs
<1>10. CASE Report
  <2>1. at \in Runs /\ at' = at /\ truth' = truth /\ pc' = "finish" /\ ToReport \in Sequenced
    BY <1>10 DEF Report, Failing, ToReport, Finds, Sequenced
  <2>2. \A i \in Runs \ {at} : dir'[i] = dir[i]
    BY <1>10, <2>1, DirReported
  <2> QED
    BY <2>1, <2>2 DEF Runs, Failing
<1>22. CASE CutShort
  BY <1>22 DEF CutShort, Failing
<1>23. CASE Minimized
  BY <1>23 DEF Minimized, Failing
<1>11. CASE ExerciseRow
  BY <1>11 DEF ExerciseRow, Failing
<1>12. CASE WriteMatrix
  BY <1>12 DEF WriteMatrix, Failing
<1>13. CASE Finish
  BY <1>13 DEF Finish, Failing
<1>14. CASE Close
  BY <1>14 DEF Close, Failing
<1>15. CASE Recheck
  BY <1>15 DEF Recheck, Failing
<1>16. CASE Exit
  BY <1>16 DEF Exit, Failing
<1>17. CASE Interrupt
  BY <1>17 DEF Interrupt
<1>18. CASE Deadline
  BY <1>18 DEF Deadline
<1>19. CASE Kill
  BY <1>19 DEF Kill, Failing
<1>20. CASE Done
  BY <1>20 DEF Done, vars
<1>21. CASE UNCHANGED vars
  BY <1>21 DEF vars
<1> QED
  BY <1>1, <1>2, <1>3, <1>4, <1>5, <1>6, <1>7, <1>8, <1>9, <1>10, <1>11, <1>12, <1>13,
     <1>14, <1>15, <1>16, <1>17, <1>18, <1>19, <1>20, <1>21, <1>22, <1>23 DEF Next, Work

\* A step writes only where the point it is at allows.
LEMMA PlacedKept == IInv /\ [Next]_vars => Placed'
<1> SUFFICES ASSUME IInv, [Next]_vars PROVE Placed'
  OBVIOUS
<1> USE InvocationConstants DEF IInv, TypeOK, InOrder, Placed, clusterVars, matrixVars
<1>0. ASSUME \A i \in Runs : dir[i].report = "none", \A i \in Runs \ {at} : dir'[i] = dir[i],
             dir'[at].report = "none"
      PROVE  (\A i \in Runs : dir'[i].report = "none") /\ ReportedIsRun'
  BY <1>0 DEF ReportedIsRun
<1>1. CASE Plan
  BY <1>1 DEF Plan, Running, Failing, ReportedIsRun
<1>2. CASE OpenSession
  BY <1>2 DEF OpenSession, Running, Failing, ReportedIsRun
<1>3. CASE Prepare
  BY <1>3 DEF Prepare, Running, Failing, ReportedIsRun
<1>4. CASE NextRun
  BY <1>4 DEF NextRun, Running, Failing, Runs, ReportedIsRun
<1>5. CASE Execute
  <2>1. /\ at \in Runs /\ at' = at
        /\ \A i \in Runs \ {at} : dir'[i] = dir[i]
        /\ dir'[at].report = "none"
        /\ \/ pc' = "finish"
           \/ pc' = "discard" /\ truth'[at] = "passed"
           \/ /\ pc' = (IF command = "drawn" THEN "shrink" ELSE "report")
              /\ truth'[at] = "violation" /\ dir'[at].files = "drawn" /\ dir'[at].seq = "drawn"
    BY <1>5, Executed
  <2>2. (\A i \in Runs : dir'[i].report = "none") /\ ReportedIsRun'
    BY <1>0, <1>5, <2>1 DEF Execute, Running
  <2>3. command' = command /\ command # "matrix" /\ command \in {"drawn", "named", "matrix"}
    BY <1>5 DEF Execute, Coded
  <2> QED
    BY <2>1, <2>2, <2>3 DEF Failing, ToReport
<1>6. CASE Discard
  BY <1>6 DEF Discard, Running, Failing, NoDir, ReportedIsRun
<1>7. CASE Shrink
  <2>1. /\ at \in Runs /\ at' = at /\ pc' = "cut" /\ UNCHANGED <<command, dir, truth>>
        /\ find'.shrunk \in {"drawn", "small"} /\ find'.reported = find'.shrunk
    BY <1>7 DEF Shrink, Failing, Finds
  <2>2. ReportedIsRun'
    BY <1>0, <1>7, <2>1 DEF Shrink, Failing
  <2> QED
    BY <1>7, <2>1, <2>2 DEF Shrink, Failing
<1>8. CASE Rerun
  <2>1. /\ pc = "rerun" /\ at \in Runs /\ at' = at /\ pc' = "rerunEnds"
        /\ UNCHANGED <<command, rec, disk, truth>>
    BY <1>8 DEF Rerun, Failing
  <2>2. /\ \A i \in Runs \ {at} : dir'[i] = dir[i]
        /\ dir'[at].report \in {dir[at].report, "none"}
        /\ find'.shrunk = find.shrunk /\ find'.reported = find.reported
        /\ find'.warned \/ dir'[at].files = "none"
    BY <1>8, <2>1, DirEmptied
  <2>3. (\A i \in Runs : dir'[i].report = "none") /\ ReportedIsRun'
    BY <1>0, <2>1, <2>2 DEF Failing
  <2> QED
    BY <2>1, <2>2, <2>3 DEF Failing
<1>9. CASE RerunEnds
  <2>1. /\ pc = "rerunEnds" /\ at \in Runs /\ at' = at /\ pc' = "report"
        /\ UNCHANGED <<command, truth, find>> /\ find.shrunk \in Sequenced
    BY <1>9 DEF RerunEnds, Failing, Finds
  <2>2. /\ \A i \in Runs \ {at} : dir'[i] = dir[i]
        /\ dir'[at].files \in {dir[at].files, find.shrunk} /\ dir'[at].report = dir[at].report
    BY <1>9, <2>1, DirWritten DEF RerunEnds
  <2>3. (\A i \in Runs : dir'[i].report = "none") /\ ReportedIsRun'
    BY <1>0, <2>1, <2>2 DEF Failing
  <2> QED
    BY <2>1, <2>2, <2>3 DEF Failing, ToReport
<1>10. CASE Report
  <2>1. /\ pc = "report" /\ at \in Runs /\ at' = at /\ pc' = "finish" /\ ToReport \in Sequenced
    BY <1>10 DEF Report, Failing, ToReport, Finds, Sequenced
  <2>2. /\ \A i \in Runs \ {at} : dir'[i] = dir[i]
        /\ dir'[at].files = dir[at].files
        /\ find'.torn = find.torn /\ (find.warned => find'.warned)
        /\ \/ find'.warned
           \/ /\ dir'[at].report = ToReport
              /\ dir'[at].seq = IF command = "named" THEN dir[at].seq ELSE ToReport
    BY <1>10, <2>1, DirReported
  <2>3. /\ \A i \in Runs : dir[i].report = "none"
        /\ command = "named" => dir[at].seq = ToReport
        /\ find.warned \/ find.torn \/ dir[at].files \in {"none", ToReport}
    BY <2>1 DEF Failing, ToReport
  <2>4. ReportedIsRun'
    BY <2>2, <2>3 DEF ReportedIsRun
  <2> QED
    BY <2>1, <2>4 DEF Running, Failing
<1>22. CASE CutShort
  <2>1. pc = "cut" /\ at \in Runs /\ UNCHANGED <<at, command, rec, disk, truth>>
    BY <1>22 DEF CutShort, Failing
  <2>2. \A i \in Runs : /\ dir'[i].files = dir[i].files
                        /\ dir'[i].seq = dir[i].seq
                        /\ dir'[i].report = dir[i].report
    BY <1>22, <2>1, DirLeft DEF CutShort
  <2>3. (\A i \in Runs : dir'[i].report = "none") /\ ReportedIsRun'
    BY <2>1, <2>2 DEF Failing, ReportedIsRun
  <2>4. \/ pc' = "report" /\ find'.reported = "drawn"
        \/ pc' = "minimized" /\ find' = find
    BY <1>22 DEF CutShort, evidenced, Finds
  <2> QED
    BY <2>1, <2>2, <2>3, <2>4 DEF Failing, ToReport
<1>23. CASE Minimized
  <2>1. pc = "minimized" /\ at \in Runs /\ UNCHANGED <<at, command, dir, truth>>
    BY <1>23 DEF Minimized, Failing
  <2>2. ReportedIsRun'
    BY <1>0, <2>1 DEF Failing
  <2>3. CASE pc' = "rerun" /\ rerunning /\ find' = find
    <3>1. rec'.rerunning /\ disk'.rerunning
      BY <2>3, RerunNoted
    <3> QED
      BY <2>1, <2>2, <2>3, <3>1 DEF Failing
  <2>4. CASE pc' = "report" /\ find' = [find EXCEPT !.torn = simplified]
    <3>1. find'.reported = find.shrunk /\ (find'.torn \/ find.shrunk = "drawn")
      BY <2>1, <2>4 DEF Finds, simplified
    <3> QED
      BY <2>1, <2>2, <2>4, <3>1 DEF Failing, ToReport
  <2> QED
    BY <1>23, <2>3, <2>4 DEF Minimized
<1>11. CASE ExerciseRow
  BY <1>11 DEF ExerciseRow, Running, Failing, ReportedIsRun
<1>12. CASE WriteMatrix
  BY <1>12 DEF WriteMatrix, Running, Failing, ReportedIsRun
<1>13. CASE Finish
  BY <1>13 DEF Finish, Running, Failing, ReportedIsRun
<1>14. CASE Close
  BY <1>14 DEF Close, Running, Failing, ReportedIsRun
<1>15. CASE Recheck
  BY <1>15 DEF Recheck, Running, Failing, ReportedIsRun
<1>16. CASE Exit
  BY <1>16 DEF Exit, Running, Failing, ReportedIsRun
<1>17. CASE Interrupt
  BY <1>17 DEF Interrupt, ReportedIsRun, ToReport
<1>18. CASE Deadline
  BY <1>18 DEF Deadline, ReportedIsRun, ToReport
<1>19. CASE Kill
  BY <1>19 DEF Kill, Running, Failing, ReportedIsRun
<1>20. CASE Done
  BY <1>20 DEF Done, vars, ReportedIsRun, ToReport
<1>21. CASE UNCHANGED vars
  BY <1>21 DEF vars, ReportedIsRun, ToReport
<1> QED
  BY <1>1, <1>2, <1>3, <1>4, <1>5, <1>6, <1>7, <1>8, <1>9, <1>10, <1>11, <1>12, <1>13,
     <1>14, <1>15, <1>16, <1>17, <1>18, <1>19, <1>20, <1>21, <1>22, <1>23 DEF Next, Work

\* The exit code is set where the runs and the rows justify it.
LEMMA CodedKept == IInv /\ [Next]_vars => Coded'
<1> SUFFICES ASSUME IInv, [Next]_vars PROVE Coded'
  OBVIOUS
<1> USE InvocationConstants DEF IInv, TypeOK, InOrder, Placed, Coded, clusterVars, matrixVars
<1>1. CASE Plan
  BY <1>1 DEF Plan, Running, Failing, Ending
<1>2. CASE OpenSession
  BY <1>2 DEF OpenSession, Running, Failing, Ending
<1>3. CASE Prepare
  BY <1>3 DEF Prepare, Running, Failing, Ending
<1>4. CASE NextRun
  BY <1>4 DEF NextRun, stoppedCode, Running, Failing, Ending, Runs
<1>5. CASE Execute
  BY <1>5 DEF Execute, Running, Failing, Ending
<1>6. CASE Discard
  BY <1>6 DEF Discard, Running, Failing, Ending
<1>7. CASE Shrink
  BY <1>7 DEF Shrink, Running, Failing, Ending
<1>8. CASE Rerun
  BY <1>8 DEF Rerun, Running, Failing, Ending
<1>9. CASE RerunEnds
  BY <1>9 DEF RerunEnds, Running, Failing, Ending
<1>10. CASE Report
  <2>1. at \in Runs /\ ToReport \in Sequenced /\ ToReport # "none" /\ truth[at] = "violation"
    BY <1>10 DEF Report, Failing, ToReport, Finds, Sequenced
  <2>2. find'.warned \/ dir'[at].report = ToReport
    BY <1>10, <2>1, DirReported
  <2> QED
    BY <1>10, <2>1, <2>2 DEF Report, Running, Failing
<1>22. CASE CutShort
  BY <1>22 DEF CutShort, Running, Failing, Ending
<1>23. CASE Minimized
  BY <1>23 DEF Minimized, Running, Failing, Ending
<1>11. CASE ExerciseRow
  BY <1>11 DEF ExerciseRow, Running, Failing, Ending
<1>12. CASE WriteMatrix
  BY <1>12 DEF WriteMatrix, judged, Running, Failing
<1>13. CASE Finish
  BY <1>13 DEF Finish, Running, Failing, Ending
<1>14. CASE Close
  BY <1>14 DEF Close, Running, Failing, Ending
<1>15. CASE Recheck
  BY <1>15 DEF Recheck, rechecked, Running, Failing, Ending
<1>16. CASE Exit
  BY <1>16 DEF Exit, exitStatus, Running, Failing, Ending, Killed
<1>17. CASE Interrupt
  BY <1>17 DEF Interrupt
<1>18. CASE Deadline
  BY <1>18 DEF Deadline
<1>19. CASE Kill
  BY <1>19 DEF Kill, Running, Failing, Ending
<1>20. CASE Done
  BY <1>20 DEF Done, vars
<1>21. CASE UNCHANGED vars
  BY <1>21 DEF vars
<1> QED
  BY <1>1, <1>2, <1>3, <1>4, <1>5, <1>6, <1>7, <1>8, <1>9, <1>10, <1>11, <1>12, <1>13,
     <1>14, <1>15, <1>16, <1>17, <1>18, <1>19, <1>20, <1>21, <1>22, <1>23 DEF Next, Work

\* The last save and the teardown come before the exit.
LEMMA LeftKept == IInv /\ [Next]_vars => Left'
<1> SUFFICES ASSUME IInv, [Next]_vars PROVE Left'
  OBVIOUS
<1> USE InvocationConstants DEF IInv, TypeOK, Coded, Left, clusterVars, matrixVars
<1>1. CASE Plan
  BY <1>1 DEF Plan, SummaryTellsExit
<1>2. CASE OpenSession
  BY <1>2 DEF OpenSession, SummaryTellsExit
<1>3. CASE Prepare
  BY <1>3 DEF Prepare, knownFirst, SummaryTellsExit
<1>4. CASE NextRun
  BY <1>4 DEF NextRun, SummaryTellsExit
<1>5. CASE Execute
  BY <1>5 DEF Execute, SummaryTellsExit
<1>6. CASE Discard
  BY <1>6 DEF Discard, SummaryTellsExit
<1>7. CASE Shrink
  BY <1>7 DEF Shrink, SummaryTellsExit
<1>22. CASE CutShort
  BY <1>22 DEF CutShort, SummaryTellsExit
<1>23. CASE Minimized
  BY <1>23 DEF Minimized, SummaryTellsExit, Failing
<1>8. CASE Rerun
  BY <1>8 DEF Rerun, SummaryTellsExit
<1>9. CASE RerunEnds
  BY <1>9 DEF RerunEnds, SummaryTellsExit
<1>10. CASE Report
  BY <1>10 DEF Report, SummaryTellsExit
<1>11. CASE ExerciseRow
  BY <1>11 DEF ExerciseRow, SummaryTellsExit
<1>12. CASE WriteMatrix
  BY <1>12 DEF WriteMatrix, SummaryTellsExit
<1>13. CASE Finish
  BY <1>13 DEF Finish, Save, SummaryTellsExit
<1>14. CASE Close
  BY <1>14 DEF Close, SummaryTellsExit
<1>15. CASE Recheck
  <2>1. /\ pc = "recheck" /\ pc' = "exit"
        /\ UNCHANGED <<command, signal, code, clusterVars>>
        /\ \/ UNCHANGED <<rec, disk>> /\ (command = "matrix" \/ exitStatus = rec.exit)
           \/ command # "matrix" /\ rec' = finished /\ disk' = finished
    BY <1>15 DEF Recheck, rechecked, Save
  <2>2. exitStatus' = exitStatus /\ finished.exit = exitStatus
    BY <2>1, EndNoted DEF exitStatus
  <2> QED
    BY <2>1, <2>2 DEF SummaryTellsExit
<1>16. CASE Exit
  BY <1>16 DEF Exit, SummaryTellsExit
<1>17. CASE Interrupt
  BY <1>17 DEF Interrupt, SummaryTellsExit
<1>18. CASE Deadline
  BY <1>18 DEF Deadline, SummaryTellsExit
<1>19. CASE Kill
  BY <1>19 DEF Kill, SummaryTellsExit
<1>20. CASE Done
  BY <1>20 DEF Done, vars, SummaryTellsExit, exitStatus
<1>21. CASE UNCHANGED vars
  BY <1>21 DEF vars, SummaryTellsExit, exitStatus
<1> QED
  BY <1>1, <1>2, <1>3, <1>4, <1>5, <1>6, <1>7, <1>8, <1>9, <1>10, <1>11, <1>12, <1>13,
     <1>14, <1>15, <1>16, <1>17, <1>18, <1>19, <1>20, <1>21, <1>22, <1>23 DEF Next, Work

\* The invariant holds of every behaviour.
LEMMA Inductive == Spec => []IInv
<1>1. IInv /\ [Next]_vars => IInv'
  BY TypeOKKept, RecordedKept, InOrderKept, PlacedKept, CodedKept, LeftKept DEF IInv
<1> QED
  BY Starts, <1>1, PTL DEF Spec

-----------------------------------------------------------------------------
(* The theorems. *)

\* Wherever a signal or the deadline stops an invocation, what it has left on disk
\* is true: the summary of the runs that passed and failed, and each report of the
\* sequence its directory holds (runAll, reportFailure and exercise in cli.go).
THEOREM FilesAreHonest == Spec => []FilesHonest
<1>1. IInv => FilesHonest
  BY DEF IInv, FilesHonest, SummaryHonest, Recorded, True, Placed
<1> QED
  BY Inductive, <1>1, PTL

\* A process that exits does so with the code its summary has, which is true of its
\* runs or of its matrix, and has closed its cluster but for what an error it
\* printed names (exercise, bugMatrix, Prepare and
\* clusterSession.close in cli.go and matrix.go).
THEOREM ExitIsTrue == Spec => []ExitTells
<1>1. IInv => ExitTells
  <2>1. Left => SummaryTellsExit /\ ClusterClosed
    BY DEF Left, ClusterClosed
  <2>2. Coded => CodeTellsTruth
    <3> SUFFICES ASSUME Coded, pc = "gone" PROVE CodeTellsTruth
      BY DEF CodeTellsTruth
    <3>1. pc \in Ending
      BY DEF Ending
    <3>2. code = 0 => IF command = "matrix"
                      THEN written /\ \A b \in DOMAIN rows :
                              rows[b] = [bugged |-> IF b = 0 THEN 0 ELSE 1, correct |-> 0]
                      ELSE \A i \in Runs : truth[i] = "passed"
      BY <3>1, ZenonT(60) DEF Coded
    <3>3. code = 1 /\ command = "matrix" => written
      BY <3>1, Zenon DEF Coded
    <3>4. code = 1 /\ command # "matrix" =>
              \E i \in Runs : truth[i] = "violation" /\ (dir[i].report # "none" \/ find.warned)
      BY <3>1, Zenon DEF Coded
    <3> QED
      BY <3>2, <3>3, <3>4, ZenonT(60) DEF CodeTellsTruth
  <2> QED
    BY <2>1, <2>2 DEF IInv, ExitTells
<1> QED
  BY Inductive, <1>1, PTL

=============================================================================
