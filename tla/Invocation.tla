----------------------------- MODULE Invocation -----------------------------
(***************************************************************************)
(* One invocation of the command line (cmd/reconciler-fuzzer: cli.go,      *)
(* matrix.go, summary.go, main.go; internal/run: output.go, invocation.go):*)
(* the runs in order, the minimizing and the second run of what failed,    *)
(* the summary and the run directories on disk, under a deadline, an       *)
(* interrupt, and a second one that kills the process where it stands.     *)
(*                                                                         *)
(* A run and a shrink pass are one step each: Runner and Shrink model them.*)
(* A summary that cannot be written is a warning, and is left out.  A call *)
(* that fails took before it failed or never takes.                        *)
(***************************************************************************)
EXTENDS Integers, Sequences, FiniteSets

CONSTANTS
    NRuns,            \* the runs planned
    ClusterFixtures,  \* the fixtures the runs share
    Bugs              \* the bugs of a matrix, besides the control

ASSUME InvocationConstants == NRuns \in Nat /\ Bugs \subseteq Nat \ {0}

VARIABLES
    command,   \* "drawn" or "named", a run of sequences drawn or named, or "matrix"
    pc, at,    \* where the invocation is, and the run it is at
    signal,    \* where it was when the first signal came, "no" before
    ended,     \* what ended the runs' context first: "no", "interrupt", "deadline"
    code,      \* what exercise or bugMatrix returns
    rec, disk, \* the summary, in memory and as last saved
    dir,       \* per run, its directory: the sequence its recordings are of,
               \* the sequence in sequence.json and in the report, and the
               \* sequence left unrun
    truth,     \* per run, how the run of its planned sequence ended
    find,      \* reportFailure: the sequence the shrink pass ended with, the one
               \* to report, whether a warning said that the directory could not
               \* be removed or written, and whether the context ended between
               \* the two cases that ask if it has
    session,   \* the cluster: "none", "started" by this process, or "connected"
    shared,    \* what it has up there: the cluster and the shared fixtures
    created,   \* the shared fixtures it knows it created (inv.created)
    told,      \* what of the cluster an error it printed names
    rows,      \* per bug and the control (0), whether a check fired under the
               \* bug and without it; -1 before its run
    written    \* the matrix is on disk

clusterVars == <<session, shared, created, told>>
matrixVars == <<rows, written>>
vars == <<command, pc, at, signal, ended, code, rec, disk, dir, truth, find, clusterVars, matrixVars>>

Runs == 1 .. NRuns
NoCode == -1
Killed == 128
NoDir == [files |-> "none", seq |-> "none", report |-> "none", left |-> "none"]

newSummary == [outcome |-> "unfinished", exit |-> NoCode, runs |-> [i \in Runs |-> "notRun"],
               rerunning |-> FALSE]
NoSummary == [newSummary EXCEPT !.outcome = "none"]

Init ==
    /\ command \in {"drawn", "named", "matrix"} /\ pc = "plan" /\ at = 0
    /\ signal = "no" /\ ended = "no" /\ code = NoCode
    /\ rec = newSummary /\ disk = NoSummary
    /\ dir = [i \in Runs |-> NoDir] /\ truth = [i \in Runs |-> "none"]
    /\ find = [shrunk |-> "none", reported |-> "none", warned |-> FALSE, torn |-> FALSE]
    /\ session = "none" /\ shared = {} /\ created = {} /\ told = {} /\ written = FALSE
    /\ rows = [b \in Bugs \cup {0} |-> [bugged |-> -1, correct |-> -1]]

Save(r) == rec' = r /\ disk' = r
exitStatus == IF signal # "no" THEN Killed ELSE code

-----------------------------------------------------------------------------
(* Planning, and the session all runs share. *)

\* exercise: an error before the directory exists leaves no summary.
Plan ==
    /\ pc = "plan"
    /\ \/ pc' = "exit" /\ code' = 2 /\ UNCHANGED <<rec, disk>>
       \/ /\ pc' = "session" /\ UNCHANGED code
          /\ IF command = "matrix" THEN UNCHANGED <<rec, disk>> ELSE Save(newSummary)
    /\ UNCHANGED <<command, at, signal, ended, dir, truth, find, clusterVars, matrixVars>>

\* A control plane this process starts is its own to stop; one that starts and then
\* fails (its CRDs) is not stopped.  A cluster a kubeconfig names is left running.
OpenSession ==
    /\ pc = "session"
    /\ \/ /\ pc' = "finish" /\ code' = 2 /\ UNCHANGED session
          /\ \E half \in SUBSET {"cluster"} : shared' = half /\ told' = half
       \/ /\ pc' = "prepare" /\ UNCHANGED <<code, told>>
          /\ \/ session' = "started" /\ shared' = {"cluster"}
             \/ session' = "connected" /\ shared' = {}
    /\ UNCHANGED <<command, at, signal, ended, rec, disk, dir, truth, find, created, matrixVars>>

\* Mutant: the session has its invocation once all is prepared.
knownLate(made) == {}

\* The session has its invocation before it prepares it.
knownFirst(made) == made

\* vet and prepare, which can fail with some of the fixtures created.  The create
\* that fails, which its error names, may have taken: it is not on the list.
Prepare ==
    /\ pc = "prepare"
    /\ \/ /\ pc' = "finish" /\ code' = 2
          /\ \E made \in SUBSET ClusterFixtures :
             \E took \in {{}} \cup {{f} : f \in ClusterFixtures \ made} :
                /\ shared' = shared \cup made \cup took
                /\ created' = knownFirst(made) /\ told' = told \cup took
       \/ /\ pc' = IF command = "matrix" THEN "row" ELSE "next"
          /\ shared' = shared \cup ClusterFixtures /\ created' = ClusterFixtures
          /\ UNCHANGED <<code, told>>
    /\ UNCHANGED <<command, at, signal, ended, rec, disk, dir, truth, find, session, matrixVars>>

-----------------------------------------------------------------------------
(* The runs (runAll). *)

\* An invocation that is stopped tested less than asked.
stoppedCode == 2

\* The first run starts whatever the deadline.
NextRun ==
    /\ pc = "next"
    /\ LET stops == ended = "interrupt" \/ (at > 0 /\ ended # "no")
       IN  IF at = NRuns \/ stops
           THEN /\ pc' = "finish" /\ code' = IF at = NRuns THEN 0 ELSE stoppedCode
                /\ UNCHANGED <<at, rec, disk>>
           ELSE /\ pc' = "execute" /\ at' = at + 1 /\ UNCHANGED code
                /\ Save([rec EXCEPT !.runs[at + 1] = "unfinished"])
    /\ UNCHANGED <<command, signal, ended, dir, truth, find, clusterVars, matrixVars>>

\* Minimizing can take minutes, so the summary keeps the find first.
found == Save([rec EXCEPT !.runs[at] = "violation"])

\* A run writes its sequence, then its recordings; one that errs may write neither,
\* or its sequence only.
wrote(sequence) == [dir EXCEPT ![at].files = sequence, ![at].seq = sequence]
wroteSome(sequence) == {dir, [dir EXCEPT ![at].seq = sequence], wrote(sequence)}

\* An error outweighs a violation; named blames the interrupt for a run its
\* context cut short.
Execute ==
    /\ pc = "execute"
    /\ \/ /\ truth' = [truth EXCEPT ![at] = "error"] /\ pc' = "finish" /\ code' = 2
          /\ rec' \in {[rec EXCEPT !.runs[at] = o] :
                         o \in {"error"} \cup {x \in {"interrupted"} : ended = "interrupt"}}
          /\ disk' = disk /\ dir' \in wroteSome("drawn")
       \/ /\ truth' = [truth EXCEPT ![at] = "violation"] /\ code' = 1 /\ found
          /\ pc' = IF command = "drawn" THEN "shrink" ELSE "report"
          /\ dir' = wrote("drawn")
       \/ /\ truth' = [truth EXCEPT ![at] = "passed"] /\ pc' = "discard" /\ UNCHANGED code
          /\ rec' = [rec EXCEPT !.runs[at] = "passed"] /\ disk' = disk
          /\ dir' = wrote("drawn")
    /\ UNCHANGED <<command, at, signal, ended, find, clusterVars, matrixVars>>

Discard ==
    /\ pc = "discard"
    /\ \/ pc' = "next" /\ dir' = [dir EXCEPT ![at] = NoDir] /\ UNCHANGED code
       \/ pc' = "finish" /\ code' = 2 /\ UNCHANGED dir
    /\ UNCHANGED <<command, at, signal, ended, rec, disk, truth, find, clusterVars, matrixVars>>

-----------------------------------------------------------------------------
(* What failed (reportFailure). *)

\* Mutant: the summary learns of the second run with its report.
rerunningUnsaved == rec' = [rec EXCEPT !.rerunning = TRUE] /\ disk' = disk

rerunning == Save([rec EXCEPT !.rerunning = TRUE])

\* The pass ends with a smaller sequence or without, ...
Shrink ==
    /\ pc = "shrink" /\ pc' = "cut"
    /\ \E s \in {"drawn", "small"} : find' = [find EXCEPT !.shrunk = s, !.reported = s]
    /\ UNCHANGED <<command, at, signal, ended, code, rec, disk, dir, truth, clusterVars, matrixVars>>

simplified == find.shrunk # "drawn"

\* Mutant: the smaller sequence is reported, though it was not run.
unrun == find.shrunk

\* The sequence the directory's evidence is of.
evidenced == "drawn"

\* ... a smaller one that the end of the context leaves no time to run is kept
\* beside the evidence, ...
CutShort ==
    /\ pc = "cut"
    /\ IF ended # "no" /\ simplified
       THEN /\ pc' = "report" /\ find' = [find EXCEPT !.reported = evidenced]
            /\ dir' \in {dir, [dir EXCEPT ![at].left = find.shrunk]}
       ELSE pc' = "minimized" /\ UNCHANGED <<find, dir>>
    /\ UNCHANGED <<command, at, signal, ended, code, rec, disk, truth, clusterVars, matrixVars>>

\* ... and one there is time for is run again.  The context may have ended since
\* the case before asked: then it is neither.
Minimized ==
    /\ pc = "minimized"
    /\ IF ended = "no" /\ simplified
       THEN rerunning /\ pc' = "rerun" /\ UNCHANGED find
       ELSE pc' = "report" /\ UNCHANGED <<rec, disk>> /\ find' = [find EXCEPT !.torn = simplified]
    /\ UNCHANGED <<command, at, signal, ended, code, dir, truth, clusterVars, matrixVars>>

\* The minimized sequence takes the place of what the directory held, as far as that
\* can be removed.
Rerun ==
    /\ pc = "rerun" /\ pc' = "rerunEnds"
    /\ \/ dir' = [dir EXCEPT ![at] = NoDir] /\ UNCHANGED find
       \/ /\ find' = [find EXCEPT !.warned = TRUE]
          /\ dir' \in {dir, [dir EXCEPT ![at].files = "none"], [dir EXCEPT ![at].seq = "none"]}
    /\ UNCHANGED <<command, at, signal, ended, code, rec, disk, truth, clusterVars, matrixVars>>

\* It may find something else, pass, or not finish or even start; the finding stands.
RerunEnds ==
    /\ pc = "rerunEnds" /\ pc' = "report"
    /\ dir' \in wroteSome(find.shrunk)
    /\ UNCHANGED <<command, at, signal, ended, code, rec, disk, truth, find, clusterVars, matrixVars>>

\* The sequence the caller named is reported as it was written.  What cannot be
\* written is a warning: the finding stands.
Report ==
    /\ pc = "report" /\ pc' = "finish"
    /\ LET reported == IF command = "named" THEN "drawn" ELSE find.reported
           files == IF command = "named" THEN {"report"} ELSE {"seq", "report"}
       IN  \E done \in SUBSET files :
              /\ dir' = [dir EXCEPT ![at].seq = IF "seq" \in done THEN reported ELSE @,
                                    ![at].report = IF "report" \in done THEN reported ELSE @]
              /\ find' = [find EXCEPT !.warned = @ \/ done # files]
    /\ rec' = [rec EXCEPT !.runs[at] = "violation"]
    /\ UNCHANGED <<command, at, signal, ended, code, disk, truth, clusterVars, matrixVars>>

-----------------------------------------------------------------------------
(* The end (exercise after its runs, clusterSession.close). *)

finished ==
    [rec EXCEPT !.exit = exitStatus,
                !.outcome = IF signal # "no" THEN "interrupted"
                            ELSE CASE code = 0 -> "passed" [] code = 1 -> "violation" [] OTHER -> "error"]

\* The summary comes before the cluster, which takes seconds to stop.
Finish ==
    /\ pc = "finish" /\ pc' = "close"
    /\ IF command = "matrix" THEN UNCHANGED <<rec, disk>> ELSE Save(finished)
    /\ UNCHANGED <<command, at, signal, ended, code, dir, truth, find, clusterVars, matrixVars>>

\* Every fixture on the list is tried, and then a cluster of its own is stopped,
\* which may fail too.
Close ==
    /\ pc = "close" /\ pc' = "recheck"
    /\ LET own == {c \in {"cluster"} : session = "started"}
       IN  \E lost \in SUBSET (created \cup own) :
              shared' = shared \ ((created \cup own) \ lost) /\ told' = told \cup lost
    /\ UNCHANGED <<command, at, signal, ended, code, rec, disk, dir, truth, find, session, created,
                   matrixVars>>

\* Mutant: what was saved before the cluster stopped stands.
recheckedNot == UNCHANGED <<rec, disk>>

\* An interrupt that came since changes what the process exits with.
rechecked ==
    IF command # "matrix" /\ exitStatus # rec.exit THEN Save(finished) ELSE UNCHANGED <<rec, disk>>

Recheck ==
    /\ pc = "recheck" /\ pc' = "exit" /\ rechecked
    /\ UNCHANGED <<command, at, signal, ended, code, dir, truth, find, clusterVars, matrixVars>>

\* A process that was interrupted dies of the signal.
Exit ==
    /\ pc = "exit" /\ pc' = "gone" /\ code' = exitStatus
    /\ UNCHANGED <<command, at, signal, ended, rec, disk, dir, truth, find, clusterVars, matrixVars>>

-----------------------------------------------------------------------------
(* The bug matrix (bugMatrix, exerciseRow, judge). *)

Unrun == {b \in DOMAIN rows : rows[b].correct = -1}
Row == CHOOSE b \in Unrun : \A other \in Unrun : b <= other

\* Each row under its bug first, then without; the control has one run, which
\* is both.  A run that errs ends the matrix.
ExerciseRow ==
    /\ pc = "row" /\ Unrun # {}
    /\ \/ pc' = "finish" /\ code' = 2 /\ UNCHANGED rows
       \/ /\ UNCHANGED <<pc, code>>
          /\ \E fired \in {0, 1} :
                rows' = [rows EXCEPT ![Row] =
                    IF Row = 0 THEN [bugged |-> fired, correct |-> fired]
                    ELSE IF @.bugged = -1 THEN [@ EXCEPT !.bugged = fired]
                    ELSE [@ EXCEPT !.correct = fired]]
    /\ UNCHANGED <<command, at, signal, ended, rec, disk, dir, truth, find, clusterVars, written>>

\* A check catches every bug, and none fires without one.
judged ==
    IF (\A b \in Bugs : rows[b].bugged = 1) /\ (\A b \in DOMAIN rows : rows[b].correct = 0)
    THEN 0 ELSE 1

WriteMatrix ==
    /\ pc = "row" /\ Unrun = {} /\ pc' = "finish"
    /\ \/ written' = TRUE /\ code' = judged
       \/ written' = FALSE /\ code' = 2
    /\ UNCHANGED <<command, at, signal, ended, rec, disk, dir, truth, find, clusterVars, rows>>

-----------------------------------------------------------------------------
(* Signals and the deadline. *)

Over == pc \in {"gone", "killed"}

Interrupt ==
    /\ ~Over /\ signal = "no" /\ signal' = pc
    /\ ended' = IF ended = "no" THEN "interrupt" ELSE ended
    /\ UNCHANGED <<command, pc, at, code, rec, disk, dir, truth, find, clusterVars, matrixVars>>

Deadline ==
    /\ pc \in {"next", "execute", "discard", "shrink", "cut", "minimized", "rerun", "rerunEnds",
              "report", "row"}
    /\ ended = "no" /\ ended' = "deadline"
    /\ UNCHANGED <<command, pc, at, signal, code, rec, disk, dir, truth, find, clusterVars, matrixVars>>

\* A second signal kills the process where it stands.
Kill ==
    /\ ~Over /\ signal # "no" /\ pc' = "killed"
    /\ UNCHANGED <<command, at, signal, ended, code, rec, disk, dir, truth, find, clusterVars, matrixVars>>

Done == Over /\ UNCHANGED vars

Work ==
    \/ Plan \/ OpenSession \/ Prepare \/ NextRun \/ Execute \/ Discard
    \/ Shrink \/ CutShort \/ Minimized \/ Rerun \/ RerunEnds \/ Report \/ ExerciseRow \/ WriteMatrix
    \/ Finish \/ Close \/ Recheck \/ Exit

Next == Work \/ Interrupt \/ Deadline \/ Kill \/ Done

Spec == Init /\ [][Next]_vars

-----------------------------------------------------------------------------
(* Properties. *)

\* Wherever the process is killed, the summary on disk is true: it names no
\* run passed or failed that was not, it names a find while that is minimized,
\* and it says that a directory may hold a run of the minimized sequence
\* before the directory stops holding the run the find is of.
SummaryHonest ==
    disk # NoSummary => \A i \in Runs :
        /\ disk.runs[i] \in {"passed", "violation"} => truth[i] = disk.runs[i]
        /\ truth[i] = "violation" =>
              disk.runs[i] = "violation" /\ (dir[i].files # "drawn" => disk.rerunning)

\* A report is of the sequence in sequence.json, and of the run the directory has
\* recordings of, if any, whatever cut the minimizing or the second run short:
\* unless a warning said what could not be removed or written.  But for one window
\* of the code: reportFailure asks twice whether the context has ended, and where
\* it ends in between, the smaller sequence is reported beside a run of another.
ReportedIsRun ==
    \A i \in Runs : dir[i].report # "none" /\ ~find.warned /\ ~find.torn =>
        dir[i].seq = dir[i].report /\ dir[i].files \in {"none", dir[i].report}

\* What an invocation leaves on disk is true at every moment.
FilesHonest == SummaryHonest /\ ReportedIsRun

\* The process exits with what its summary says, unless the signal came after
\* the summary was last looked at.
SummaryTellsExit ==
    pc = "gone" /\ disk # NoSummary => disk.exit = code \/ signal = "exit"

\* 0 is for an invocation that ran all it planned and found nothing, or a
\* matrix that is written and as it should be; 1 for a find that is reported, or
\* whose report a warning said could not be written, or a matrix that is not as it
\* should be.
CodeTellsTruth ==
    pc = "gone" =>
        /\ code = 0 => IF command = "matrix"
                       THEN written /\ \A b \in DOMAIN rows : rows[b] = [bugged  |-> IF b = 0 THEN 0 ELSE 1,
                                                                        correct |-> 0]
                       ELSE \A i \in Runs : truth[i] = "passed"
        /\ code = 1 => IF command = "matrix" THEN written
                       ELSE \E i \in Runs :
                                truth[i] = "violation" /\ (dir[i].report # "none" \/ find.warned)

\* What an invocation that is not killed leaves up of its cluster, an error that it
\* printed names: fixtures it created before a later one failed are not left, and
\* no failed deletion keeps the others or the cluster up.
ClusterClosed == pc = "gone" => shared \subseteq told

\* A process that exits tells the truth by its code, its summary and what it
\* says of its cluster.
ExitTells == SummaryTellsExit /\ CodeTellsTruth /\ ClusterClosed
=============================================================================
