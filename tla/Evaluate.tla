------------------------------- MODULE Evaluate -------------------------------
(***************************************************************************)
(* The two long evaluations of a running head: hle, whose output directory *)
(* several runs share and resume, and freedombench, which asks a question  *)
(* again until it gets a choice.  Both hold the host's request lock for as *)
(* long as they ask.                                                       *)
(*                                                                         *)
(* Abstracted: what identifies a run (run_manifest) is a member of Runs and*)
(* the number of questions; an answer is how it was got.  write_json       *)
(* replaces a file whole, so a file is one value.  A request sent through  *)
(* ask is one step (AskLpa has its calls), and may be answered at any time *)
(* or never.  The head is looked at once, before the lock.                 *)
(***************************************************************************)
EXTENDS Integers, Sequences, SequencesExt, FiniteSets

CONSTANTS
    Drivers,        \* the processes that evaluate
    Arguments,      \* what a driver may be started with
    Questions,      \* the number of questions in the file
    MaxAttempts     \* freedombench's --max-attempts

None == "none"
NoManifest == [run |-> 0, questions |-> 0]
Unanswered == [of |-> NoManifest, code |-> 0]
Gone == [stage |-> "ended", args |-> CHOOSE a \in Arguments : TRUE, row |-> 1, fresh |-> 0]
NoReport == [status |-> "absent", pilot |-> FALSE, open |-> FALSE, results |-> <<>>,
             exit |-> "none"]

VARIABLES
    holder,     \* who holds startup-request.lock, or None
    at,         \* per driver: its stage, what it was started with (args), the
                \* question it is at (row), and how many it answered (fresh)
    manifest,   \* manifest.json of the shared output directory, or NoManifest
    answers,    \* per question, its file under answers/, or Unanswered
    stopFile,   \* whether STOP is there
    state,      \* status.json
    report,     \* freedombench's result.json, "empty" before the first save
    raced,      \* ghost: a manifest was written over another run's
    resent      \* ghost: an answered question was answered again

output == <<manifest, answers, stopFile, state>>
vars == <<holder, at, output, report, raced, resent>>

\* A limit makes a pilot, and so does a case file (kind; "open" is its type E).
Pilot(a) == a.limit # 0 \/ a.kind # "suite"
Selected(a) == IF a.limit \in 1..Questions THEN a.limit ELSE Questions
RunManifest(a) == [run |-> a.run, questions |-> Selected(a)]

Init ==
    /\ holder = None /\ at = [d \in Drivers |-> Gone]
    /\ manifest = NoManifest /\ answers = [q \in 1..Questions |-> Unanswered]
    /\ stopFile = FALSE /\ report = NoReport
    /\ state = [status |-> None, planned |-> 0, answered |-> 0]
    /\ raced = FALSE /\ resent = FALSE

Goto(d, s) == at' = [at EXCEPT ![d].stage = s]
Args(d) == at[d].args
\* The process ends, and its lock with it.
Ends(d) == at' = [at EXCEPT ![d] = Gone] /\ holder' = IF holder = d THEN None ELSE holder

\* The arguments are read and the head is running, or the driver ends.
Start(d) ==
    /\ at[d].stage = "ended"
    /\ \E a \in Arguments :
         at' = [at EXCEPT ![d] = [stage |-> "looked", args |-> a, row |-> 1, fresh |-> 0]]
    /\ UNCHANGED <<holder, output, report, raced, resent>>

\* SIGKILL, at any point.
Kill(d) ==
    /\ at[d].stage # "ended" /\ Ends(d)
    /\ UNCHANGED <<output, report, raced, resent>>

\* A driver that finds the directory of another run refuses it.
SameRun(d) == manifest = RunManifest(Args(d))
Manifest(d) ==
    /\ at[d].stage = "looked" /\ Args(d).program = "hle"
    /\ CASE manifest = NoManifest -> Goto(d, "writing") /\ UNCHANGED holder
         [] SameRun(d) -> Goto(d, "locking") /\ UNCHANGED holder
         [] OTHER -> Ends(d)
    /\ UNCHANGED <<output, report, raced, resent>>
WriteManifest(d) ==
    /\ at[d].stage = "writing" /\ Goto(d, "locking")
    /\ manifest' = RunManifest(Args(d))
    /\ raced' = (raced \/ manifest \notin {NoManifest, RunManifest(Args(d))})
    /\ UNCHANGED <<holder, answers, stopFile, state, report, resent>>

\* freedombench never resumes: its directory must not be there.
MakeOutput(d) ==
    /\ at[d].stage = "looked" /\ Args(d).program = "freedombench"
    /\ IF report # NoReport THEN Ends(d) /\ UNCHANGED report
       ELSE /\ Goto(d, "locking") /\ UNCHANGED holder
            /\ report' = [NoReport EXCEPT !.status = "empty"]
    /\ UNCHANGED <<output, raced, resent>>

Fresh(a) == [NoReport EXCEPT !.status = "running", !.pilot = Pilot(a), !.open = a.kind = "open"]
Enters(d) ==
    IF Args(d).program = "hle" THEN Goto(d, "rows") /\ UNCHANGED report
    ELSE Goto(d, "quiz") /\ report' = Fresh(Args(d))

\* A fault: the evaluations know no lock.
LockFree(d) ==
    /\ at[d].stage = "locking" /\ holder' = d /\ Enters(d)
    /\ UNCHANGED <<output, raced, resent>>

\* request_lock is tried once; a driver that cannot have it leaves nothing more.
Lock(d) ==
    /\ at[d].stage = "locking"
    /\ IF holder = None THEN holder' = d /\ Enters(d)
       ELSE Ends(d) /\ UNCHANGED report
    /\ UNCHANGED <<output, raced, resent>>

------------------------------------------------------------------------------
(* hle, inside the lock. *)

\* The `finally' clause: status.json, whichever way the loop was left.
Leave(d, what) ==
    /\ state' = [status |-> what, planned |-> Selected(Args(d)),
                 answered |-> Cardinality({q \in 1..Selected(Args(d)) : answers[q] # Unanswered})]
    /\ Ends(d)

\* next_step: an answered row is skipped first, then STOP, then the pause.
Step(d) ==
    /\ at[d].stage = "rows" /\ at[d].row <= Selected(Args(d))
    /\ IF answers[at[d].row] # Unanswered
       THEN at' = [at EXCEPT ![d].row = @ + 1] /\ UNCHANGED <<state, holder>>
       ELSE IF stopFile \/ at[d].fresh = Args(d).maxNew
       THEN Leave(d, IF stopFile THEN "stopped" ELSE "paused")
       ELSE Goto(d, "asking") /\ UNCHANGED <<state, holder>>
    /\ UNCHANGED <<manifest, answers, stopFile, report, raced, resent>>

Complete(d) ==
    /\ at[d].stage = "rows" /\ at[d].row > Selected(Args(d))
    /\ Leave(d, "complete")
    /\ UNCHANGED <<manifest, answers, stopFile, report, raced, resent>>

\* rejected_by_server: the status says that asking again cannot help.
Rejected(code) == 400 <= code /\ code < 500 /\ code \notin {401, 403, 408, 429}

Codes == {200, 400, 401, 403, 408, 429, 500}
\* The answer, or the server's refusal of this question, is its record.
Answer(d) ==
    /\ at[d].stage = "asking"
    /\ at' = [at EXCEPT ![d] = [stage |-> "rows", args |-> @.args, row |-> @.row + 1,
                                fresh |-> @.fresh + 1]]
    /\ \E code \in Codes : (code = 200 \/ Rejected(code)) /\
         answers' = [answers EXCEPT ![at[d].row] = [of |-> RunManifest(Args(d)), code |-> code]]
    /\ resent' = (resent \/ answers[at[d].row] # Unanswered)
    /\ UNCHANGED <<holder, manifest, stopFile, state, report, raced>>

\* Any other error, between questions or in one, ends the run.
Fail(d) ==
    /\ at[d].stage \in {"rows", "asking"} /\ Leave(d, "failed")
    /\ UNCHANGED <<manifest, answers, stopFile, report, raced, resent>>

\* Somebody leaves STOP in the directory, or takes it away.
Touch ==
    /\ stopFile' = ~stopFile
    /\ UNCHANGED <<holder, at, manifest, answers, state, report, raced, resent>>

------------------------------------------------------------------------------
(* freedombench, inside the lock. *)

\* classify_attempt; a reply cut off at its budget may still show a letter.
Outcomes == {"transport_error", "protocol_error", "truncated", "cut_choice", "empty_final",
             "unparsed", "choice"}
HasChoice(o) == o \in {"choice", "cut_choice"}
Truncated(o) == o \in {"truncated", "cut_choice"}

\* summarize and summarize_open, over the last attempt of each question.
Lasts(r) == {Last(r.results[i]) : i \in {j \in DOMAIN r.results : r.results[j] # <<>>}}
Received(r) == Cardinality({i \in DOMAIN r.results : r.results[i] # <<>>})
ValidCompleteRun(r, planned) ==
    /\ Received(r) = planned
    /\ \A o \in Lasts(r) : ~Truncated(o) /\ o \notin {"transport_error", "protocol_error"}
    /\ r.open => "empty_final" \notin Lasts(r)
FullSuiteComplete(r) == ~r.pilot /\ ValidCompleteRun(r, Questions)

\* Type E is no choice question: one reply is enough.
Enough(a, attempts) ==
    \/ a.kind = "open" \/ Last(attempts) = "transport_error" \/ HasChoice(Last(attempts))
    \/ Len(attempts) = MaxAttempts
\* One attempt, saved at once; the next question when it was enough.
Attempt(d) ==
    /\ at[d].stage = "quiz" /\ at[d].row <= Selected(Args(d))
    /\ \E o \in Outcomes :
         LET old == IF Len(report.results) = at[d].row THEN Last(report.results) ELSE <<>>
             new == Append(old, o)
         IN  /\ report' = [report EXCEPT !.results = Append(SubSeq(@, 1, at[d].row - 1), new)]
             /\ at' = [at EXCEPT ![d].row = IF Enough(Args(d), new) THEN @ + 1 ELSE @]
    /\ UNCHANGED <<holder, output, raced, resent>>

Exit(d) ==
    /\ at[d].stage = "quiz" /\ at[d].row > Selected(Args(d)) /\ Ends(d)
    /\ report' = [report EXCEPT !.status = "complete",
         !.exit = IF ValidCompleteRun(report, Selected(Args(d))) THEN "valid" ELSE "invalid"]
    /\ UNCHANGED <<output, raced, resent>>

\* Any error that no attempt records, Ctrl+C among them.
Interrupt(d) ==
    /\ at[d].stage = "quiz" /\ Ends(d)
    /\ report' = [report EXCEPT !.status = "failed"]
    /\ UNCHANGED <<output, raced, resent>>

Next ==
    \/ Touch
    \/ \E d \in Drivers :
         \/ Start(d) \/ Kill(d) \/ Manifest(d) \/ WriteManifest(d) \/ MakeOutput(d) \/ Lock(d)
         \/ Step(d) \/ Complete(d) \/ Answer(d) \/ Fail(d)
         \/ Attempt(d) \/ Exit(d) \/ Interrupt(d)

Spec == Init /\ [][Next]_vars

------------------------------------------------------------------------------
(* An hle run, however often it is stopped, killed and resumed, asks each     *)
(* question to one answer, keeps the answers of one run under the manifest of *)
(* that run (unless two first starts wrote it at once), and is complete only  *)
(* with a record of every question.                                           *)
AnswersAreKept ==
    /\ ~resent
    /\ ~raced => \A q \in 1..Questions : answers[q] # Unanswered => answers[q].of = manifest
    /\ state.status = "complete" => state.answered = state.planned
    /\ \A d \in Drivers : at[d].stage \in {"rows", "asking", "quiz"} => holder = d

(* freedombench calls a suite complete only with a reply to every question     *)
(* that was neither cut off nor lost; and once it has ended well, only if every*)
(* question was asked until it got a choice, or as often as allowed.           *)
Settled(attempts) ==
    /\ \A i \in 1..(Len(attempts) - 1) :
         ~HasChoice(attempts[i]) /\ attempts[i] # "transport_error"
    /\ ~HasChoice(Last(attempts)) => Len(attempts) = MaxAttempts
SuiteIsEarned ==
    FullSuiteComplete(report) =>
        \A q \in 1..Questions :
            /\ Last(report.results[q]) \in {"choice", "empty_final", "unparsed"}
            /\ report.status = "complete" => Settled(report.results[q])
RunsAreWhole == AnswersAreKept /\ SuiteIsEarned
===============================================================================
