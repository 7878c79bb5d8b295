------------------------------- MODULE Switch -------------------------------
(***************************************************************************)
(* switch.switch and switch.resume: the coordinator that stops the running *)
(* launch on every rank, starts the new one and, when that fails, restores *)
(* the old one, journalling what it does in result.json; with the retries  *)
(* and timeouts of cluster.SSHBackend between it and the ranks.            *)
(*                                                                         *)
(* A rank is what Lifecycle promises of it.  A start or a stop request     *)
(* leaves the coordinator and may be served at any later time, or never,   *)
(* whether or not the coordinator still waits for the answer; it may be    *)
(* reported as failed although it was served.  The coordinator may be      *)
(* interrupted anywhere and every write of the journal may fail.           *)
(*                                                                         *)
(* Abstracted: assets (their comparison agrees or does not), identities    *)
(* (one attempt per generation and rank), the reasons of failures beyond   *)
(* the distinction between a lost observation and any other.               *)
(***************************************************************************)
EXTENDS Integers, FiniteSets

CONSTANTS
    N,             \* number of ranks
    MaxPolls,      \* readiness passes before the deadline
    MaxResumes     \* `cluster resume' commands an operator gives

ASSUME SwitchAssumption ==
    /\ N \in Nat /\ N >= 2
    /\ MaxPolls \in Nat \ {0}
    /\ MaxResumes \in Nat

Ranks == 0 .. N - 1
Gens == {"old", "new", "rec"}

VARIABLES
    att,        \* att[g][r]: the phase of generation g's attempt on rank r
    calls,      \* start and stop requests sent; each may be served from now on
    pc,         \* what the coordinator does next
    k,          \* the rank it does it to
    gen,        \* the generation whose readiness or cleanup it attends to
    resuming,   \* whether it runs resume
    seen,       \* ranks `current' found running
    answers,    \* what the ranks answered in this readiness pass
    polls,      \* readiness passes made
    resumes,    \* resume commands given
    report,     \* the coordinator's report
    journal,    \* the report as last written to result.json
    installed   \* ranks whose profile file was replaced

coordinator == <<pc, k, gen, resuming, seen, answers, polls, resumes>>
vars == <<att, calls, coordinator, report, journal, installed>>

L == INSTANCE Lifecycle WITH Attempts <- Gens \X Ranks,
                             att <- [x \in Gens \X Ranks |-> att[x[1]][x[2]]]

Unconfirmed == {"readiness-unconfirmed", "recovery-readiness-unconfirmed"}
Statuses == {"preparing", "starting", "complete", "failed"} \cup Unconfirmed

Reports == [status    : Statuses,
            new       : SUBSET Ranks,    \* rows of reserved new attempts
            stopped   : SUBSET Ranks,    \* old ranks confirmed stopped
            pending   : SUBSET Ranks,    \* stop_pending, if there is one
            recovery  : SUBSET Ranks,    \* rows of reserved recovery attempts
            recErr    : BOOLEAN,         \* recovery_errors is there
            cleanErr  : BOOLEAN,         \* cleanup_errors is there
            recovered : BOOLEAN,
            warmup    : {"none", "passed", "failed", "degenerate"},
            config    : {"none", "installed", "failed"}]

Working == {"look", "prepare", "relook", "stop", "stopping", "reserve", "starting",
            "poll", "gate", "install", "clean", "cleaning", "recover", "check",
            "restarting", "judge", "recClean", "recCleaning", "close"}

TypeOK ==
    /\ att \in [Gens -> [Ranks -> L!Phases]]
    /\ calls \subseteq {"start", "stop"} \X Gens \X Ranks
    /\ pc \in Working \cup {"over"}
    /\ k \in -1 .. N
    /\ gen \in {"new", "rec"}
    /\ resuming \in BOOLEAN
    /\ seen \subseteq Ranks
    /\ answers \subseteq {"ready", "waiting", "failed"}
    /\ polls \in 0 .. MaxPolls
    /\ resumes \in 0 .. MaxResumes
    /\ report \in Reports
    /\ journal \in Reports
    /\ installed \subseteq Ranks

\* The report after its first save.
FirstReport == [status |-> "preparing", new |-> {}, stopped |-> {}, pending |-> {},
                recovery |-> {}, recErr |-> FALSE, cleanErr |-> FALSE,
                recovered |-> FALSE, warmup |-> "none", config |-> "none"]

\* The old launch runs on every rank, on some, or on none.
Init ==
    /\ \E up \in SUBSET Ranks :
          att = [g \in Gens |-> [r \in Ranks |->
                    IF g = "old" /\ r \in up THEN "up" ELSE "absent"]]
    /\ calls = {}
    /\ pc = "look" /\ k = 0 /\ gen = "new" /\ resuming = FALSE
    /\ seen = {} /\ answers = {} /\ polls = 0 /\ resumes = 0
    /\ report = FirstReport
    /\ journal = FirstReport
    /\ installed = {}

Step(next, rank) == pc' = next /\ k' = rank
Write(rep) == report' = rep /\ journal' = rep
Forget == report' = journal       \* the process is gone, the file stays
End == Step("over", 0) /\ Forget

\* The command ends with a last save, which may fail as any save may.
EndWith(rep) == /\ Step("over", 0)
                /\ Write(rep) \/ (Forget /\ UNCHANGED journal)

\* What the failure path of switch begins with: the report is not saved yet.
Fail(rep) ==
    /\ report' = [rep EXCEPT !.status = "failed"]
    /\ Step("clean", 0)
    /\ UNCHANGED journal

-----------------------------------------------------------------------------
(* Before anything is stopped: read-only observations.                     *)

Running(r) == att["old"][r] = "up"

Look ==
    /\ pc = "look"
    /\ \/ /\ k < N
          /\ seen' = IF Running(k) THEN seen \cup {k} ELSE seen
          /\ Step("look", k + 1)
          /\ UNCHANGED report
       \/ /\ k = N /\ seen \in {{}, Ranks}
          /\ Step("prepare", 0)
          /\ UNCHANGED <<seen, report>>
       \/ \* an observation fails, or only some ranks run
          /\ k < N \/ seen \notin {{}, Ranks}
          /\ End /\ UNCHANGED seen
    /\ UNCHANGED <<att, calls, gen, resuming, answers, polls, resumes, journal, installed>>

\* Both passes of prepare, for the new launch and for the old one.
Prepare ==
    /\ pc = "prepare"
    /\ \/ Step("relook", 0) /\ UNCHANGED report
       \/ End
    /\ UNCHANGED <<att, calls, gen, resuming, seen, answers, polls, resumes,
                   journal, installed>>

\* The running identities must be the ones seen first.
Relook ==
    /\ pc = "relook"
    /\ \/ /\ k < N /\ (Running(k) <=> k \in seen)
          /\ Step("relook", k + 1)
          /\ UNCHANGED <<report, journal>>
       \/ /\ k = N
          /\ Write([report EXCEPT !.status = "starting"])
          /\ Step("stop", 0)
       \/ End /\ UNCHANGED journal
    /\ UNCHANGED <<att, calls, gen, resuming, seen, answers, polls, resumes, installed>>

-----------------------------------------------------------------------------
(* Stop the old launch, from the head up.                                  *)

Send(op, g, r) == calls' = calls \cup {<<op, g, r>>}

\* stop_pending is on disk before the request leaves.
StopOld ==
    /\ pc = "stop"
    /\ LET pending == [report EXCEPT !.pending = {k}] IN
       \/ /\ k \in seen
          /\ Write(pending)
          /\ Send("stop", "old", k)
          /\ Step("stopping", k)
       \/ k \in seen /\ Fail(pending) /\ UNCHANGED calls
       \/ /\ k < N /\ k \notin seen
          /\ Step("stop", k + 1)
          /\ UNCHANGED <<calls, report, journal>>
       \/ /\ k = N
          /\ Step("reserve", N - 1)
          /\ UNCHANGED <<calls, report, journal>>
    /\ UNCHANGED <<att, gen, resuming, seen, answers, polls, resumes, installed>>

\* A stop is confirmed only by a rank on which it is final.
Stopped(g, r) == att[g][r] = "stopped"

StopOldAnswer ==
    /\ pc = "stopping"
    /\ LET stopped == [report EXCEPT !.pending = {}, !.stopped = @ \cup {k}] IN
       \/ /\ Stopped("old", k)
          /\ Write(stopped)
          /\ Step("stop", k + 1)
       \/ Stopped("old", k) /\ Fail(stopped)
       \/ Fail(report)
    /\ UNCHANGED <<att, calls, gen, resuming, seen, answers, polls, resumes, installed>>

-----------------------------------------------------------------------------
(* Start the new launch, from the highest rank down, the head last.        *)

Reserved(g, r) == att' = [att EXCEPT ![g][r] = "reserved"]

\* A fault: send the start request, then save the row.
StartThenSave ==
    /\ pc = "reserve"
    /\ Reserved("new", k)
    /\ report' = [report EXCEPT !.new = @ \cup {k}]
    /\ Send("start", "new", k)
    /\ Step("starting", k)
    /\ UNCHANGED <<gen, resuming, seen, answers, polls, resumes, journal, installed>>

\* The row is on disk before the start request leaves.
ReserveNew ==
    /\ pc = "reserve"
    /\ LET row == [report EXCEPT !.new = @ \cup {k}] IN
       \/ /\ Reserved("new", k)
          /\ Write(row)
          /\ Send("start", "new", k)
          /\ Step("starting", k)
       \/ Reserved("new", k) /\ Fail(row) /\ UNCHANGED calls
       \/ /\ Reserved("new", k) \/ UNCHANGED att
          /\ Fail(report)
          /\ UNCHANGED calls
    /\ UNCHANGED <<gen, resuming, seen, answers, polls, resumes, installed>>

\* A rank answers a start it has served, replays included.
Started(g, r) == att[g][r] \notin {"absent", "reserved", "stopped"}

StartNewAnswer ==
    /\ pc = "starting"
    /\ \/ /\ Started("new", k)
          /\ IF k > 0 THEN Step("reserve", k - 1) ELSE Step("poll", N - 1)
          /\ UNCHANGED <<report, journal>>
       \/ Fail(report)
    /\ UNCHANGED <<att, calls, gen, resuming, seen, answers, polls, resumes, installed>>

-----------------------------------------------------------------------------
(* SSHBackend.ready: poll every rank until all are ready, one has failed,  *)
(* the deadline passes, or an observation is lost or refused.              *)

\* rpc("poll") reports a container not yet started as a failed rank too, and goes on
\* waiting for one that is gone while no supervisor has left its finished.json.
Observed(p) == CASE p = "up" -> {"ready", "waiting"}
                 [] p \in {"absent", "reserved"} -> {"waiting"}
                 [] p \in {"launching", "ended", "stopped"} -> {"waiting", "failed"}

Poll ==
    /\ pc = "poll" /\ k >= 0
    /\ \E a \in Observed(att[gen][k]) : answers' = answers \cup {a}
    /\ Step("poll", k - 1)
    /\ UNCHANGED <<att, calls, gen, resuming, seen, polls, resumes, report,
                   journal, installed>>

AllReady == answers = {"ready"}

\* A fault: poll without a deadline.
PollUndated ==
    /\ pc = "poll" /\ k = -1
    /\ "failed" \notin answers /\ ~AllReady
    /\ answers' = {}
    /\ Step("poll", N - 1)
    /\ UNCHANGED <<att, calls, gen, resuming, seen, polls, resumes, report, journal, installed>>

\* Every rank answered, but not all of them ready.
PollAgain ==
    /\ pc = "poll" /\ k = -1
    /\ "failed" \notin answers /\ ~AllReady
    /\ polls < MaxPolls
    /\ polls' = polls + 1
    /\ answers' = {}
    /\ Step("poll", N - 1)
    /\ UNCHANGED <<att, calls, gen, resuming, seen, resumes, report, journal, installed>>

\* A fault: call a launch complete as soon as it is ready.
ReadyIsComplete ==
    /\ pc = "poll" /\ k = -1 /\ AllReady /\ gen = "new"
    /\ Write([report EXCEPT !.status = "complete"])
    /\ Step("gate", 0)
    /\ UNCHANGED <<att, calls, gen, resuming, seen, answers, polls, resumes, installed>>

\* The new launch goes through the gate; a recovery is confirmed.
PollReady ==
    /\ pc = "poll" /\ k = -1
    /\ AllReady
    /\ IF gen = "new"
       THEN Step("gate", 0) /\ UNCHANGED report
       ELSE /\ Step("close", 0)
            /\ report' = [report EXCEPT !.recovered = TRUE, !.status = "failed"]
    /\ UNCHANGED <<att, calls, gen, resuming, seen, answers, polls, resumes,
                   journal, installed>>

\* A terminated rank, the deadline, or a poll the rank refused to answer.
\* In resume the failure only propagates; in switch it costs the launch.
PollFails ==
    /\ pc = "poll"
    /\ k >= 0 \/ ~AllReady
    /\ \/ resuming /\ End /\ UNCHANGED journal
       \/ ~resuming /\ gen = "new" /\ Fail(report)
       \/ /\ ~resuming /\ gen = "rec"
          /\ report' = [report EXCEPT !.recErr = TRUE]
          /\ Step("recClean", N - 1)
          /\ UNCHANGED journal
    /\ UNCHANGED <<att, calls, gen, resuming, seen, answers, polls, resumes, installed>>

UnconfirmedStatus == IF gen = "new" THEN "readiness-unconfirmed"
                     ELSE "recovery-readiness-unconfirmed"

\* Three attempts to poll a rank were lost: the attempts are kept.
PollLost ==
    /\ pc = "poll" /\ k >= 0
    /\ LET kept == [report EXCEPT !.status = UnconfirmedStatus] IN
       IF resuming THEN End /\ UNCHANGED journal ELSE EndWith(kept)
    /\ UNCHANGED <<att, calls, gen, resuming, seen, answers, polls, resumes, installed>>

-----------------------------------------------------------------------------
(* The warmup ladder and what a complete launch gets.                      *)

\* A ladder that cannot run is recorded and keeps the launch.
GatePasses ==
    /\ pc = "gate"
    /\ \E w \in {"passed", "failed"} :
          LET complete == [report EXCEPT !.warmup = w, !.status = "complete"] IN
          \/ /\ Write(complete)
             /\ Step("install", 0) \/ Step("over", 0)
          \/ /\ ~resuming
             /\ Fail([report EXCEPT !.warmup = w])
          \/ /\ resuming
             /\ End /\ UNCHANGED journal
    /\ UNCHANGED <<att, calls, gen, resuming, seen, answers, polls, resumes, installed>>

\* Only the running head can be found degenerate.
GateDegenerate ==
    /\ pc = "gate"
    /\ att["new"][0] = "up"
    /\ Fail([report EXCEPT !.warmup = "degenerate"])
    /\ UNCHANGED <<att, calls, gen, resuming, seen, answers, polls, resumes, installed>>

\* finish: write the profile text on each rank; a failure keeps the launch.
Install ==
    /\ pc = "install"
    /\ \/ /\ k < N
          /\ installed' = installed \cup {k}
          /\ Step("install", k + 1)
          /\ UNCHANGED <<report, journal>>
       \/ /\ k < N
          /\ installed' \in {installed, installed \cup {k}}
          /\ EndWith([report EXCEPT !.config = "failed"])
       \/ /\ k = N
          /\ EndWith([report EXCEPT !.config = "installed"])
          /\ UNCHANGED installed
    /\ UNCHANGED <<att, calls, gen, resuming, seen, answers, polls, resumes>>

-----------------------------------------------------------------------------
(* After a failure: stop what was reserved, and restore what was stopped.  *)

\* stop_owned over the rows of the new launch, the head first.
Clean ==
    /\ pc = "clean"
    /\ \/ /\ k \in report.new
          /\ Send("stop", "new", k)
          /\ Step("cleaning", k)
       \/ /\ k < N /\ k \notin report.new
          /\ Step("clean", k + 1)
          /\ UNCHANGED calls
       \/ /\ k = N
          /\ IF resuming THEN Step("close", 0) ELSE Step("judge", 0)
          /\ UNCHANGED calls
    /\ UNCHANGED <<att, gen, resuming, seen, answers, polls, resumes, report,
                   journal, installed>>

\* A fault: a stop that was not answered is not kept as an error.
CleanUnanswered ==
    /\ pc = "cleaning"
    /\ Step("clean", k + 1)
    /\ UNCHANGED <<att, calls, gen, resuming, seen, answers, polls, resumes, report,
                   journal, installed>>

CleanAnswer ==
    /\ pc = "cleaning"
    /\ \/ Stopped("new", k) /\ UNCHANGED report
       \/ report' = [report EXCEPT !.cleanErr = TRUE]
    /\ Step("clean", k + 1)
    /\ UNCHANGED <<att, calls, gen, resuming, seen, answers, polls, resumes,
                   journal, installed>>

\* A fault: recover although the new launch was not confirmed stopped.
RecoverAnyway == report.pending = {}

\* A fault: restore the old launch only if something of the new one was begun.
RecoverIfBegun == report.pending = {} /\ ~report.cleanErr /\ report.new # {}

\* Never compete with an unconfirmed new process for the same GPU and memory.
MayRecover == report.pending = {} /\ ~report.cleanErr

Judge ==
    /\ pc = "judge"
    /\ IF MayRecover THEN Step("recover", N - 1) ELSE Step("close", 0)
    /\ UNCHANGED <<att, calls, gen, resuming, seen, answers, polls, resumes, report,
                   journal, installed>>

\* An error on one rank is recorded and the next rank is tried.
Recover ==
    /\ pc = "recover" /\ k >= 0
    /\ LET row == [report EXCEPT !.recovery = @ \cup {k}]
           Next1 == Step("recover", k - 1)
       IN
       \/ /\ k \in report.stopped
          /\ Reserved("rec", k)
          /\ Write(row)
          /\ Send("start", "rec", k)
          /\ Step("restarting", k)
       \/ /\ k \in report.stopped
          /\ Reserved("rec", k)
          /\ report' = [row EXCEPT !.recErr = TRUE]
          /\ Next1 /\ UNCHANGED <<calls, journal>>
       \/ /\ k \in report.stopped
          /\ Reserved("rec", k) \/ UNCHANGED att
          /\ report' = [report EXCEPT !.recErr = TRUE]
          /\ Next1 /\ UNCHANGED <<calls, journal>>
       \/ /\ k \notin report.stopped
          /\ Next1 /\ UNCHANGED <<att, calls, report, journal>>
    /\ UNCHANGED <<gen, resuming, seen, answers, polls, resumes, installed>>

RestartAnswer ==
    /\ pc = "restarting"
    /\ \/ Started("rec", k) /\ UNCHANGED report
       \/ report' = [report EXCEPT !.recErr = TRUE]
    /\ Step("recover", k - 1)
    /\ UNCHANGED <<att, calls, gen, resuming, seen, answers, polls, resumes,
                   journal, installed>>

\* "Recovery did not restore every rank" otherwise.
CanAwait == report.recovery = Ranks

\* Readiness is awaited only of a recovery of every rank.
Recovering ==
    /\ pc = "recover" /\ k = -1
    /\ \/ /\ CanAwait /\ ~report.recErr
          /\ Step("poll", N - 1)
          /\ gen' = "rec" /\ answers' = {} /\ polls' = 0
          /\ UNCHANGED report
       \/ /\ report.recovery # {} /\ ~CanAwait /\ ~report.recErr
          /\ report' = [report EXCEPT !.recErr = TRUE]
          /\ Step("recClean", N - 1)
          /\ UNCHANGED <<gen, answers, polls>>
       \/ /\ report.recErr
          /\ Step("recClean", N - 1)
          /\ UNCHANGED <<gen, answers, polls, report>>
       \/ /\ report.recovery = {} /\ ~report.recErr
          /\ Step("close", 0)
          /\ UNCHANGED <<gen, answers, polls, report>>
    /\ UNCHANGED <<att, calls, resuming, seen, resumes, journal, installed>>

\* stop_owned over the rows of the recovery.
RecClean ==
    /\ pc = "recClean"
    /\ \/ /\ k \in report.recovery
          /\ Send("stop", "rec", k)
          /\ Step("recCleaning", k)
       \/ /\ k >= 0 /\ k \notin report.recovery
          /\ Step("recClean", k - 1)
          /\ UNCHANGED calls
       \/ /\ k = -1
          /\ Step("close", 0)
          /\ UNCHANGED calls
    /\ UNCHANGED <<att, gen, resuming, seen, answers, polls, resumes, report,
                   journal, installed>>

RecCleanAnswer ==
    /\ pc = "recCleaning"
    /\ \/ Stopped("rec", k) /\ UNCHANGED report
       \/ report' = [report EXCEPT !.cleanErr = TRUE]
    /\ Step("recClean", k - 1)
    /\ UNCHANGED <<att, calls, gen, resuming, seen, answers, polls, resumes,
                   journal, installed>>

\* The last save, before the command ends in an error or resume returns.
Close ==
    /\ pc = "close"
    /\ EndWith(report)
    /\ UNCHANGED <<att, calls, gen, resuming, seen, answers, polls, resumes, installed>>

-----------------------------------------------------------------------------
(* cluster resume: check what is recorded, then only wait for readiness.   *)

Resumable == journal.status \in Unconfirmed

Resume ==
    /\ pc = "over"
    /\ Resumable
    /\ resumes < MaxResumes
    /\ resumes' = resumes + 1
    /\ resuming' = TRUE
    /\ gen' = IF journal.status = "recovery-readiness-unconfirmed" THEN "rec" ELSE "new"
    /\ (IF gen' = "new" THEN journal.new ELSE journal.recovery) = Ranks
    /\ report' = journal
    /\ Step("check", N - 1)
    /\ answers' = {} /\ polls' = 0
    /\ UNCHANGED <<att, calls, seen, journal, installed>>

\* The recorded identity must be running, from the recorded assets.
ResumeCheck ==
    /\ pc = "check"
    /\ \/ /\ k >= 0 /\ att[gen][k] = "up"
          /\ Step("check", k - 1)
          /\ UNCHANGED report
       \/ k >= 0 /\ End
       \/ k = -1 /\ Step("poll", N - 1) /\ UNCHANGED report
    /\ UNCHANGED <<att, calls, gen, resuming, seen, answers, polls, resumes,
                   journal, installed>>

-----------------------------------------------------------------------------
(* Interruption, and the ranks.                                            *)

\* Ctrl+C or the loss of the coordinator's host; `except Exception' does not
\* run, and what was not saved is lost.
Interrupt ==
    /\ pc \in Working
    /\ End
    /\ UNCHANGED <<att, calls, gen, resuming, seen, answers, polls, resumes,
                   journal, installed>>

\* Rank r serves a request it received, now or long after it was sent.
ServeStart(g, r) ==
    /\ <<"start", g, r>> \in calls
    /\ att[g][r] = "reserved"
    /\ att' = [att EXCEPT ![g][r] = "launching"]
    /\ UNCHANGED <<calls, coordinator, report, journal, installed>>

ServeStop(g, r) ==
    /\ <<"stop", g, r>> \in calls
    /\ att[g][r] \in L!CanStop
    /\ att' = [att EXCEPT ![g][r] = "stopped"]
    /\ UNCHANGED <<calls, coordinator, report, journal, installed>>

\* The launch on r comes up, or ends: preflight, a guard, or by itself; one
\* whose stop has begun may end before its supervisor was spawned.
Evolve(g, r) ==
    /\ \/ att[g][r] \in L!Live
       \/ att[g][r] = "reserved" /\ <<"stop", g, r>> \in calls
    /\ \E p \in L!Moves[att[g][r]] \ {"launching"} : att' = [att EXCEPT ![g][r] = p]
    /\ UNCHANGED <<calls, coordinator, report, journal, installed>>

Coordinate ==
    \/ Look \/ Prepare \/ Relook \/ StopOld \/ StopOldAnswer
    \/ ReserveNew \/ StartNewAnswer
    \/ Poll \/ PollAgain \/ PollReady \/ PollFails \/ PollLost
    \/ GatePasses \/ GateDegenerate \/ Install
    \/ Clean \/ CleanAnswer \/ Judge \/ Recover \/ RestartAnswer \/ Recovering
    \/ RecClean \/ RecCleanAnswer \/ Close \/ ResumeCheck

Next ==
    \/ Coordinate \/ Resume \/ Interrupt
    \/ \E g \in Gens, r \in Ranks : ServeStart(g, r) \/ ServeStop(g, r) \/ Evolve(g, r)

\* The coordinator runs, and each of its waits has a timeout; nothing is assumed
\* of the ranks, of the network or of the operator.
Fairness == WF_vars(Coordinate)

Spec == Init /\ [][Next]_vars /\ Fairness

-----------------------------------------------------------------------------
(* Properties.                                                             *)

Sent(op, g, r) == <<op, g, r>> \in calls

\* The attempt holds its rank's GPU, or will when a request in flight arrives.
MayRun(g, r) == att[g][r] \in L!Live \/ (att[g][r] = "reserved" /\ Sent("start", g, r))

\* No two launches of a rank compete for its GPU and memory, neither now nor
\* when a request that is still in flight is served.
NoCompetition ==
    \A r \in Ranks, g, h \in Gens : MayRun(g, r) /\ MayRun(h, r) => g = h

\* Whatever the moment the coordinator is lost, result.json names every attempt
\* that runs or may run, and every old rank that was asked to stop; and an
\* unconfirmed journal can be resumed: it has a row for every rank.
JournalCovers ==
    /\ \A r \in Ranks :
          /\ MayRun("new", r) => r \in journal.new
          /\ MayRun("rec", r) => r \in journal.recovery
          /\ Sent("stop", "old", r) => r \in journal.pending \cup journal.stopped
    /\ journal.status = "readiness-unconfirmed" => journal.new = Ranks
    /\ journal.status = "recovery-readiness-unconfirmed" => journal.recovery = Ranks

\* A journal that says complete: the new launch has a row for every rank, the
\* old one is down, no recovery was begun, and nobody asked the new launch to
\* stop.  The exception is a launch that a first resume found degenerate and
\* was interrupted while stopping: a second resume may still find it ready.
\* And the ranks' profile files are replaced for such a journal only, so after
\* a recovery they still describe what runs.
CompleteIsKept ==
    /\ installed # {} => journal.status = "complete"
    /\ journal.status = "complete" =>
          /\ journal.new = Ranks
          /\ \A r \in Ranks : /\ ~MayRun("old", r)
                              /\ ~Sent("start", "rec", r)
                              /\ Sent("stop", "new", r) => resumes > 1

\* A journal that says recovered: every rank was relaunched and not stopped
\* again, and no rank of the failed launch can still run.
RecoveredIsKept ==
    journal.recovered =>
        /\ journal.status = "failed" /\ journal.recovery = Ranks
        /\ \A r \in Ranks : ~Sent("stop", "rec", r) /\ ~MayRun("new", r)

\* A command that took the old launch down and did not bring it back says why.
OutageExplained ==
    pc = "close" /\ ~resuming /\ report.stopped # {} =>
        report.recovered \/ report.recErr \/ report.cleanErr \/ report.pending # {}

\* An attempt whose readiness could not be observed is stopped only for a
\* degenerate answer; a lost poll, a failed rank or a deadline met while
\* resuming leaves every attempt as it is.
UnconfirmedIsLeftAlone ==
    journal.status = "readiness-unconfirmed" /\ calls' # calls
        => report.warmup = "degenerate"

\* What a journal concludes stays true of the ranks, whatever a later resume, a
\* request still in flight or a lost answer brings.
SettledIsKept ==
    [][CompleteIsKept' /\ RecoveredIsKept' /\ UnconfirmedIsLeftAlone]_vars

\* Every command ends, whatever the ranks and the network do.
Terminates == pc \in Working ~> pc = "over"

\* A pair a resume found degenerate was stopped, as its error message says.
DegenerateIsStopped ==
    resuming /\ journal.status = "failed" /\ journal.warmup = "degenerate"
        => \A r \in Ranks : ~MayRun("new", r)

\* A launch that a record gives up for failed, without a cleanup error, is down on every
\* rank and stays down, though a start of it may still be on its way: of the new launch
\* from the first such save on, of a recovery that failed when the command ends.
FailedIsDown ==
    /\ journal.status = "failed" /\ ~journal.cleanErr => \A r \in Ranks : ~MayRun("new", r)
    /\ pc = "close" /\ report.recErr /\ ~report.cleanErr => \A r \in Ranks : ~MayRun("rec", r)

-----------------------------------------------------------------------------
(* The switch implements Handover.                                         *)

MayRunSomewhere == {g \in Gens : \E r \in Ranks : MayRun(g, r)}

Begun(g) == \E r \in Ranks : Sent("start", g, r)

Era == IF Begun("rec") THEN "rec" ELSE IF Begun("new") THEN "new" ELSE "old"

Verdict == CASE journal.status = "complete" -> "complete"
             [] journal.status \in Unconfirmed -> "unconfirmed"
             [] journal.recovered -> "recovered"
             [] OTHER -> "open"

H == INSTANCE Handover WITH running <- MayRunSomewhere, era <- Era,
                            verdict <- Verdict

\* Seen through MayRunSomewhere, Era and Verdict, the switch is a Handover: the
\* new launch begins when the old one is down everywhere, the recovery when the
\* new one is, and the record concludes about the launch started last.
HandsOver == H!Spec
=============================================================================
