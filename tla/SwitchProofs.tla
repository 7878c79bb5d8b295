----------------------------- MODULE SwitchProofs -----------------------------
(***************************************************************************)
(* Proofs about Switch for any number of ranks (at least two), readiness   *)
(* passes and resume commands, wherever the coordinator is interrupted,    *)
(* whichever save of the journal fails and however late a request is       *)
(* served.                                                                 *)
(*                                                                         *)
(* Inductive is the invariant that ties the coordinator's place, its       *)
(* report, the saved journal, the requests that left and the attempts on   *)
(* the ranks together; NeverCompete, Covered, Explained, SettledKept and   *)
(* GivenUpIsDown are what it is for, ImplementsHandover shows that every   *)
(* step is one the abstract specification allows.                          *)
(*                                                                         *)
(* The proofs go from an action to its effect (the lemmas ...Does, stated  *)
(* with Goes, Rewrites, Saves, Loses, Asks and Becomes), and from the      *)
(* effects to each part of the invariant (the lemmas ...Step).             *)
(***************************************************************************)
EXTENDS Switch, TLAPS

\* Where switch is before the new launch, and after a failure.
Early == {"look", "prepare", "relook", "stop", "stopping"}
Failing == {"clean", "cleaning", "judge", "recover", "restarting",
            "recClean", "recCleaning", "close"}

\* The coordinator attends to generation g's readiness.
Awaits(g) == pc \in {"check", "poll", "gate"} /\ gen = g

-----------------------------------------------------------------------------
(* The inductive invariant, in named parts.                                *)

\* The old launch was started by an earlier command.
OldOnlyEnds ==
    \A r \in Ranks : /\ att["old"][r] \in {"absent", "up", "ended", "stopped"}
                     /\ ~Sent("start", "old", r)

\* Nothing comes up unasked.
LiveWasSent ==
    \A g \in {"new", "rec"}, r \in Ranks : att[g][r] \in L!Live => Sent("start", g, r)

\* The report is never behind the journal, and the journal never behind the calls.
RowsAreSaved ==
    /\ journal.new \subseteq report.new
    /\ journal.recovery \subseteq report.recovery
    /\ journal.stopped \subseteq report.stopped
    /\ journal.pending \cup journal.stopped \subseteq report.pending \cup report.stopped
    /\ \A r \in Ranks :
          /\ Sent("start", "new", r) => r \in journal.new
          /\ Sent("start", "rec", r) => r \in journal.recovery
          /\ Sent("stop", "old", r) => r \in journal.pending \cup journal.stopped
    /\ pc \in Early \cup {"over"} \/ (resuming /\ pc \in {"check", "poll", "gate"})
          => report = journal
    /\ pc \in Early => report.pending = IF pc = "stopping" THEN {k} ELSE {}

\* What is stopped, and what was not seen, does not run.
OldIsLeft ==
    /\ \A r \in report.stopped : att["old"][r] = "stopped"
    /\ pc = "look" => \A r \in Ranks : r < k /\ r \notin seen => ~Running(r)
    /\ pc \in Early \ {"look"} => \A r \in Ranks : r \notin seen => ~Running(r)
    /\ pc \in {"stop", "stopping"} =>
          \A r \in Ranks : r < k /\ r \in seen => r \in report.stopped
    /\ pc \in {"reserve", "starting"} \/ report.new # {} =>
          \A r \in Ranks : ~Running(r)
    /\ \A r \in Ranks : Sent("start", "rec", r) => att["old"][r] = "stopped"

\* The new launch is begun from the highest rank down, each row before its attempt.
NewFresh ==
    /\ pc \in Early => report.new = {} /\ \A r \in Ranks : att["new"][r] = "absent"
    /\ pc = "reserve" =>
          \A r \in Ranks : IF r <= k THEN att["new"][r] = "absent" /\ r \notin report.new
                           ELSE r \in report.new
    /\ pc = "starting" =>
          \A r \in Ranks : IF r < k THEN att["new"][r] = "absent" /\ r \notin report.new
                           ELSE r \in report.new
    /\ Awaits("new") \/ pc = "install" => report.new = Ranks

\* No recovery was begun yet.
NoRecovery == report.recovery = {} /\ \A r \in Ranks : att["rec"][r] = "absent"

\* The recovery is begun from the highest rank down, and what it missed is an error.
RecFresh ==
    /\ \/ pc \in Early \cup {"reserve", "starting", "install", "clean", "cleaning", "judge"}
       \/ Awaits("new")
       \/ journal.status \in {"readiness-unconfirmed", "complete"}
       => NoRecovery
    /\ pc = "recover" =>
          \A r \in Ranks :
             IF r <= k THEN att["rec"][r] = "absent" /\ r \notin report.recovery
             ELSE /\ r \in report.stopped => r \in report.recovery \/ report.recErr
                  /\ r \in report.recovery => Sent("start", "rec", r) \/ report.recErr
    /\ pc = "restarting" =>
          \A r \in Ranks :
             IF r < k THEN att["rec"][r] = "absent" /\ r \notin report.recovery
             ELSE /\ r \in report.stopped => r \in report.recovery \/ report.recErr
                  /\ r \in report.recovery => Sent("start", "rec", r) \/ report.recErr
    /\ Awaits("rec") => report.recovery = Ranks
    /\ pc \in {"recClean", "recCleaning"} => report.recErr

\* The launch that is awaited or concluded about was begun.
IsBegun ==
    /\ \/ pc \in {"starting", "install"} \/ Awaits("new")
       \/ journal.status \in {"readiness-unconfirmed", "complete"}
       => Begun("new")
    /\ Awaits("rec") \/ report.recovered
       \/ journal.status = "recovery-readiness-unconfirmed" => Begun("rec")

\* A recovery begins once every row of the new launch is confirmed stopped.
NewIsDown ==
    /\ pc \in {"clean", "cleaning"} /\ ~report.cleanErr =>
          \A r \in report.new : r < k => att["new"][r] = "stopped"
    /\ \/ pc \in {"judge", "close"} /\ ~report.cleanErr
       \/ pc \in {"recover", "restarting", "recClean", "recCleaning"}
       \/ report.recovery # {}
       => \A r \in report.new : att["new"][r] = "stopped"

\* What is given up for failed without a cleanup error was confirmed stopped.
GivenUp ==
    /\ pc \in Early \cup {"reserve", "starting", "check", "poll", "gate", "install", "clean",
                          "cleaning", "judge"} => ~report.recErr
    /\ journal.status \in Unconfirmed => ~journal.recErr
    /\ journal.status = "failed" /\ ~journal.cleanErr =>
          \A r \in journal.new : att["new"][r] = "stopped"
    /\ pc \in {"recClean", "recCleaning"} /\ ~report.cleanErr =>
          \A r \in report.recovery : r > k => att["rec"][r] = "stopped"
    /\ pc = "close" /\ report.recErr /\ ~report.cleanErr =>
          \A r \in report.recovery : att["rec"][r] = "stopped"

\* Where the coordinator is, what it resumes and what the report says.
Control ==
    /\ pc \in Early \cup {"reserve", "starting", "judge", "recover", "restarting",
                          "recClean", "recCleaning"} => ~resuming
    /\ pc \in Early \cup {"reserve", "starting", "gate", "install", "clean", "cleaning",
                          "judge", "recover", "restarting"} => gen = "new"
    /\ resuming => resumes >= 1
    /\ pc = "check" => resuming

\* What the status says where the coordinator is, in the report and in the journal.
StatusTold ==
    /\ pc \in Early => report.status \in {"preparing", "starting"}
    /\ pc \in {"stop", "stopping", "reserve", "starting"} \/ (Awaits("new") /\ ~resuming) =>
          report.status = "starting" /\ journal.status = "starting"
    /\ resuming /\ pc \in {"check", "poll", "gate"} => report.status = UnconfirmedStatus
    /\ pc \in Failing \/ (Awaits("rec") /\ ~resuming) => report.status = "failed"
    /\ pc = "install" => journal.status = "complete" /\ report.status = "complete"
    /\ journal.status = "complete" => pc \in {"install", "over"} /\ report.status = "complete"
    /\ journal.status \in Unconfirmed =>
          \/ pc = "over"
          \/ resuming /\ pc \in {"check", "poll", "gate"}
          \/ /\ journal.status = "readiness-unconfirmed"
             /\ resuming /\ pc \in {"clean", "cleaning", "close"}
             /\ report.warmup = "degenerate"
          \/ journal.status = "recovery-readiness-unconfirmed" /\ resuming /\ pc = "close"
    /\ report.status = "readiness-unconfirmed" => report.new = Ranks
    /\ journal.status \in {"readiness-unconfirmed", "complete"} => journal.new = Ranks
    /\ report.status = "recovery-readiness-unconfirmed" => report.recovery = Ranks
    /\ journal.status = "recovery-readiness-unconfirmed" => journal.recovery = Ranks
    /\ journal.recovered => pc = "over"
    /\ report.recovered => /\ pc \in {"close", "over"}
                           /\ report.status = "failed" /\ report.recovery = Ranks

\* Whom the coordinator has asked to stop.
Asked ==
    /\ pc \in Early \cup {"reserve", "starting"} \/ (Awaits("new") /\ ~resuming) =>
          \A r \in Ranks : ~Sent("stop", "new", r)
    /\ Awaits("new") \/ journal.status = "complete" =>
          \A r \in Ranks : Sent("stop", "new", r) => resumes > 1
    /\ journal.status = "readiness-unconfirmed" =>
          \A r \in Ranks : Sent("stop", "new", r) => resuming
    /\ \/ pc \notin {"recClean", "recCleaning", "close", "over"}
       \/ journal.status \in Unconfirmed
       \/ report.recovered
       => \A r \in Ranks : ~Sent("stop", "rec", r)

\* The rank the coordinator attends to.
RankInRange ==
    /\ pc \in {"look", "relook", "stop", "install", "clean"} => k >= 0
    /\ pc \in {"stopping", "reserve", "starting", "cleaning", "restarting", "recCleaning"}
          => k \in Ranks
    /\ pc \in {"check", "poll", "recover", "recClean"} => k < N

\* Profile files are replaced for a complete launch only.
InstalledIsComplete == installed # {} => journal.status = "complete"

\* The inductive invariant.
IInv ==
    /\ TypeOK /\ RankInRange
    /\ OldOnlyEnds /\ LiveWasSent /\ RowsAreSaved /\ OldIsLeft
    /\ NewFresh /\ RecFresh /\ IsBegun /\ NewIsDown /\ GivenUp
    /\ Control /\ StatusTold /\ Asked /\ OutageExplained
    /\ InstalledIsComplete

\* Whatever a step makes of the report is a report.
LEMMA ReportTyped ==
    ASSUME TypeOK, RankInRange, Next PROVE report' \in Reports
<1> USE DEF Step, Write, Forget, End, EndWith, Fail
<1>1. report \in Reports /\ journal \in Reports
    BY DEF TypeOK
<1>2. /\ [report EXCEPT !.status = "starting"] \in Reports
      /\ [report EXCEPT !.status = "failed"] \in Reports
      /\ [report EXCEPT !.status = UnconfirmedStatus] \in Reports
      /\ [report EXCEPT !.recErr = TRUE] \in Reports
      /\ [report EXCEPT !.cleanErr = TRUE] \in Reports
      /\ [report EXCEPT !.recovered = TRUE, !.status = "failed"] \in Reports
      /\ [report EXCEPT !.warmup = "degenerate", !.status = "failed"] \in Reports
      /\ [report EXCEPT !.config = "failed"] \in Reports
      /\ [report EXCEPT !.config = "installed"] \in Reports
    BY <1>1, ZenonT(40) DEF Reports, Statuses, Unconfirmed, UnconfirmedStatus
<1>3. ASSUME k \in Ranks
      PROVE  /\ [report EXCEPT !.pending = {k}] \in Reports
             /\ [report EXCEPT !.pending = {k}, !.status = "failed"] \in Reports
             /\ [report EXCEPT !.pending = {}, !.stopped = @ \cup {k}] \in Reports
             /\ [report EXCEPT !.pending = {}, !.stopped = @ \cup {k}, !.status = "failed"]
                   \in Reports
             /\ [report EXCEPT !.new = @ \cup {k}] \in Reports
             /\ [report EXCEPT !.new = @ \cup {k}, !.status = "failed"] \in Reports
             /\ [report EXCEPT !.recovery = @ \cup {k}] \in Reports
             /\ [report EXCEPT !.recovery = @ \cup {k}, !.recErr = TRUE] \in Reports
    BY <1>1, <1>3 DEF Reports, Statuses
<1>4. ASSUME NEW w \in {"passed", "failed"}
      PROVE  /\ [report EXCEPT !.warmup = w, !.status = "complete"] \in Reports
             /\ [report EXCEPT !.warmup = w, !.status = "failed"] \in Reports
    BY <1>1, <1>4 DEF Reports, Statuses
<1>5. CASE StopOld
  <2>1. k \in seen => k \in Ranks
    BY DEF TypeOK
  <2>2. QED
    BY <1>5, <1>1, <1>3, <2>1 DEF StopOld
<1>6. CASE StopOldAnswer
    BY <1>6, <1>1, <1>2, <1>3 DEF StopOldAnswer, RankInRange
<1>7. CASE ReserveNew
    BY <1>7, <1>1, <1>2, <1>3 DEF ReserveNew, RankInRange
<1>8. CASE GatePasses
  <2>1. PICK w \in {"passed", "failed"} :
           \/ report' = [report EXCEPT !.warmup = w, !.status = "complete"]
           \/ report' = [report EXCEPT !.warmup = w, !.status = "failed"]
           \/ report' = journal
    BY <1>8 DEF GatePasses
  <2>2. QED
    BY <1>1, <1>4, <2>1
<1>9. CASE Recover
  <2>1. k \in report.stopped => k \in Ranks
    BY <1>1 DEF Reports
  <2>2. QED
    BY <1>9, <1>1, <1>2, <1>3, <2>1 DEF Recover
<1>10. CASE Relook \/ StartNewAnswer \/ PollReady \/ PollFails \/ PollLost
    BY <1>10, <1>1, <1>2 DEF Relook, StartNewAnswer, PollReady, PollFails, PollLost
<1>11. CASE GateDegenerate \/ Install \/ CleanAnswer \/ RestartAnswer \/ Recovering \/ RecCleanAnswer
    BY <1>11, <1>1, <1>2 DEF GateDegenerate, Install, CleanAnswer, RestartAnswer,
                             Recovering, RecCleanAnswer
<1>12. CASE Look \/ Prepare \/ Poll \/ PollAgain \/ Clean \/ Judge \/ RecClean \/ Close
            \/ ResumeCheck \/ Resume \/ Interrupt
    BY <1>12, <1>1 DEF Look, Prepare, Poll, PollAgain, Clean, Judge, RecClean, Close,
                       ResumeCheck, Resume, Interrupt
<1>13. CASE \E g \in Gens, r \in Ranks : ServeStart(g, r) \/ ServeStop(g, r) \/ Evolve(g, r)
    BY <1>13, <1>1 DEF ServeStart, ServeStop, Evolve
<1>14. QED
    BY <1>5, <1>6, <1>7, <1>8, <1>9, <1>10, <1>11, <1>12, <1>13 DEF Next, Coordinate

\* Whatever a step saves, it saves the whole report.
LEMMA JournalIsAReport ==
    Next => journal' \in {journal, report'}
  BY DEF Next, Coordinate, Look, Prepare, Relook, StopOld, StopOldAnswer, ReserveNew,
         StartNewAnswer, Poll, PollAgain, PollReady, PollFails, PollLost, GatePasses,
         GateDegenerate, Install, Clean, CleanAnswer, Judge, Recover, RestartAnswer,
         Recovering, RecClean, RecCleanAnswer, Close, ResumeCheck, Resume, Interrupt,
         ServeStart, ServeStop, Evolve, Write, Forget, End, EndWith, Fail

\* A rank is a number below N.
LEMMA RanksAre == \A x : x \in Ranks <=> x \in Int /\ 0 <= x /\ x < N
  BY SwitchAssumption DEF Ranks

\* A poll of a rank is answered ready, waiting or failed.
LEMMA Observes ==
    ASSUME NEW p \in L!Phases
    PROVE  Observed(p) \subseteq {"ready", "waiting", "failed"}
<1>1. CASE p = "up"
    BY <1>1 DEF Observed
<1>2. CASE p = "launching"
    BY <1>2 DEF Observed
<1>3. CASE p \in {"absent", "reserved"}
    BY <1>3 DEF Observed
<1>4. CASE p \in {"ended", "stopped"}
    BY <1>4 DEF Observed
<1>5. QED
    BY <1>1, <1>2, <1>3, <1>4 DEF L!Phases

\* Types.
LEMMA TypeStep == TypeOK /\ RankInRange /\ [Next]_vars => TypeOK' /\ RankInRange'
<1> SUFFICES ASSUME TypeOK, RankInRange, Next PROVE TypeOK' /\ RankInRange'
    BY DEF vars, coordinator, TypeOK, RankInRange
<1>1. report' \in Reports /\ journal' \in Reports
    BY ReportTyped, JournalIsAReport DEF TypeOK
<1>2. \A x \in report.new \cup report.stopped \cup report.recovery \cup seen : x \in Ranks
    BY DEF TypeOK, Reports
<1> HIDE DEF Reports
<1>3. (att \in [Gens -> [Ranks -> L!Phases]])'
  <2>1. ASSUME NEW g \in Gens, NEW r \in Ranks, NEW p \in L!Phases
        PROVE  [att EXCEPT ![g][r] = p] \in [Gens -> [Ranks -> L!Phases]]
    BY DEF TypeOK
  <2>2. ASSUME NEW g \in Gens, NEW r \in Ranks,
               ServeStart(g, r) \/ ServeStop(g, r) \/ Evolve(g, r)
        PROVE  (att \in [Gens -> [Ranks -> L!Phases]])'
    BY <2>2 DEF TypeOK, ServeStart, ServeStop, Evolve, L!Phases, L!Moves, L!Live
  <2>3. CASE ReserveNew
    BY <2>1, <2>3 DEF TypeOK, RankInRange, ReserveNew, Reserved, Gens, L!Phases
  <2>4. CASE Recover
    BY <1>2, <2>1, <2>4 DEF TypeOK, Recover, Reserved, Gens, L!Phases
  <2>5. CASE UNCHANGED att
    BY <2>5 DEF TypeOK
  <2>6. QED
    BY <2>2, <2>3, <2>4, <2>5
    DEF Next, Coordinate, Look, Prepare, Relook, StopOld, StopOldAnswer,
        StartNewAnswer, Poll, PollAgain, PollReady, PollFails, PollLost, GatePasses,
        GateDegenerate, Install, Clean, CleanAnswer, Judge, RestartAnswer,
        Recovering, RecClean, RecCleanAnswer, Close, ResumeCheck, Resume, Interrupt
<1>4. (calls \subseteq {"start", "stop"} \X Gens \X Ranks)'
  <2>1. CASE StopOld \/ ReserveNew \/ Clean
    BY <1>2, <2>1 DEF TypeOK, RankInRange, StopOld, ReserveNew, Clean, Send, Gens
  <2>2. CASE Recover \/ RecClean
    BY <1>2, <2>2 DEF TypeOK, Recover, RecClean, Send, Gens
  <2>3. CASE UNCHANGED calls
    BY <2>3 DEF TypeOK
  <2>4. QED
    BY <2>1, <2>2, <2>3
    DEF Next, Coordinate, Look, Prepare, Relook, StopOldAnswer, StartNewAnswer, Poll,
        PollAgain, PollReady, PollFails, PollLost, GatePasses, GateDegenerate, Install,
        CleanAnswer, Judge, RestartAnswer, Recovering, RecCleanAnswer, Close,
        ResumeCheck, Resume, Interrupt, ServeStart, ServeStop, Evolve
<1>5. (seen \subseteq Ranks /\ installed \subseteq Ranks)'
  <2>1. CASE Look
    BY <2>1, RanksAre, SwitchAssumption DEF TypeOK, RankInRange, Look
  <2>2. CASE Install
    BY <2>2, RanksAre, SwitchAssumption DEF TypeOK, RankInRange, Install
  <2>3. CASE UNCHANGED <<seen, installed>>
    BY <2>3 DEF TypeOK
  <2>4. QED
    BY <2>1, <2>2, <2>3
    DEF Next, Coordinate, Prepare, Relook, StopOld, StopOldAnswer, ReserveNew,
        StartNewAnswer, Poll, PollAgain, PollReady, PollFails, PollLost, GatePasses,
        GateDegenerate, Clean, CleanAnswer, Judge, Recover, RestartAnswer, Recovering,
        RecClean, RecCleanAnswer, Close, ResumeCheck, Resume, Interrupt, ServeStart,
        ServeStop, Evolve, coordinator
<1>6. (answers \subseteq {"ready", "waiting", "failed"})'
  <2>1. CASE Poll
    <3>1. \A g \in Gens, r \in Ranks : att[g][r] \in L!Phases
      BY DEF TypeOK
    <3>2. att[gen][k] \in L!Phases
      BY <2>1, <3>1, RanksAre, SwitchAssumption DEF Poll, TypeOK, Gens, RankInRange
    <3>3. QED
      BY <2>1, <3>2, Observes DEF TypeOK, Poll
  <2>2. CASE answers' = {} \/ UNCHANGED answers
    BY <2>2 DEF TypeOK
  <2>3. QED
    BY <2>1, <2>2
    DEF Next, Coordinate, Look, Prepare, Relook, StopOld, StopOldAnswer, ReserveNew,
        StartNewAnswer, PollAgain, PollReady, PollFails, PollLost, GatePasses,
        GateDegenerate, Install, Clean, CleanAnswer, Judge, Recover, RestartAnswer,
        Recovering, RecClean, RecCleanAnswer, Close, ResumeCheck, Resume, Interrupt,
        ServeStart, ServeStop, Evolve, coordinator
<1>7. (/\ gen \in {"new", "rec"} /\ resuming \in BOOLEAN
       /\ polls \in 0 .. MaxPolls /\ resumes \in 0 .. MaxResumes)'
  <2>1. CASE PollAgain
    BY <2>1, SwitchAssumption DEF TypeOK, PollAgain
  <2>2. CASE Recovering
    BY <2>2, SwitchAssumption DEF TypeOK, Recovering
  <2>3. CASE Resume
    BY <2>3, SwitchAssumption DEF TypeOK, Resume
  <2>4. CASE UNCHANGED <<gen, resuming, polls, resumes>>
    BY <2>4 DEF TypeOK
  <2>5. QED
    BY <2>1, <2>2, <2>3, <2>4
    DEF Next, Coordinate, Look, Prepare, Relook, StopOld, StopOldAnswer, ReserveNew,
        StartNewAnswer, Poll, PollReady, PollFails, PollLost, GatePasses,
        GateDegenerate, Install, Clean, CleanAnswer, Judge, Recover, RestartAnswer,
        RecClean, RecCleanAnswer, Close, ResumeCheck, Interrupt, ServeStart,
        ServeStop, Evolve, coordinator
<1>8. (pc \in Working \cup {"over"} /\ k \in -1 .. N)' /\ RankInRange'
  <2> USE SwitchAssumption, RanksAre, <1>2 DEF TypeOK, RankInRange, Step, End, EndWith, Fail, Working
  <2>1. CASE Look \/ Prepare \/ Relook \/ StopOld \/ StopOldAnswer
    BY <2>1 DEF Look, Prepare, Relook, StopOld, StopOldAnswer
  <2>2. CASE ReserveNew \/ StartNewAnswer \/ Poll \/ PollAgain \/ PollReady \/ PollFails \/ PollLost
    BY <2>2 DEF ReserveNew, StartNewAnswer, Poll, PollAgain, PollReady, PollFails, PollLost
  <2>3. CASE GatePasses \/ GateDegenerate \/ Install \/ Clean \/ CleanAnswer \/ Judge
    BY <2>3 DEF GatePasses, GateDegenerate, Install, Clean, CleanAnswer, Judge
  <2>4. CASE Recover \/ RestartAnswer \/ Recovering \/ RecClean \/ RecCleanAnswer
    BY <2>4 DEF Recover, RestartAnswer, Recovering, RecClean, RecCleanAnswer
  <2>5. CASE Close \/ ResumeCheck \/ Resume \/ Interrupt
    BY <2>5 DEF Close, ResumeCheck, Resume, Interrupt
  <2>6. CASE UNCHANGED <<pc, k>>
    BY <2>6
  <2>7. QED
    BY <2>1, <2>2, <2>3, <2>4, <2>5, <2>6 DEF Next, Coordinate, ServeStart, ServeStop, Evolve, coordinator
<1>9. QED
    BY <1>1, <1>3, <1>4, <1>5, <1>6, <1>7, <1>8 DEF TypeOK

-----------------------------------------------------------------------------
(* What each step does, field by field of the report, request by request   *)
(* and attempt by attempt.                                                 *)

Fields == {"status", "new", "stopped", "pending", "recovery", "recErr",
           "cleanErr", "recovered", "warmup", "config"}

\* Only the fields in F are rewritten.
Rewrites(F) == \A f \in Fields \ F : report'[f] = report[f]

\* The report is saved, or dropped with the process, or only kept in memory.
Saves == journal' = report'
Loses == report' = journal /\ UNCHANGED journal
Holds == UNCHANGED journal

\* One more request is sent.
Asks(op, g, r) ==
    \A o \in {"start", "stop"}, h \in Gens, s \in Ranks :
       Sent(o, h, s)' <=> Sent(o, h, s) \/ (o = op /\ h = g /\ s = r)

\* One attempt changes its phase.
Becomes(g, r, p) ==
    \A h \in Gens, s \in Ranks :
       att'[h][s] = IF h = g /\ s = r THEN p ELSE att[h][s]

\* The coordinator goes on to next, for a rank; what it attends to is the same.
Goes(next, rank) ==
    /\ pc' = next /\ k' = rank
    /\ UNCHANGED <<gen, resuming, seen, resumes>>

\* What a failure leaves to do in switch.
FailsWith(F) ==
    /\ Goes("clean", 0) /\ Holds
    /\ Rewrites(F \cup {"status"}) /\ report'.status = "failed"

\* The second look leads to the stops when it agrees with the first.
LEMMA RelookDoes ==
    ASSUME TypeOK, Relook
    PROVE  /\ pc = "relook" /\ UNCHANGED <<att, calls, installed>>
           /\ \/ /\ k < N /\ (Running(k) <=> k \in seen)
                 /\ Goes("relook", k + 1) /\ UNCHANGED <<report, journal>>
              \/ /\ k = N /\ Goes("stop", 0) /\ Saves
                 /\ Rewrites({"status"}) /\ report'.status = "starting"
              \/ Goes("over", 0) /\ Loses
  BY DEF Goes, Loses, Saves, Rewrites, Fields, Relook, Step, Write, End, Forget,
         TypeOK, Reports

\* The old launch is asked to stop only when that is saved.
LEMMA StopOldDoes ==
    ASSUME TypeOK, StopOld
    PROVE  /\ pc = "stop" /\ UNCHANGED <<att, installed>>
           /\ \/ /\ k \in seen /\ k \in Ranks
                 /\ Goes("stopping", k) /\ Saves /\ Asks("stop", "old", k)
                 /\ Rewrites({"pending"}) /\ report'.pending = {k}
              \/ /\ k \in seen /\ k \in Ranks
                 /\ FailsWith({"pending"}) /\ report'.pending = {k} /\ UNCHANGED calls
              \/ /\ k < N /\ k \notin seen
                 /\ Goes("stop", k + 1) /\ UNCHANGED <<report, journal, calls>>
              \/ /\ k = N
                 /\ Goes("reserve", N - 1) /\ UNCHANGED <<report, journal, calls>>
<1> USE DEF Goes, FailsWith, Holds, Saves, Rewrites, Fields, Step, Write, Fail
<1>1. k \in seen => k \in Ranks
    BY DEF TypeOK
<1>2. report \in Reports
    BY DEF TypeOK
<1>3. CASE k \in seen /\ Send("stop", "old", k)
  <2>1. Asks("stop", "old", k)
    BY <1>3 DEF Asks, Sent, Send, Gens
  <2>2. QED
    BY <1>1, <1>2, <1>3, <2>1 DEF StopOld, Reports
<1>4. CASE ~(k \in seen /\ Send("stop", "old", k))
    BY <1>1, <1>2, <1>4 DEF StopOld, Reports
<1>5. QED
    BY <1>3, <1>4

\* An old rank is recorded as stopped when that is final on it.
LEMMA StopOldAnswerDoes ==
    ASSUME TypeOK, StopOldAnswer
    PROVE  /\ pc = "stopping" /\ UNCHANGED <<att, calls, installed>>
           /\ \/ /\ Stopped("old", k)
                 /\ Goes("stop", k + 1) /\ Saves
                 /\ Rewrites({"pending", "stopped"})
                 /\ report'.pending = {} /\ report'.stopped = report.stopped \cup {k}
              \/ /\ Stopped("old", k)
                 /\ FailsWith({"pending", "stopped"})
                 /\ report'.pending = {} /\ report'.stopped = report.stopped \cup {k}
              \/ FailsWith({})
  BY DEF Goes, FailsWith, Holds, Saves, Rewrites, Fields, StopOldAnswer, Step, Write, Fail,
         TypeOK, Reports

\* A start of the new launch leaves when its row is saved.
LEMMA ReserveNewDoes ==
    ASSUME TypeOK, RankInRange, ReserveNew
    PROVE  /\ pc = "reserve" /\ k \in Ranks /\ UNCHANGED installed
           /\ \/ /\ Goes("starting", k) /\ Saves
                 /\ Becomes("new", k, "reserved") /\ Asks("start", "new", k)
                 /\ Rewrites({"new"}) /\ report'.new = report.new \cup {k}
              \/ /\ FailsWith({"new"}) /\ UNCHANGED calls
                 /\ Becomes("new", k, "reserved")
                 /\ report'.new \in {report.new, report.new \cup {k}}
              \/ FailsWith({}) /\ UNCHANGED <<att, calls>>
<1> USE DEF Goes, FailsWith, Holds, Saves, Rewrites, Fields, Step, Write, Fail
<1>1. report \in Reports /\ att \in [Gens -> [Ranks -> L!Phases]]
    BY DEF TypeOK
<1>2. Reserved("new", k) => Becomes("new", k, "reserved")
    BY <1>1 DEF Reserved, Becomes
<1>3. Send("start", "new", k) => Asks("start", "new", k)
    BY DEF Asks, Sent, Send, Gens
<1>4. pc = "reserve" /\ k \in Ranks
    BY DEF ReserveNew, RankInRange
<1>5. QED
    BY <1>1, <1>2, <1>3, <1>4 DEF ReserveNew, Reports

\* A started rank is followed by the next one, the head by the wait.
LEMMA StartNewAnswerDoes ==
    ASSUME TypeOK, StartNewAnswer
    PROVE  /\ pc = "starting" /\ UNCHANGED <<att, calls, installed>>
           /\ \/ /\ Started("new", k) /\ UNCHANGED <<report, journal>>
                 /\ \/ k > 0 /\ Goes("reserve", k - 1)
                    \/ ~(k > 0) /\ Goes("poll", N - 1)
              \/ FailsWith({})
  BY DEF Goes, FailsWith, Holds, Rewrites, Fields, StartNewAnswer, Step, Fail, TypeOK, Reports

\* Readiness confirms a recovery, and leads a new launch to the gate.
LEMMA PollReadyDoes ==
    ASSUME TypeOK, PollReady
    PROVE  /\ pc = "poll" /\ UNCHANGED <<att, calls, installed>> /\ Holds
           /\ \/ gen = "new" /\ Goes("gate", 0) /\ UNCHANGED report
              \/ /\ gen = "rec" /\ Goes("close", 0)
                 /\ Rewrites({"recovered", "status"})
                 /\ report'.recovered /\ report'.status = "failed"
  BY DEF Goes, Holds, Rewrites, Fields, PollReady, Step, TypeOK, Reports

\* A failed wait stops what switch started, and nothing that resume waited for.
LEMMA PollFailsDoes ==
    ASSUME TypeOK, PollFails
    PROVE  /\ pc = "poll" /\ UNCHANGED <<att, calls, installed>>
           /\ \/ resuming /\ Goes("over", 0) /\ Loses
              \/ ~resuming /\ gen = "new" /\ FailsWith({})
              \/ /\ ~resuming /\ gen = "rec"
                 /\ Goes("recClean", N - 1) /\ Holds
                 /\ Rewrites({"recErr"}) /\ report'.recErr
  BY DEF Goes, FailsWith, Holds, Loses, Rewrites, Fields, PollFails, Step, Fail, End,
         Forget, TypeOK, Reports

\* A lost poll ends the command, and switch records that it was lost.
LEMMA PollLostDoes ==
    ASSUME TypeOK, PollLost
    PROVE  /\ pc = "poll" /\ UNCHANGED <<att, calls, installed>>
           /\ Goes("over", 0)
           /\ \/ Loses
              \/ /\ ~resuming /\ Rewrites({"status"}) /\ Saves
                 /\ report'.status = UnconfirmedStatus
  BY DEF Goes, Loses, Saves, Rewrites, Fields, PollLost, Step, Write, End, EndWith,
         Forget, TypeOK, Reports

\* A launch that passed the gate is complete when that is saved.
LEMMA GatePassesDoes ==
    ASSUME TypeOK, GatePasses
    PROVE  /\ pc = "gate" /\ UNCHANGED <<att, calls, installed>>
           /\ \/ /\ Goes("install", 0) \/ Goes("over", 0)
                 /\ Rewrites({"warmup", "status"}) /\ Saves
                 /\ report'.status = "complete"
              \/ ~resuming /\ FailsWith({"warmup"})
              \/ resuming /\ Goes("over", 0) /\ Loses
  BY DEF Goes, FailsWith, Holds, Loses, Saves, Rewrites, Fields, GatePasses, Step, Write,
         End, Fail, Forget, TypeOK, Reports

\* A degenerate answer condemns the launch.
LEMMA GateDegenerateDoes ==
    ASSUME TypeOK, GateDegenerate
    PROVE  /\ pc = "gate" /\ UNCHANGED <<att, calls, installed>>
           /\ FailsWith({"warmup"}) /\ report'.warmup = "degenerate"
  BY DEF Goes, FailsWith, Holds, Rewrites, Fields, GateDegenerate, Step, Fail, TypeOK, Reports

\* Profile files are replaced for a complete launch.
LEMMA InstallDoes ==
    ASSUME TypeOK, Install
    PROVE  /\ pc = "install" /\ UNCHANGED <<att, calls>>
           /\ \/ k < N /\ Goes("install", k + 1) /\ UNCHANGED <<report, journal>>
              \/ Goes("over", 0) /\ Loses
              \/ Goes("over", 0) /\ Rewrites({"config"}) /\ Saves
  BY DEF Goes, Loses, Saves, Rewrites, Fields, Install, Step, Write, EndWith, Forget,
         TypeOK, Reports

\* A rank of the new launch is stopped, or not known to be.
LEMMA CleanDoes ==
    ASSUME TypeOK, Clean
    PROVE  /\ pc = "clean" /\ UNCHANGED <<att, report, journal, installed>>
           /\ \/ k \in report.new /\ Goes("cleaning", k) /\ Asks("stop", "new", k)
              \/ k < N /\ k \notin report.new /\ Goes("clean", k + 1) /\ UNCHANGED calls
              \/ k = N /\ resuming /\ Goes("close", 0) /\ UNCHANGED calls
              \/ k = N /\ ~resuming /\ Goes("judge", 0) /\ UNCHANGED calls
<1>1. Send("stop", "new", k) => Asks("stop", "new", k)
    BY DEF Asks, Sent, Send, Gens
<1>2. QED
    BY <1>1 DEF Goes, Clean, Step

\* A stop of the new launch that is not confirmed is recorded, and the next rank's follows.
LEMMA CleanAnswerDoes ==
    ASSUME TypeOK, CleanAnswer
    PROVE  /\ pc = "cleaning" /\ UNCHANGED <<att, calls, installed>>
           /\ Goes("clean", k + 1) /\ Holds /\ Rewrites({"cleanErr"})
           /\ report'.cleanErr \/ (Stopped("new", k) /\ UNCHANGED report)
  BY DEF Goes, Holds, Rewrites, Fields, CleanAnswer, Step, TypeOK, Reports

\* A rank that was stopped is relaunched once its row is saved.
LEMMA RecoverDoes ==
    ASSUME TypeOK, Recover
    PROVE  /\ pc = "recover" /\ k >= 0 /\ UNCHANGED installed
           /\ \/ /\ k \in report.stopped /\ k \in Ranks
                 /\ Goes("restarting", k) /\ Saves
                 /\ Becomes("rec", k, "reserved") /\ Asks("start", "rec", k)
                 /\ Rewrites({"recovery"}) /\ report'.recovery = report.recovery \cup {k}
              \/ /\ k \in report.stopped /\ k \in Ranks
                 /\ Goes("recover", k - 1) /\ Holds /\ UNCHANGED calls
                 /\ Becomes("rec", k, "reserved") \/ UNCHANGED att
                 /\ Rewrites({"recovery", "recErr"}) /\ report'.recErr
                 /\ report'.recovery \in {report.recovery, report.recovery \cup {k}}
              \/ /\ k \notin report.stopped
                 /\ Goes("recover", k - 1) /\ UNCHANGED <<att, calls, report, journal>>
<1> USE DEF Goes, Holds, Saves, Rewrites, Fields, Step, Write
<1>1. report \in Reports /\ att \in [Gens -> [Ranks -> L!Phases]]
    BY DEF TypeOK
<1>2. Reserved("rec", k) => Becomes("rec", k, "reserved")
    BY <1>1 DEF Reserved, Becomes
<1>3. Send("start", "rec", k) => Asks("start", "rec", k)
    BY DEF Asks, Sent, Send, Gens
<1>4. k \in report.stopped => k \in Ranks
    BY <1>1 DEF Reports
<1>5. QED
    BY <1>1, <1>2, <1>3, <1>4 DEF Recover, Reports

\* A recovery start that fails is recorded, and the next rank's follows.
LEMMA RestartAnswerDoes ==
    ASSUME TypeOK, RestartAnswer
    PROVE  /\ pc = "restarting" /\ UNCHANGED <<att, calls, installed>>
           /\ Goes("recover", k - 1) /\ Holds /\ Rewrites({"recErr"})
           /\ report'.recErr \/ (Started("rec", k) /\ UNCHANGED report)
  BY DEF Goes, Holds, Rewrites, Fields, RestartAnswer, Step, TypeOK, Reports

\* A recovery of every rank is awaited, any other is stopped again.
LEMMA RecoveringDoes ==
    ASSUME TypeOK, Recovering
    PROVE  /\ pc = "recover" /\ k = -1
           /\ UNCHANGED <<att, calls, installed, resuming, seen, resumes>> /\ Holds
           /\ \/ /\ CanAwait /\ ~report.recErr /\ UNCHANGED report
                 /\ pc' = "poll" /\ k' = N - 1 /\ gen' = "rec"
              \/ /\ Goes("recClean", N - 1)
                 /\ Rewrites({"recErr"}) /\ report'.recErr
              \/ /\ report.recovery = {} /\ ~report.recErr /\ UNCHANGED report
                 /\ Goes("close", 0)
  BY DEF Goes, Holds, Rewrites, Fields, Recovering, Step, TypeOK, Reports

\* A rank of a partial recovery is asked to stop, or passed over.
LEMMA RecCleanDoes ==
    ASSUME TypeOK, RecClean
    PROVE  /\ pc = "recClean" /\ UNCHANGED <<att, report, journal, installed>>
           /\ \/ k \in report.recovery /\ Goes("recCleaning", k) /\ Asks("stop", "rec", k)
              \/ k >= 0 /\ k \notin report.recovery /\ Goes("recClean", k - 1) /\ UNCHANGED calls
              \/ k = -1 /\ Goes("close", 0) /\ UNCHANGED calls
<1>1. Send("stop", "rec", k) => Asks("stop", "rec", k)
    BY DEF Asks, Sent, Send, Gens
<1>2. QED
    BY <1>1 DEF Goes, RecClean, Step

\* A stop of a recovery that is not confirmed is recorded, and the next rank's follows.
LEMMA RecCleanAnswerDoes ==
    ASSUME TypeOK, RecCleanAnswer
    PROVE  /\ pc = "recCleaning" /\ UNCHANGED <<att, calls, installed>>
           /\ Goes("recClean", k - 1) /\ Holds /\ Rewrites({"cleanErr"})
           /\ report'.cleanErr \/ (Stopped("rec", k) /\ UNCHANGED report)
  BY DEF Goes, Holds, Rewrites, Fields, RecCleanAnswer, Step, TypeOK, Reports

\* The ranks serve what was sent, and an attempt ends by itself.
RankStep == \E g \in Gens, r \in Ranks : ServeStart(g, r) \/ ServeStop(g, r) \/ Evolve(g, r)

\* A rank's own step moves one attempt, and nothing of the coordinator's.
LEMMA RankDoes ==
    ASSUME TypeOK, RankStep
    PROVE  /\ UNCHANGED <<calls, coordinator, report, journal, installed>>
           /\ \E g \in Gens, r \in Ranks :
                 \/ /\ Sent("start", g, r) /\ att[g][r] = "reserved"
                    /\ Becomes(g, r, "launching")
                 \/ att[g][r] \in L!CanStop /\ Becomes(g, r, "stopped")
                 \/ att[g][r] = "launching" /\ Becomes(g, r, "up")
                 \/ att[g][r] \in {"reserved", "launching", "up"} /\ Becomes(g, r, "ended")
<1>1. PICK g \in Gens, r \in Ranks : ServeStart(g, r) \/ ServeStop(g, r) \/ Evolve(g, r)
    BY DEF RankStep
<1> USE DEF TypeOK
<1>2. CASE ServeStart(g, r)
    BY <1>2, ZenonT(40) DEF ServeStart, Sent, Becomes
<1>3. CASE ServeStop(g, r)
    BY <1>3 DEF ServeStop, L!CanStop, Becomes
<1>4. CASE Evolve(g, r)
    BY <1>4 DEF Evolve, L!Live, L!Moves, Becomes
<1>5. QED
    BY <1>1, <1>2, <1>3, <1>4

\* Nothing that was stopped moves again, nothing is reserved or runs unasked.
LEMMA RankKeeps ==
    ASSUME TypeOK, RankStep
    PROVE  /\ UNCHANGED <<calls, coordinator, report, journal, installed>>
           /\ \A h \in Gens, s \in Ranks :
                 /\ att'[h][s] = "absent" <=> att[h][s] = "absent"
                 /\ att[h][s] = "stopped" => att'[h][s] = "stopped"
                 /\ att'[h][s] = "reserved" => att[h][s] = "reserved"
                 /\ att'[h][s] = "launching" =>
                       att[h][s] = "launching" \/ (att[h][s] = "reserved" /\ Sent("start", h, s))
                 /\ att'[h][s] = "up" => att[h][s] \in {"up", "launching"}
  BY RankDoes DEF Becomes, L!CanStop

\* Every row is a rank's.
LEMMA RowsAreRanks ==
    TypeOK => /\ report.new \subseteq Ranks /\ report.recovery \subseteq Ranks
              /\ report.stopped \subseteq Ranks /\ seen \subseteq Ranks
              /\ k \in Int /\ resumes \in Nat /\ gen \in {"new", "rec"}
  BY SwitchAssumption DEF TypeOK, Reports

-----------------------------------------------------------------------------
(* Each part of the invariant is kept by every step.                       *)

\* Only five kinds of step touch the requests or the attempts.
LEMMA AttemptsStay ==
    Next => \/ StopOld \/ ReserveNew \/ Clean \/ Recover \/ RecClean \/ RankStep
            \/ UNCHANGED <<att, calls>>
  BY DEF Next, Coordinate, RankStep, Look, Prepare, Relook, StopOldAnswer, StartNewAnswer,
         Poll, PollAgain, PollReady, PollFails, PollLost, GatePasses, GateDegenerate,
         Install, CleanAnswer, Judge, RestartAnswer, Recovering, RecCleanAnswer, Close,
         ResumeCheck, Resume, Interrupt

\* The old launch comes up nowhere, and no other does unasked.
LEMMA AttemptsStep == IInv /\ [Next]_vars => OldOnlyEnds' /\ LiveWasSent'
<1> SUFFICES ASSUME IInv, Next PROVE OldOnlyEnds' /\ LiveWasSent'
    BY DEF IInv, vars, OldOnlyEnds, LiveWasSent, Sent
<1> USE DEF IInv, OldOnlyEnds, LiveWasSent, Sent, Gens, L!Live
<1>1. CASE StopOld
    BY <1>1, StopOldDoes DEF Asks
<1>2. CASE ReserveNew
    BY <1>2, ReserveNewDoes DEF Asks, Becomes
<1>3. CASE Clean
    BY <1>3, CleanDoes DEF Asks
<1>4. CASE Recover
    BY <1>4, RecoverDoes DEF Asks, Becomes
<1>5. CASE RecClean
    BY <1>5, RecCleanDoes DEF Asks
<1>6. CASE RankStep
  <2>1. UNCHANGED calls
    BY <1>6, RankDoes
  <2>2. OldOnlyEnds'
    BY <1>6, <2>1, RankDoes DEF Becomes, L!CanStop
  <2>3. LiveWasSent'
    BY <1>6, <2>1, RankKeeps
  <2>4. QED
    BY <2>2, <2>3
<1>7. CASE UNCHANGED <<att, calls>>
    BY <1>7
<1>8. QED
    BY <1>1, <1>2, <1>3, <1>4, <1>5, <1>6, <1>7, AttemptsStay

\* No request leaves before its row is saved.
LEMMA RowsAreSavedStep == IInv /\ [Next]_vars => RowsAreSaved'
<1> SUFFICES ASSUME IInv, Next PROVE RowsAreSaved'
    BY DEF IInv, vars, coordinator, RowsAreSaved, Sent
<1> USE SwitchAssumption, RanksAre, RowsAreRanks
    DEF IInv, RowsAreSaved, Awaits, Gens, Sent, Early, Control, RankInRange
<1>1. CASE Look \/ Prepare \/ Relook
    BY <1>1, RelookDoes
    DEF Look, Prepare, Step, End, Forget, Goes, Saves, Loses, Rewrites, Fields
<1>2. CASE StopOld \/ StopOldAnswer
    BY <1>2, StopOldDoes, StopOldAnswerDoes
    DEF Goes, FailsWith, Holds, Saves, Asks, Rewrites, Fields
<1>3. CASE ReserveNew \/ StartNewAnswer
    BY <1>3, ReserveNewDoes, StartNewAnswerDoes
    DEF Goes, FailsWith, Holds, Saves, Asks, Becomes, Rewrites, Fields
<1>4. CASE Poll \/ PollAgain \/ PollReady \/ PollFails \/ PollLost
    BY <1>4, PollReadyDoes, PollFailsDoes, PollLostDoes
    DEF Poll, PollAgain, Step, Goes, Holds, Rewrites, Fields, FailsWith, Loses, Saves
<1>5. CASE GatePasses \/ GateDegenerate \/ Install
    BY <1>5, GatePassesDoes, GateDegenerateDoes, InstallDoes
    DEF Goes, FailsWith, Holds, Saves, Loses, Rewrites, Fields
<1>6. CASE Clean \/ CleanAnswer \/ Judge
    BY <1>6, CleanDoes, CleanAnswerDoes
    DEF Judge, Step, Goes, Asks, Holds, Rewrites, Fields
<1>7. CASE Recover \/ RestartAnswer \/ Recovering
    BY <1>7, RecoverDoes, RestartAnswerDoes, RecoveringDoes
    DEF Goes, Holds, Saves, Asks, Becomes, Rewrites, Fields
<1>8. CASE RecClean \/ RecCleanAnswer \/ Close
    BY <1>8, RecCleanDoes, RecCleanAnswerDoes
    DEF Close, Step, EndWith, Write, Forget, Goes, Asks, Holds, Rewrites, Fields
<1>9. CASE Resume \/ ResumeCheck \/ Interrupt
    BY <1>9 DEF Resume, ResumeCheck, Interrupt, Step, Resumable, End, Forget
<1>10. CASE RankStep
    BY <1>10, RankKeeps DEF coordinator
<1>11. QED
    BY <1>1, <1>2, <1>3, <1>4, <1>5, <1>6, <1>7, <1>8, <1>9, <1>10
    DEF Next, Coordinate, RankStep

\* Old ranks that were stopped, or not seen, stay down.
LEMMA OldIsLeftStep == IInv /\ [Next]_vars => OldIsLeft'
<1> SUFFICES ASSUME IInv, Next PROVE OldIsLeft'
    BY DEF IInv, vars, coordinator, OldIsLeft, Sent, Running
<1> USE SwitchAssumption, RanksAre, RowsAreRanks
    DEF IInv, OldIsLeft, Awaits, Gens, Sent, Early, NewFresh, RowsAreSaved,
        OldOnlyEnds, Running, Stopped, RankInRange, Control
<1>1. CASE Look \/ Prepare \/ Relook
    BY <1>1, RelookDoes
    DEF Look, Prepare, Step, End, Forget, Goes, Saves, Loses, Rewrites, Fields
<1>2. CASE StopOld \/ StopOldAnswer
    BY <1>2, StopOldDoes, StopOldAnswerDoes
    DEF Goes, FailsWith, Holds, Saves, Asks, Rewrites, Fields
<1>3. CASE ReserveNew \/ StartNewAnswer
    BY <1>3, ReserveNewDoes, StartNewAnswerDoes
    DEF Goes, FailsWith, Holds, Saves, Asks, Becomes, Rewrites, Fields
<1>4. CASE Poll \/ PollAgain \/ PollReady \/ PollFails \/ PollLost
    BY <1>4, PollReadyDoes, PollFailsDoes, PollLostDoes
    DEF Poll, PollAgain, Step, Goes, Holds, Rewrites, Fields, FailsWith, Loses, Saves
<1>5. CASE GatePasses \/ GateDegenerate \/ Install
    BY <1>5, GatePassesDoes, GateDegenerateDoes, InstallDoes
    DEF Goes, FailsWith, Holds, Saves, Loses, Rewrites, Fields
<1>6. CASE Clean \/ CleanAnswer \/ Judge
    BY <1>6, CleanDoes, CleanAnswerDoes
    DEF Judge, Step, Goes, Asks, Holds, Rewrites, Fields
<1>7. CASE Recover \/ RestartAnswer \/ Recovering
    BY <1>7, RecoverDoes, RestartAnswerDoes, RecoveringDoes
    DEF Goes, Holds, Saves, Asks, Becomes, Rewrites, Fields
<1>8. CASE RecClean \/ RecCleanAnswer \/ Close
    BY <1>8, RecCleanDoes, RecCleanAnswerDoes
    DEF Close, Step, EndWith, Write, Forget, Goes, Asks, Holds, Rewrites, Fields
<1>9. CASE Resume \/ ResumeCheck \/ Interrupt
    BY <1>9 DEF Resume, ResumeCheck, Interrupt, Step, Resumable, End, Forget
<1>10. CASE RankStep
  <2>1. \A r \in Ranks : att["old"][r] = "stopped" => att'["old"][r] = "stopped"
    BY <1>10, RankKeeps
  <2>2. \A r \in Ranks : ~Running(r) => ~Running(r)'
    BY <1>10, RankKeeps
  <2>3. UNCHANGED <<coordinator, calls, report>>
    BY <1>10, RankKeeps
  <2>4. (\A r \in report.stopped : att["old"][r] = "stopped")'
    BY <2>1, <2>3
  <2>5. QED
    BY <2>1, <2>2, <2>3, <2>4 DEF coordinator
<1>11. QED
    BY <1>1, <1>2, <1>3, <1>4, <1>5, <1>6, <1>7, <1>8, <1>9, <1>10
    DEF Next, Coordinate, RankStep

\* The rows of the new launch are those of the ranks reserved, from the highest down.
LEMMA NewFreshStep == IInv /\ [Next]_vars => NewFresh'
<1> SUFFICES ASSUME IInv, Next PROVE NewFresh'
    BY DEF IInv, vars, coordinator, NewFresh, Awaits
<1> USE SwitchAssumption, RanksAre, RowsAreRanks
    DEF IInv, NewFresh, Awaits, Gens, Early, RowsAreSaved, RankInRange, Control,
        StatusTold
<1>1. CASE Look \/ Prepare \/ Relook
    BY <1>1, RelookDoes
    DEF Look, Prepare, Step, End, Forget, Goes, Saves, Loses, Rewrites, Fields
<1>2. CASE StopOld \/ StopOldAnswer
    BY <1>2, StopOldDoes, StopOldAnswerDoes
    DEF Goes, FailsWith, Holds, Saves, Asks, Rewrites, Fields
<1>3. CASE ReserveNew \/ StartNewAnswer
  <2>1. CASE ReserveNew
    BY <2>1, ReserveNewDoes DEF Goes, FailsWith, Holds, Saves, Becomes, Rewrites, Fields
  <2>2. CASE StartNewAnswer /\ k = 0 /\ Goes("poll", N - 1)
    <3>1. UNCHANGED <<report, att>>
      BY <2>2, StartNewAnswerDoes DEF Goes, FailsWith
    <3>2. pc = "starting"
      BY <2>2, StartNewAnswerDoes
    <3>3. \A r \in Ranks : r \in report.new
      BY <2>2, <3>2
    <3>4. report.new \subseteq Ranks
      OBVIOUS
    <3>5. report.new = Ranks
      BY <3>3, <3>4
    <3>6. QED
      BY <2>2, <3>1, <3>5 DEF Goes
  <2>3. CASE StartNewAnswer /\ ~(k = 0 /\ Goes("poll", N - 1))
    <3>1. pc = "starting" /\ k \in Ranks
      BY <2>3, StartNewAnswerDoes
    <3>2. \/ Goes("reserve", k - 1) /\ UNCHANGED <<report, att>>
          \/ FailsWith({})
      BY <2>3, <3>1, StartNewAnswerDoes
    <3>3. QED
      BY <3>1, <3>2 DEF Goes, FailsWith
  <2>4. QED
    BY <1>3, <2>1, <2>2, <2>3
<1>4. CASE Poll \/ PollAgain \/ PollReady \/ PollFails \/ PollLost
    BY <1>4, PollReadyDoes, PollFailsDoes, PollLostDoes
    DEF Poll, PollAgain, Step, Goes, Holds, Rewrites, Fields, FailsWith, Loses, Saves
<1>5. CASE GatePasses \/ GateDegenerate \/ Install
    BY <1>5, GatePassesDoes, GateDegenerateDoes, InstallDoes
    DEF Goes, FailsWith, Holds, Saves, Loses, Rewrites, Fields
<1>6. CASE Clean \/ CleanAnswer \/ Judge
    BY <1>6, CleanDoes, CleanAnswerDoes
    DEF Judge, Step, Goes, Asks, Holds, Rewrites, Fields
<1>7. CASE Recover \/ RestartAnswer \/ Recovering
    BY <1>7, RecoverDoes, RestartAnswerDoes, RecoveringDoes
    DEF Goes, Holds, Saves, Asks, Becomes, Rewrites, Fields
<1>8. CASE RecClean \/ RecCleanAnswer \/ Close
    BY <1>8, RecCleanDoes, RecCleanAnswerDoes
    DEF Close, Step, EndWith, Write, Forget, Goes, Asks, Holds, Rewrites, Fields
<1>9. CASE Resume \/ ResumeCheck \/ Interrupt
    BY <1>9 DEF Resume, ResumeCheck, Interrupt, Step, Resumable, End, Forget
<1>10. CASE RankStep
    BY <1>10, RankKeeps DEF coordinator
<1>11. QED
    BY <1>1, <1>2, <1>3, <1>4, <1>5, <1>6, <1>7, <1>8, <1>9, <1>10
    DEF Next, Coordinate, RankStep

\* The rows of a recovery are those of the ranks relaunched, from the highest down.
LEMMA RecFreshStep == IInv /\ [Next]_vars => RecFresh'
<1> SUFFICES ASSUME IInv, Next PROVE RecFresh'
    BY DEF IInv, vars, coordinator, RecFresh, Sent, Awaits, NoRecovery
<1> USE SwitchAssumption, RanksAre, RowsAreRanks
    DEF IInv, RecFresh, Awaits, Gens, Sent, Early, Failing, RowsAreSaved, RankInRange,
        Control, StatusTold, NoRecovery, Started, Unconfirmed, CanAwait
<1>1. CASE Look \/ Prepare \/ Relook
    BY <1>1, RelookDoes
    DEF Look, Prepare, Step, End, Forget, Goes, Saves, Loses, Rewrites, Fields
<1>2. CASE StopOld \/ StopOldAnswer
    BY <1>2, StopOldDoes, StopOldAnswerDoes
    DEF Goes, FailsWith, Holds, Saves, Asks, Rewrites, Fields
<1>3. CASE ReserveNew \/ StartNewAnswer
    BY <1>3, ReserveNewDoes, StartNewAnswerDoes
    DEF Goes, FailsWith, Holds, Saves, Asks, Becomes, Rewrites, Fields
<1>4. CASE Poll \/ PollAgain \/ PollReady \/ PollFails \/ PollLost
    BY <1>4, PollReadyDoes, PollFailsDoes, PollLostDoes
    DEF Poll, PollAgain, Step, Goes, Holds, Rewrites, Fields, FailsWith, Loses, Saves,
        UnconfirmedStatus, TypeOK
<1>5. CASE GatePasses \/ GateDegenerate \/ Install
    BY <1>5, GatePassesDoes, GateDegenerateDoes, InstallDoes
    DEF Goes, FailsWith, Holds, Saves, Loses, Rewrites, Fields
<1>6. CASE Clean \/ CleanAnswer \/ Judge
    BY <1>6, CleanDoes, CleanAnswerDoes
    DEF Judge, Step, Goes, Asks, Holds, Rewrites, Fields
<1>7. CASE Recover \/ RestartAnswer \/ Recovering
    BY <1>7, RecoverDoes, RestartAnswerDoes, RecoveringDoes
    DEF Goes, Holds, Saves, Asks, Becomes, Rewrites, Fields
<1>8. CASE RecClean \/ RecCleanAnswer \/ Close
    BY <1>8, RecCleanDoes, RecCleanAnswerDoes
    DEF Close, Step, EndWith, Write, Forget, Goes, Asks, Holds, Rewrites, Fields
<1>9. CASE Resume \/ ResumeCheck \/ Interrupt
    BY <1>9 DEF Resume, ResumeCheck, Interrupt, Step, Resumable, End, Forget
<1>10. CASE RankStep
    BY <1>10, RankKeeps, ZenonT(40) DEF coordinator
<1>11. QED
    BY <1>1, <1>2, <1>3, <1>4, <1>5, <1>6, <1>7, <1>8, <1>9, <1>10
    DEF Next, Coordinate, RankStep

\* What is awaited was begun.
LEMMA IsBegunStep == IInv /\ [Next]_vars => IsBegun'
<1> SUFFICES ASSUME IInv, Next PROVE IsBegun'
    BY DEF IInv, vars, coordinator, IsBegun, Sent, Begun, Awaits
<1> USE SwitchAssumption, RanksAre, RowsAreRanks
    DEF IInv, IsBegun, Awaits, Gens, Sent, Begun, Early, Failing, RowsAreSaved,
        RankInRange, Control, StatusTold, NewFresh, RecFresh, NoRecovery, Started,
        LiveWasSent, L!Live, Unconfirmed, UnconfirmedStatus, CanAwait
<1>1. CASE Look \/ Prepare \/ Relook
    BY <1>1, RelookDoes
    DEF Look, Prepare, Step, End, Forget, Goes, Saves, Loses, Rewrites, Fields
<1>2. CASE StopOld \/ StopOldAnswer
    BY <1>2, StopOldDoes, StopOldAnswerDoes
    DEF Goes, FailsWith, Holds, Saves, Asks, Rewrites, Fields
<1>3. CASE ReserveNew \/ StartNewAnswer
    BY <1>3, ReserveNewDoes, StartNewAnswerDoes
    DEF Goes, FailsWith, Holds, Saves, Asks, Becomes, Rewrites, Fields
<1>4. CASE Poll \/ PollAgain \/ PollReady \/ PollFails \/ PollLost
    BY <1>4, PollReadyDoes, PollFailsDoes, PollLostDoes
    DEF Poll, PollAgain, Step, Goes, Holds, Rewrites, Fields, FailsWith, Loses, Saves
<1>5. CASE GatePasses \/ GateDegenerate \/ Install
    BY <1>5, GatePassesDoes, GateDegenerateDoes, InstallDoes
    DEF Goes, FailsWith, Holds, Saves, Loses, Rewrites, Fields
<1>6. CASE Clean \/ CleanAnswer \/ Judge
    BY <1>6, CleanDoes, CleanAnswerDoes
    DEF Judge, Step, Goes, Asks, Holds, Rewrites, Fields
<1>7. CASE Recover \/ RestartAnswer \/ Recovering
    BY <1>7, RecoverDoes, RestartAnswerDoes, RecoveringDoes
    DEF Goes, Holds, Saves, Asks, Becomes, Rewrites, Fields
<1>8. CASE RecClean \/ RecCleanAnswer \/ Close
    BY <1>8, RecCleanDoes, RecCleanAnswerDoes
    DEF Close, Step, EndWith, Write, Forget, Goes, Asks, Holds, Rewrites, Fields
<1>9. CASE Resume \/ ResumeCheck \/ Interrupt
    BY <1>9 DEF Resume, ResumeCheck, Interrupt, Step, Resumable, End, Forget
<1>10. CASE RankStep
    BY <1>10, RankKeeps DEF coordinator
<1>11. QED
    BY <1>1, <1>2, <1>3, <1>4, <1>5, <1>6, <1>7, <1>8, <1>9, <1>10
    DEF Next, Coordinate, RankStep

\* A rank of the new launch counts as stopped when it is.
LEMMA NewIsDownStep == IInv /\ [Next]_vars => NewIsDown'
<1> SUFFICES ASSUME IInv, Next PROVE NewIsDown'
    BY DEF IInv, vars, coordinator, NewIsDown
<1> USE SwitchAssumption, RanksAre, RowsAreRanks
    DEF IInv, NewIsDown, Awaits, Gens, Early, Failing, RowsAreSaved, RankInRange,
        Control, StatusTold, NewFresh, RecFresh, NoRecovery, Stopped, MayRecover
<1>1. CASE Look \/ Prepare \/ Relook
    BY <1>1, RelookDoes
    DEF Look, Prepare, Step, End, Forget, Goes, Saves, Loses, Rewrites, Fields
<1>2. CASE StopOld \/ StopOldAnswer
    BY <1>2, StopOldDoes, StopOldAnswerDoes
    DEF Goes, FailsWith, Holds, Saves, Asks, Rewrites, Fields
<1>3. CASE ReserveNew \/ StartNewAnswer
    BY <1>3, ReserveNewDoes, StartNewAnswerDoes
    DEF Goes, FailsWith, Holds, Saves, Asks, Becomes, Rewrites, Fields
<1>4. CASE Poll \/ PollAgain \/ PollReady \/ PollFails \/ PollLost
    BY <1>4, PollReadyDoes, PollFailsDoes, PollLostDoes
    DEF Poll, PollAgain, Step, Goes, Holds, Rewrites, Fields, FailsWith, Loses, Saves
<1>5. CASE GatePasses \/ GateDegenerate \/ Install
    BY <1>5, GatePassesDoes, GateDegenerateDoes, InstallDoes
    DEF Goes, FailsWith, Holds, Saves, Loses, Rewrites, Fields
<1>6. CASE Clean \/ CleanAnswer \/ Judge
    BY <1>6, CleanDoes, CleanAnswerDoes
    DEF Judge, Step, Goes, Asks, Holds, Rewrites, Fields
<1>7. CASE Recover \/ RestartAnswer \/ Recovering
    BY <1>7, RecoverDoes, RestartAnswerDoes, RecoveringDoes
    DEF Goes, Holds, Saves, Asks, Becomes, Rewrites, Fields
<1>8. CASE RecClean \/ RecCleanAnswer \/ Close
    BY <1>8, RecCleanDoes, RecCleanAnswerDoes
    DEF Close, Step, EndWith, Write, Forget, Goes, Asks, Holds, Rewrites, Fields
<1>9. CASE Resume \/ ResumeCheck \/ Interrupt
    BY <1>9 DEF Resume, ResumeCheck, Interrupt, Step, Resumable, End, Forget
<1>10. CASE RankStep
  <2>1. \A r \in Ranks : att["new"][r] = "stopped" => att'["new"][r] = "stopped"
    BY <1>10, RankKeeps
  <2>2. UNCHANGED <<coordinator, report>>
    BY <1>10, RankKeeps
  <2>3. \A r \in report.new : r \in Ranks
    OBVIOUS
  <2>4. QED
    BY <2>1, <2>2, <2>3 DEF coordinator
<1>11. QED
    BY <1>1, <1>2, <1>3, <1>4, <1>5, <1>6, <1>7, <1>8, <1>9, <1>10
    DEF Next, Coordinate, RankStep

\* A launch is given up for failed when it is down, or an error says that it may not be.
LEMMA GivenUpStep == IInv /\ [Next]_vars => GivenUp'
<1> SUFFICES ASSUME IInv, Next PROVE GivenUp'
    BY DEF IInv, vars, coordinator, GivenUp
<1> USE SwitchAssumption, RanksAre, RowsAreRanks
    DEF IInv, GivenUp, NewIsDown, Awaits, Gens, Early, Failing, RowsAreSaved, RankInRange,
        Control, StatusTold, NewFresh, RecFresh, NoRecovery, Stopped, MayRecover,
        Unconfirmed, UnconfirmedStatus
<1>1. CASE Look \/ Prepare \/ Relook
    BY <1>1, RelookDoes
    DEF Look, Prepare, Step, End, Forget, Goes, Saves, Loses, Rewrites, Fields
<1>2. CASE StopOld \/ StopOldAnswer
    BY <1>2, StopOldDoes, StopOldAnswerDoes
    DEF Goes, FailsWith, Holds, Saves, Asks, Rewrites, Fields
<1>3. CASE ReserveNew \/ StartNewAnswer
    BY <1>3, ReserveNewDoes, StartNewAnswerDoes
    DEF Goes, FailsWith, Holds, Saves, Asks, Becomes, Rewrites, Fields
<1>4. CASE Poll \/ PollAgain \/ PollReady \/ PollFails \/ PollLost
    BY <1>4, PollReadyDoes, PollFailsDoes, PollLostDoes
    DEF Poll, PollAgain, Step, Goes, Holds, Rewrites, Fields, FailsWith, Loses, Saves
<1>5. CASE GatePasses \/ GateDegenerate \/ Install
    BY <1>5, GatePassesDoes, GateDegenerateDoes, InstallDoes
    DEF Goes, FailsWith, Holds, Saves, Loses, Rewrites, Fields
<1>6. CASE Clean \/ CleanAnswer \/ Judge
    BY <1>6, CleanDoes, CleanAnswerDoes
    DEF Judge, Step, Goes, Asks, Holds, Rewrites, Fields
<1>7. CASE Recover \/ RestartAnswer \/ Recovering
    BY <1>7, RecoverDoes, RestartAnswerDoes, RecoveringDoes
    DEF Goes, Holds, Saves, Asks, Becomes, Rewrites, Fields
<1>8. CASE RecClean \/ RecCleanAnswer \/ Close
    BY <1>8, RecCleanDoes, RecCleanAnswerDoes
    DEF Close, Step, EndWith, Write, Forget, Goes, Asks, Holds, Rewrites, Fields
<1>9. CASE Resume \/ ResumeCheck \/ Interrupt
    BY <1>9 DEF Resume, ResumeCheck, Interrupt, Step, Resumable, End, Forget
<1>10. CASE RankStep
  <2>1. \A g \in Gens, r \in Ranks : att[g][r] = "stopped" => att'[g][r] = "stopped"
    BY <1>10, RankKeeps
  <2>2. UNCHANGED <<coordinator, report, journal>>
    BY <1>10, RankKeeps
  <2>3. \A r \in journal.new \cup report.recovery : r \in Ranks
    OBVIOUS
  <2>4. QED
    BY <2>1, <2>2, <2>3 DEF coordinator
<1>11. QED
    BY <1>1, <1>2, <1>3, <1>4, <1>5, <1>6, <1>7, <1>8, <1>9, <1>10
    DEF Next, Coordinate, RankStep

\* Where the coordinator is tells whether it resumes and what it attends to.
LEMMA ControlStep == IInv /\ [Next]_vars => Control'
<1> SUFFICES ASSUME IInv, Next PROVE Control'
    BY DEF IInv, vars, coordinator, Control
<1> USE SwitchAssumption, RanksAre, RowsAreRanks
    DEF IInv, Control, Awaits, Early, Unconfirmed
<1>1. CASE Look \/ Prepare \/ Relook
    BY <1>1, RelookDoes
    DEF Look, Prepare, Step, End, Forget, Goes, Saves, Loses, Rewrites, Fields
<1>2. CASE StopOld \/ StopOldAnswer
    BY <1>2, StopOldDoes, StopOldAnswerDoes
    DEF Goes, FailsWith, Holds, Saves, Asks, Rewrites, Fields
<1>3. CASE ReserveNew \/ StartNewAnswer
    BY <1>3, ReserveNewDoes, StartNewAnswerDoes
    DEF Goes, FailsWith, Holds, Saves, Asks, Becomes, Rewrites, Fields
<1>4. CASE Poll \/ PollAgain \/ PollReady \/ PollFails \/ PollLost
    BY <1>4, PollReadyDoes, PollFailsDoes, PollLostDoes
    DEF Poll, PollAgain, Step, Goes, Holds, Rewrites, Fields, FailsWith, Loses, Saves
<1>5. CASE GatePasses \/ GateDegenerate \/ Install
    BY <1>5, GatePassesDoes, GateDegenerateDoes, InstallDoes
    DEF Goes, FailsWith, Holds, Saves, Loses, Rewrites, Fields
<1>6. CASE Clean \/ CleanAnswer \/ Judge
    BY <1>6, CleanDoes, CleanAnswerDoes
    DEF Judge, Step, Goes, Asks, Holds, Rewrites, Fields
<1>7. CASE Recover \/ RestartAnswer \/ Recovering
    BY <1>7, RecoverDoes, RestartAnswerDoes, RecoveringDoes
    DEF Goes, Holds, Saves, Asks, Becomes, Rewrites, Fields
<1>8. CASE RecClean \/ RecCleanAnswer \/ Close
    BY <1>8, RecCleanDoes, RecCleanAnswerDoes
    DEF Close, Step, EndWith, Write, Forget, Goes, Asks, Holds, Rewrites, Fields
<1>9. CASE Resume \/ ResumeCheck \/ Interrupt
    BY <1>9 DEF Resume, ResumeCheck, Interrupt, Step, Resumable, End, Forget
<1>10. CASE RankStep
    BY <1>10, RankKeeps DEF coordinator
<1>11. QED
    BY <1>1, <1>2, <1>3, <1>4, <1>5, <1>6, <1>7, <1>8, <1>9, <1>10
    DEF Next, Coordinate, RankStep

\* The status follows the stage of the command.
LEMMA StatusToldStep == IInv /\ [Next]_vars => StatusTold'
<1> SUFFICES ASSUME IInv, Next PROVE StatusTold'
    BY DEF IInv, vars, coordinator, StatusTold, Awaits, UnconfirmedStatus
<1> USE SwitchAssumption, RanksAre, RowsAreRanks
    DEF IInv, StatusTold, Awaits, Gens, Early, Failing, Unconfirmed, UnconfirmedStatus,
        Control, NewFresh, RecFresh, RowsAreSaved
<1>1. CASE Look \/ Prepare \/ Relook
    BY <1>1, RelookDoes
    DEF Look, Prepare, Step, End, Forget, Goes, Saves, Loses, Rewrites, Fields
<1>2. CASE StopOld \/ StopOldAnswer
    BY <1>2, StopOldDoes, StopOldAnswerDoes
    DEF Goes, FailsWith, Holds, Saves, Asks, Rewrites, Fields
<1>3. CASE ReserveNew \/ StartNewAnswer
    BY <1>3, ReserveNewDoes, StartNewAnswerDoes
    DEF Goes, FailsWith, Holds, Saves, Asks, Becomes, Rewrites, Fields
<1>4. CASE Poll \/ PollAgain \/ PollReady \/ PollFails \/ PollLost
    BY <1>4, PollReadyDoes, PollFailsDoes, PollLostDoes
    DEF Poll, PollAgain, Step, Goes, Holds, Rewrites, Fields, FailsWith, Loses, Saves,
        TypeOK
<1>5. CASE GatePasses \/ GateDegenerate \/ Install
    BY <1>5, GatePassesDoes, GateDegenerateDoes, InstallDoes
    DEF Goes, FailsWith, Holds, Saves, Loses, Rewrites, Fields
<1>6. CASE Clean \/ CleanAnswer \/ Judge
    BY <1>6, CleanDoes, CleanAnswerDoes
    DEF Judge, Step, Goes, Asks, Holds, Rewrites, Fields
<1>7. CASE Recover \/ RestartAnswer \/ Recovering
    BY <1>7, RecoverDoes, RestartAnswerDoes, RecoveringDoes
    DEF Goes, Holds, Saves, Asks, Becomes, Rewrites, Fields
<1>8. CASE RecClean \/ RecCleanAnswer \/ Close
    BY <1>8, RecCleanDoes, RecCleanAnswerDoes
    DEF Close, Step, EndWith, Write, Forget, Goes, Asks, Holds, Rewrites, Fields
<1>9. CASE Resume \/ ResumeCheck \/ Interrupt
    BY <1>9 DEF Resume, ResumeCheck, Interrupt, Step, Resumable, End, Forget
<1>10. CASE RankStep
    BY <1>10, RankKeeps DEF coordinator
<1>11. QED
    BY <1>1, <1>2, <1>3, <1>4, <1>5, <1>6, <1>7, <1>8, <1>9, <1>10
    DEF Next, Coordinate, RankStep

\* Nobody is asked to stop what is awaited or concluded about.
LEMMA AskedStep == IInv /\ [Next]_vars => Asked'
<1> SUFFICES ASSUME IInv, Next PROVE Asked'
    BY DEF IInv, vars, coordinator, Asked, Awaits, Sent
<1> USE SwitchAssumption, RanksAre, RowsAreRanks
    DEF IInv, Asked, Awaits, Gens, Sent, Early, Failing, RowsAreSaved, RankInRange,
        Control, StatusTold, Unconfirmed, UnconfirmedStatus
<1>1. CASE Look \/ Prepare \/ Relook
    BY <1>1, RelookDoes
    DEF Look, Prepare, Step, End, Forget, Goes, Saves, Loses, Rewrites, Fields
<1>2. CASE StopOld \/ StopOldAnswer
    BY <1>2, StopOldDoes, StopOldAnswerDoes
    DEF Goes, FailsWith, Holds, Saves, Asks, Rewrites, Fields
<1>3. CASE ReserveNew \/ StartNewAnswer
    BY <1>3, ReserveNewDoes, StartNewAnswerDoes
    DEF Goes, FailsWith, Holds, Saves, Asks, Becomes, Rewrites, Fields
<1>4. CASE Poll \/ PollAgain \/ PollReady \/ PollFails \/ PollLost
    BY <1>4, PollReadyDoes, PollFailsDoes, PollLostDoes
    DEF Poll, PollAgain, Step, Goes, Holds, Rewrites, Fields, FailsWith, Loses, Saves
<1>5. CASE GatePasses \/ GateDegenerate \/ Install
    BY <1>5, GatePassesDoes, GateDegenerateDoes, InstallDoes
    DEF Goes, FailsWith, Holds, Saves, Loses, Rewrites, Fields
<1>6. CASE Clean \/ CleanAnswer \/ Judge
    BY <1>6, CleanDoes, CleanAnswerDoes
    DEF Judge, Step, Goes, Asks, Holds, Rewrites, Fields
<1>7. CASE Recover \/ RestartAnswer \/ Recovering
    BY <1>7, RecoverDoes, RestartAnswerDoes, RecoveringDoes
    DEF Goes, Holds, Saves, Asks, Becomes, Rewrites, Fields
<1>8. CASE RecClean \/ RecCleanAnswer \/ Close
    BY <1>8, RecCleanDoes, RecCleanAnswerDoes
    DEF Close, Step, EndWith, Write, Forget, Goes, Asks, Holds, Rewrites, Fields
<1>9. CASE Resume \/ ResumeCheck \/ Interrupt
    BY <1>9 DEF Resume, ResumeCheck, Interrupt, Step, Resumable, End, Forget
<1>10. CASE RankStep
    BY <1>10, RankKeeps DEF coordinator
<1>11. QED
    BY <1>1, <1>2, <1>3, <1>4, <1>5, <1>6, <1>7, <1>8, <1>9, <1>10
    DEF Next, Coordinate, RankStep

\* A recovery that relaunched nothing had nothing to relaunch.
LEMMA OutageExplainedStep == IInv /\ [Next]_vars => OutageExplained'
<1> SUFFICES ASSUME IInv, Next PROVE OutageExplained'
    BY DEF IInv, vars, coordinator, OutageExplained
<1> USE SwitchAssumption, RanksAre, RowsAreRanks
    DEF IInv, OutageExplained, Awaits, Early, Failing, RankInRange, Control,
        StatusTold, RecFresh, MayRecover
<1>1. CASE Look \/ Prepare \/ Relook
    BY <1>1, RelookDoes
    DEF Look, Prepare, Step, End, Forget, Goes, Saves, Loses, Rewrites, Fields
<1>2. CASE StopOld \/ StopOldAnswer
    BY <1>2, StopOldDoes, StopOldAnswerDoes
    DEF Goes, FailsWith, Holds, Saves, Asks, Rewrites, Fields
<1>3. CASE ReserveNew \/ StartNewAnswer
    BY <1>3, ReserveNewDoes, StartNewAnswerDoes
    DEF Goes, FailsWith, Holds, Saves, Asks, Becomes, Rewrites, Fields
<1>4. CASE Poll \/ PollAgain \/ PollReady \/ PollFails \/ PollLost
    BY <1>4, PollReadyDoes, PollFailsDoes, PollLostDoes
    DEF Poll, PollAgain, Step, Goes, Holds, Rewrites, Fields, FailsWith, Loses, Saves
<1>5. CASE GatePasses \/ GateDegenerate \/ Install
    BY <1>5, GatePassesDoes, GateDegenerateDoes, InstallDoes
    DEF Goes, FailsWith, Holds, Saves, Loses, Rewrites, Fields
<1>6. CASE Clean \/ CleanAnswer \/ Judge
    BY <1>6, CleanDoes, CleanAnswerDoes
    DEF Judge, Step, Goes, Asks, Holds, Rewrites, Fields
<1>7. CASE Recover \/ RestartAnswer \/ Recovering
  <2>1. CASE Recovering /\ report.recovery = {} /\ ~report.recErr
    <3>1. \A r \in report.stopped : r \in Ranks /\ ~(r <= k)
      BY <2>1, RecoveringDoes
    <3>2. report.stopped = {}
      BY <2>1, <3>1, RecoveringDoes
    <3>3. QED
      BY <2>1, <3>2, RecoveringDoes DEF Goes, Rewrites, Fields
  <2>2. CASE Recovering /\ ~(report.recovery = {} /\ ~report.recErr)
    BY <2>2, RecoveringDoes DEF Goes, Rewrites, Fields
  <2>3. CASE Recover \/ RestartAnswer
    BY <2>3, RecoverDoes, RestartAnswerDoes DEF Goes
  <2>4. QED
    BY <1>7, <2>1, <2>2, <2>3
<1>8. CASE RecClean \/ RecCleanAnswer \/ Close
    BY <1>8, RecCleanDoes, RecCleanAnswerDoes
    DEF Close, Step, EndWith, Write, Forget, Goes, Asks, Holds, Rewrites, Fields
<1>9. CASE Resume \/ ResumeCheck \/ Interrupt
    BY <1>9 DEF Resume, ResumeCheck, Interrupt, Step, Resumable, End, Forget
<1>10. CASE RankStep
    BY <1>10, RankKeeps DEF coordinator
<1>11. QED
    BY <1>1, <1>2, <1>3, <1>4, <1>5, <1>6, <1>7, <1>8, <1>9, <1>10
    DEF Next, Coordinate, RankStep

\* A journal that says complete is not written again but by the installation.
LEMMA CompleteStays ==
    ASSUME IInv, Next, journal.status = "complete" PROVE journal'.status = "complete"
<1>1. pc \in {"install", "over"} /\ report.status = "complete"
    BY DEF IInv, StatusTold
<1>2. CASE Install
    BY <1>1, <1>2, InstallDoes DEF IInv, Loses, Saves, Rewrites, Fields
<1>3. CASE Resume \/ Interrupt \/ RankStep
    BY <1>1, <1>3, RankDoes
    DEF IInv, Resume, Interrupt, End, Forget
<1>4. QED
    BY <1>1, <1>2, <1>3
    DEF Next, Coordinate, RankStep, Look, Prepare, Relook, StopOld, StopOldAnswer,
        ReserveNew, StartNewAnswer, Poll, PollAgain, PollReady, PollFails, PollLost,
        GatePasses, GateDegenerate, Clean, CleanAnswer, Judge, Recover, RestartAnswer,
        Recovering, RecClean, RecCleanAnswer, Close, ResumeCheck

\* Profile files are only replaced for a complete launch.
LEMMA InstalledStep == IInv /\ [Next]_vars => InstalledIsComplete'
<1> SUFFICES ASSUME IInv, Next PROVE InstalledIsComplete'
    BY DEF IInv, vars, InstalledIsComplete
<1> USE DEF IInv, InstalledIsComplete, StatusTold
<1>1. CASE Install
    BY <1>1, InstallDoes DEF Loses, Saves, Rewrites, Fields
<1>2. CASE installed' = installed
  <2>1. journal.status = "complete" => journal'.status = "complete"
    BY CompleteStays
  <2>2. QED
    BY <1>2, <2>1
<1>3. QED
    BY <1>1, <1>2
    DEF Next, Coordinate, Look, Prepare, Relook, StopOld, StopOldAnswer, ReserveNew,
        StartNewAnswer, Poll, PollAgain, PollReady, PollFails, PollLost, GatePasses,
        GateDegenerate, Clean, CleanAnswer, Judge, Recover, RestartAnswer, Recovering,
        RecClean, RecCleanAnswer, Close, ResumeCheck, Resume, Interrupt, ServeStart,
        ServeStop, Evolve

-----------------------------------------------------------------------------
(* The invariant, and what follows from it.                                *)

\* The coordinator starts its command in the invariant.
LEMMA InitInv == Init => IInv
<1> SUFFICES ASSUME Init PROVE IInv
    OBVIOUS
<1>1. TypeOK
  <2>1. FirstReport \in Reports
    BY DEF FirstReport, Reports, Statuses
  <2>2. att \in [Gens -> [Ranks -> L!Phases]]
    BY DEF Init, Gens, L!Phases
  <2>3. k \in -1 .. N /\ polls \in 0 .. MaxPolls /\ resumes \in 0 .. MaxResumes
    BY SwitchAssumption DEF Init
  <2>4. pc \in Working /\ gen \in {"new", "rec"} /\ resuming \in BOOLEAN
    BY DEF Init, Working
  <2>5. calls = {} /\ seen = {} /\ answers = {} /\ installed = {}
    BY DEF Init
  <2>6. report \in Reports /\ journal \in Reports
    BY <2>1 DEF Init
  <2>7. QED
    BY <2>2, <2>3, <2>4, <2>5, <2>6 DEF TypeOK
<1> USE SwitchAssumption, RanksAre DEF Init, FirstReport
<1>2. RankInRange /\ OldOnlyEnds /\ LiveWasSent /\ RowsAreSaved
    BY DEF RankInRange, OldOnlyEnds, LiveWasSent, RowsAreSaved, Sent, Gens, L!Live, Early
<1>3. OldIsLeft /\ NewFresh /\ RecFresh
    BY DEF OldIsLeft, NewFresh, RecFresh, NoRecovery, Awaits, Sent, Gens, Early, Running
<1>4. IsBegun /\ NewIsDown /\ GivenUp /\ Control
    BY DEF IsBegun, NewIsDown, GivenUp, Control, Awaits, Early, Unconfirmed
<1>5. StatusTold /\ Asked /\ OutageExplained /\ InstalledIsComplete
    BY DEF StatusTold, Asked, OutageExplained, InstalledIsComplete, Awaits, Sent, Early,
           Failing, Unconfirmed
<1>6. QED
    BY <1>1, <1>2, <1>3, <1>4, <1>5 DEF IInv

\* Every step keeps the invariant.
LEMMA StepInv == IInv /\ [Next]_vars => IInv'
<1> SUFFICES ASSUME IInv, [Next]_vars PROVE IInv'
    OBVIOUS
<1>1. TypeOK' /\ RankInRange'
    BY TypeStep DEF IInv
<1>2. OldOnlyEnds' /\ LiveWasSent'
    BY AttemptsStep
<1>3. RowsAreSaved' /\ OldIsLeft' /\ NewFresh' /\ RecFresh'
    BY RowsAreSavedStep, OldIsLeftStep, NewFreshStep, RecFreshStep
<1>4. IsBegun' /\ NewIsDown' /\ GivenUp' /\ Control'
    BY IsBegunStep, NewIsDownStep, GivenUpStep, ControlStep
<1>5. StatusTold' /\ Asked' /\ OutageExplained' /\ InstalledIsComplete'
    BY StatusToldStep, AskedStep, OutageExplainedStep, InstalledStep
<1>6. QED
    BY <1>1, <1>2, <1>3, <1>4, <1>5 DEF IInv

\* For any number of ranks, readiness passes and resume commands, the invariant
\* that ties the coordinator's place, its report, the saved journal, the
\* requests and the attempts together holds in every behaviour.
THEOREM Inductive == Spec => []IInv
  BY InitInv, StepInv, PTL DEF Spec

\* Every variable keeps its type: ranks stay in range, reports stay reports.
THEOREM TypeCorrect == Spec => []TypeOK
<1>1. IInv => TypeOK
    BY DEF IInv
<1>2. QED
    BY <1>1, Inductive, PTL

\* What may run was asked for and is in the journal.
LEMMA MayRunIsSaved ==
    ASSUME IInv, NEW r \in Ranks
    PROVE  /\ MayRun("old", r) => Running(r)
           /\ MayRun("new", r) => Sent("start", "new", r) /\ r \in journal.new
                                  /\ r \in report.new /\ att["new"][r] # "stopped"
           /\ MayRun("rec", r) => Sent("start", "rec", r) /\ r \in journal.recovery
                                  /\ r \in report.recovery
  BY DEF IInv, MayRun, OldOnlyEnds, LiveWasSent, RowsAreSaved, Running, L!Live

\* No two launches of a rank compete for its GPU and memory, now or when a
\* request in flight is served: a new start leaves when every old rank is down,
\* a recovery when every new row is confirmed stopped.
THEOREM NeverCompete == Spec => []NoCompetition
<1>1. ASSUME IInv PROVE NoCompetition
  <2>1. ASSUME NEW r \in Ranks PROVE ~(MayRun("old", r) /\ MayRun("new", r))
    BY <1>1, <2>1, MayRunIsSaved DEF IInv, OldIsLeft
  <2>2. ASSUME NEW r \in Ranks PROVE ~(MayRun("old", r) /\ MayRun("rec", r))
    BY <1>1, <2>2, MayRunIsSaved DEF IInv, OldIsLeft, Running
  <2>3. ASSUME NEW r \in Ranks PROVE ~(MayRun("new", r) /\ MayRun("rec", r))
    BY <1>1, <2>3, MayRunIsSaved DEF IInv, NewIsDown
  <2>4. QED
    BY <2>1, <2>2, <2>3 DEF NoCompetition, Gens
<1>2. QED
    BY <1>1, Inductive, PTL

\* Wherever the coordinator is lost, result.json names every attempt that may
\* run and every old rank asked to stop, and can be resumed if it says so.
THEOREM Covered == Spec => []JournalCovers
<1>1. ASSUME IInv PROVE JournalCovers
    BY <1>1, MayRunIsSaved DEF IInv, JournalCovers, RowsAreSaved, StatusTold
<1>2. QED
    BY <1>1, Inductive, PTL

\* A command that took the old launch down and did not bring it back says why.
THEOREM Explained == Spec => []OutageExplained
<1>1. IInv => OutageExplained
    BY DEF IInv
<1>2. QED
    BY <1>1, Inductive, PTL

\* A launch that is given up for failed without a cleanup error is down on every rank and
\* stays down: the rows name whatever may run, each of them was confirmed stopped or left
\* an error, and a start that arrives later finds the attempt stopped.
THEOREM GivenUpIsDown == Spec => []FailedIsDown
<1>1. ASSUME IInv PROVE FailedIsDown
  <2>1. ASSUME NEW g \in Gens, NEW r \in Ranks, att[g][r] = "stopped" PROVE ~MayRun(g, r)
    BY <2>1 DEF MayRun, L!Live
  <2>2. ASSUME journal.status = "failed", ~journal.cleanErr, NEW r \in Ranks
        PROVE  ~MayRun("new", r)
    BY <1>1, <2>2, MayRunIsSaved DEF IInv, GivenUp
  <2>3. ASSUME pc = "close", report.recErr, ~report.cleanErr, NEW r \in Ranks
        PROVE  ~MayRun("rec", r)
    BY <1>1, <2>1, <2>3, MayRunIsSaved DEF IInv, GivenUp, Gens
  <2>4. QED
    BY <2>2, <2>3 DEF FailedIsDown
<1>2. QED
    BY <1>1, Inductive, PTL

\* What a saved conclusion says of the ranks.
LEMMA Settled == IInv => CompleteIsKept /\ RecoveredIsKept
<1> SUFFICES ASSUME IInv PROVE CompleteIsKept /\ RecoveredIsKept
    OBVIOUS
<1>1. CompleteIsKept
  <2>1. ASSUME journal.status = "complete"
        PROVE  /\ journal.new = Ranks /\ report.new # {}
               /\ \A r \in Ranks : ~Running(r) /\ ~Sent("start", "rec", r)
    <3>1. journal.new = Ranks /\ journal.new \subseteq report.new
      BY <2>1 DEF IInv, StatusTold, RowsAreSaved
    <3>2. 0 \in Ranks
      BY RanksAre, SwitchAssumption
    <3>3. report.new # {}
      BY <3>1, <3>2
    <3>4. journal.recovery = {}
      BY <2>1 DEF IInv, RecFresh, NoRecovery, RowsAreSaved
    <3>5. QED
      BY <3>1, <3>3, <3>4 DEF IInv, OldIsLeft, RowsAreSaved
  <2>2. QED
    BY <2>1, MayRunIsSaved DEF IInv, CompleteIsKept, InstalledIsComplete, Asked
<1>2. RecoveredIsKept
  <2>1. ASSUME journal.recovered
        PROVE  /\ report = journal
               /\ report.recovered /\ report.status = "failed" /\ report.recovery = Ranks
    BY <2>1 DEF IInv, StatusTold, RowsAreSaved
  <2>2. 0 \in Ranks
    BY RanksAre, SwitchAssumption
  <2>3. QED
    BY <2>1, <2>2, MayRunIsSaved DEF IInv, RecoveredIsKept, Asked, NewIsDown
<1>3. QED
    BY <1>1, <1>2

\* An unconfirmed launch is asked to stop only by a resume that found it degenerate.
LEMMA LeftAlone == IInv /\ [Next]_vars => UnconfirmedIsLeftAlone
<1> SUFFICES ASSUME IInv, Next, journal.status = "readiness-unconfirmed", calls' # calls
             PROVE  report.warmup = "degenerate"
    BY DEF UnconfirmedIsLeftAlone, vars
<1>1. \/ pc = "over"
      \/ resuming /\ pc \in {"check", "poll", "gate"}
      \/ report.warmup = "degenerate" /\ pc \in {"clean", "cleaning", "close"}
    BY DEF IInv, StatusTold, Unconfirmed
<1>2. pc \in {"stop", "reserve", "clean", "recover", "recClean"}
  <2>1. \/ StopOld \/ ReserveNew \/ Clean \/ Recover \/ RecClean
    BY AttemptsStay, RankDoes DEF IInv
  <2>2. QED
    BY <2>1 DEF StopOld, ReserveNew, Clean, Recover, RecClean
<1>3. QED
    BY <1>1, <1>2

\* What a journal concludes stays true of the ranks, whatever a later resume, a
\* request in flight or a lost answer brings.
THEOREM SettledKept == Spec => SettledIsKept
<1>1. IInv /\ [Next]_vars => [CompleteIsKept' /\ RecoveredIsKept' /\ UnconfirmedIsLeftAlone]_vars
  <2> SUFFICES ASSUME IInv, [Next]_vars
               PROVE  CompleteIsKept' /\ RecoveredIsKept' /\ UnconfirmedIsLeftAlone
    OBVIOUS
  <2>1. IInv'
    BY StepInv
  <2>2. CompleteIsKept' /\ RecoveredIsKept'
    BY <2>1, Settled, PTL
  <2>3. QED
    BY <2>2, LeftAlone
<1>2. QED
    BY <1>1, Inductive, PTL DEF Spec, SettledIsKept

-----------------------------------------------------------------------------
(* The switch implements Handover.                                         *)

\* What a journal concludes.
LEMMA VerdictIs ==
    IInv =>
       /\ journal.status = "complete" => Verdict = "complete"
       /\ journal.status \in Unconfirmed => Verdict = "unconfirmed"
       /\ journal.recovered => Verdict = "recovered"
       /\ journal.status \notin Unconfirmed \cup {"complete"} /\ ~journal.recovered
             => Verdict = "open"
<1> SUFFICES ASSUME IInv
             PROVE  /\ journal.status = "complete" => Verdict = "complete"
                    /\ journal.status \in Unconfirmed => Verdict = "unconfirmed"
                    /\ journal.recovered => Verdict = "recovered"
                    /\ journal.status \notin Unconfirmed \cup {"complete"} /\ ~journal.recovered
                          => Verdict = "open"
    OBVIOUS
<1>1. journal.recovered => journal.status = "failed"
    BY DEF IInv, StatusTold, RowsAreSaved
<1>2. QED
    BY <1>1 DEF Verdict, Unconfirmed

\* The same attempts may run, and the same launches were begun.
SameRun == \A g \in Gens, r \in Ranks : MayRun(g, r)' <=> MayRun(g, r)
\* The step begins no launch.
SameBegun == \A g \in Gens, r \in Ranks : Sent("start", g, r)' <=> Sent("start", g, r)

\* One more attempt may run, of a launch that was begun by that.
Begins(h, s) ==
    \A g \in Gens, r \in Ranks :
       /\ MayRun(g, r)' <=> MayRun(g, r) \/ (g = h /\ r = s)
       /\ Sent("start", g, r)' <=> Sent("start", g, r) \/ (g = h /\ r = s)

\* At most attempts of launch g cease to run.
Ceases(g) ==
    \A h \in Gens, r \in Ranks : /\ MayRun(h, r)' => MayRun(h, r)
                                 /\ h # g /\ MayRun(h, r) => MayRun(h, r)'

\* Ranks only bring to an end what may run.
LEMMA RankCeases ==
    ASSUME IInv, RankStep
    PROVE  SameBegun /\ UNCHANGED journal /\ \E g \in Gens : Ceases(g)
<1>1. UNCHANGED <<calls, journal>>
    BY RankDoes DEF IInv
<1>2. PICK g \in Gens, r \in Ranks :
         \/ /\ Sent("start", g, r) /\ att[g][r] = "reserved"
            /\ Becomes(g, r, "launching")
         \/ att[g][r] \in L!CanStop /\ Becomes(g, r, "stopped")
         \/ att[g][r] = "launching" /\ Becomes(g, r, "up")
         \/ att[g][r] \in {"reserved", "launching", "up"} /\ Becomes(g, r, "ended")
    BY RankDoes DEF IInv
<1>3. ASSUME NEW h \in Gens, NEW s \in Ranks
      PROVE  /\ MayRun(h, s)' => MayRun(h, s)
             /\ h # g /\ MayRun(h, s) => MayRun(h, s)'
  <2>1. CASE h = g /\ s = r
      BY <1>1, <1>2, <2>1 DEF MayRun, Sent, Becomes, L!Live
  <2>2. CASE ~(h = g /\ s = r)
    <3>1. att'[h][s] = att[h][s]
      BY <1>2, <2>2 DEF Becomes
    <3>2. QED
      BY <1>1, <2>2, <3>1 DEF MayRun, Sent
  <2>3. QED
    BY <2>1, <2>2
<1>4. Ceases(g)
    BY <1>3 DEF Ceases
<1>5. QED
    BY <1>1, <1>4 DEF SameBegun, Sent

\* The new launch is begun only while the record is open.
LEMMA ReserveBegins ==
    ASSUME IInv, ReserveNew
    PROVE  \/ SameRun /\ SameBegun
           \/ k \in Ranks /\ Begins("new", k) /\ journal.status = "starting"
              /\ journal'.status = "starting" /\ ~journal'.recovered
<1>1. TypeOK /\ RankInRange
    BY DEF IInv
<1>2. pc = "reserve" /\ att["new"][k] = "absent" /\ k \in Ranks /\ ~Sent("start", "new", k)
    BY <1>1, ReserveNewDoes, RanksAre DEF IInv, NewFresh, RowsAreSaved
<1>3. CASE Becomes("new", k, "reserved") /\ Asks("start", "new", k) /\ Saves
           /\ Rewrites({"new"})
  <2>1. ASSUME NEW g \in Gens, NEW r \in Ranks
        PROVE  /\ MayRun(g, r)' <=> MayRun(g, r) \/ (g = "new" /\ r = k)
               /\ Sent("start", g, r)' <=> Sent("start", g, r) \/ (g = "new" /\ r = k)
      BY <1>2, <1>3 DEF MayRun, Becomes, Asks, L!Live
  <2>2. /\ journal.status = "starting" /\ report.status = "starting"
        /\ ~report.recovered
      BY <1>2 DEF IInv, StatusTold
  <2>3. QED
      BY <1>2, <1>3, <2>1, <2>2 DEF Begins, Saves, Rewrites, Fields
<1>4. CASE UNCHANGED calls /\ (UNCHANGED att \/ Becomes("new", k, "reserved"))
  <2>1. SameBegun
      BY <1>4 DEF SameBegun, Sent
  <2>2. ASSUME NEW g \in Gens, NEW r \in Ranks PROVE MayRun(g, r)' <=> MayRun(g, r)
      BY <1>2, <1>4 DEF MayRun, Becomes, L!Live, Sent
  <2>3. QED
      BY <2>1, <2>2 DEF SameRun
<1>5. QED
    BY <1>1, <1>3, <1>4, ReserveNewDoes

\* The recovery is begun only while the record is open.
LEMMA RecoverBegins ==
    ASSUME IInv, Recover
    PROVE  \/ SameRun /\ SameBegun
           \/ k \in Ranks /\ Begins("rec", k) /\ pc = "recover"
              /\ journal'.status = "failed" /\ ~journal'.recovered
<1>1. TypeOK /\ pc = "recover"
    BY DEF IInv, Recover
<1>2. k \in Ranks => att["rec"][k] = "absent" /\ ~Sent("start", "rec", k)
    BY <1>1, RanksAre DEF IInv, RecFresh, RowsAreSaved
<1>3. CASE Becomes("rec", k, "reserved") /\ Asks("start", "rec", k) /\ Saves
           /\ Rewrites({"recovery"}) /\ k \in Ranks
  <2>1. ASSUME NEW g \in Gens, NEW r \in Ranks
        PROVE  /\ MayRun(g, r)' <=> MayRun(g, r) \/ (g = "rec" /\ r = k)
               /\ Sent("start", g, r)' <=> Sent("start", g, r) \/ (g = "rec" /\ r = k)
      BY <1>2, <1>3 DEF MayRun, Becomes, Asks, L!Live
  <2>2. report.status = "failed" /\ ~report.recovered
      BY <1>1 DEF IInv, StatusTold, Failing
  <2>3. QED
      BY <1>1, <1>3, <2>1, <2>2 DEF Begins, Saves, Rewrites, Fields
<1>4. CASE UNCHANGED calls /\ (UNCHANGED att \/ (Becomes("rec", k, "reserved") /\ k \in Ranks))
  <2>1. SameBegun
      BY <1>4 DEF SameBegun, Sent
  <2>2. ASSUME NEW g \in Gens, NEW r \in Ranks PROVE MayRun(g, r)' <=> MayRun(g, r)
      BY <1>2, <1>4 DEF MayRun, Becomes, L!Live, Sent
  <2>3. QED
      BY <2>1, <2>2 DEF SameRun
<1>5. QED
    BY <1>1, <1>3, <1>4, RecoverDoes

\* Nothing else begins a launch, or brings one to an end.
LEMMA OthersStay ==
    ASSUME IInv, Next, ~ReserveNew, ~Recover, ~RankStep
    PROVE  SameRun /\ SameBegun
<1>1. CASE UNCHANGED <<att, calls>>
    BY <1>1 DEF SameRun, SameBegun, MayRun, Sent
<1>2. CASE StopOld \/ Clean \/ RecClean
  <2>1. UNCHANGED att
      BY <1>2 DEF StopOld, Clean, RecClean
  <2>2. SameBegun
    <3>1. \/ UNCHANGED calls \/ Asks("stop", "old", k) \/ Asks("stop", "new", k)
          \/ Asks("stop", "rec", k)
      BY <1>2, StopOldDoes, CleanDoes, RecCleanDoes DEF IInv, FailsWith
    <3>2. QED
      BY <3>1 DEF SameBegun, Asks, Sent
  <2>3. QED
      BY <2>1, <2>2 DEF SameRun, SameBegun, MayRun
<1>3. QED
    BY <1>1, <1>2, AttemptsStay

\* The record's conclusion about the launch begun last.
Concludes ==
    \/ Verdict \in {"open", "unconfirmed"} /\ Verdict' = "complete"
       /\ Begun("new") /\ ~Begun("rec")
    \/ Verdict \in {"open", "unconfirmed"} /\ Verdict' = "recovered" /\ Begun("rec")
    \/ Verdict = "open" /\ Verdict' = "unconfirmed" /\ (Begun("new") \/ Begun("rec"))
    \/ Verdict = "unconfirmed" /\ Verdict' = "open"

\* A save keeps the conclusion, or draws one about the launch begun last.
LEMMA VerdictStep ==
    ASSUME IInv, Next PROVE Verdict' = Verdict \/ Concludes
<1>1. TypeOK
    BY DEF IInv
<1>2. /\ (journal.status = "complete" => Verdict = "complete")'
      /\ (journal.status \in Unconfirmed => Verdict = "unconfirmed")'
      /\ (journal.recovered => Verdict = "recovered")'
      /\ (journal.status \notin Unconfirmed \cup {"complete"} /\ ~journal.recovered
             => Verdict = "open")'
    BY StepInv, VerdictIs, PTL
<1>3. CASE UNCHANGED journal
    BY <1>3 DEF Verdict
<1>4. CASE pc \in {"relook", "stop", "stopping", "reserve", "recover"}
  <2>1. journal.status \notin Unconfirmed \cup {"complete"} /\ ~journal.recovered
      BY <1>4 DEF IInv, StatusTold, Unconfirmed
  <2>2. ~report.recovered /\ ~journal.recovered
      BY <1>4 DEF IInv, StatusTold
  <2>3. CASE Relook
      BY <1>2, <1>1, <1>3, <2>1, <2>2, <2>3, RelookDoes, VerdictIs
      DEF Saves, Loses, Rewrites, Fields, Unconfirmed
  <2>4. CASE StopOld \/ StopOldAnswer
    <3>1. report.status = "starting"
      BY <1>4, <2>4, <1>1, StopOldDoes, StopOldAnswerDoes DEF IInv, StatusTold
    <3>2. journal' = journal \/ (journal'.status = "starting" /\ ~journal'.recovered)
      BY <1>1, <2>2, <2>4, <3>1, StopOldDoes, StopOldAnswerDoes
      DEF Saves, Holds, FailsWith, Rewrites, Fields
    <3>3. QED
      BY <1>2, <1>3, <2>1, <3>2, VerdictIs DEF Unconfirmed
  <2>5. CASE ReserveNew \/ Recover
    <3>1. report.status \in {"starting", "failed"}
      BY <1>1, <1>4, <2>5, ReserveNewDoes, RecoverDoes DEF IInv, StatusTold, Failing
    <3>2. journal' = journal \/ (journal'.status \in {"starting", "failed"} /\ ~journal'.recovered)
      BY <1>1, <2>2, <2>5, <3>1, ReserveNewDoes, RecoverDoes
      DEF IInv, Saves, Holds, FailsWith, Rewrites, Fields
    <3>3. QED
      BY <1>2, <1>3, <2>1, <3>2, VerdictIs DEF Unconfirmed
  <2>6. QED
    BY <1>3, <1>4, <2>3, <2>4, <2>5
    DEF Next, Coordinate, Look, Prepare, StartNewAnswer, Poll, PollAgain, PollReady,
        PollFails, PollLost, GatePasses, GateDegenerate, Install, Clean, CleanAnswer,
        Judge, RestartAnswer, Recovering, RecClean, RecCleanAnswer, Close, ResumeCheck,
        Resume, Interrupt, End, ServeStart, ServeStop, Evolve
<1>5. CASE PollLost /\ journal' # journal
  <2>1. /\ pc = "poll" /\ ~resuming /\ journal'.status = UnconfirmedStatus
      BY <1>1, <1>5, PollLostDoes DEF Saves, Loses
  <2>2. journal.status \notin Unconfirmed \cup {"complete"} /\ ~journal.recovered
      BY <2>1 DEF IInv, StatusTold, Unconfirmed
  <2>3. Begun("new") \/ Begun("rec")
      BY <1>1, <2>1 DEF IInv, IsBegun, Awaits, TypeOK
  <2>4. Verdict = "open" /\ Verdict' = "unconfirmed"
      BY <1>2, <2>1, <2>2, VerdictIs DEF UnconfirmedStatus, Unconfirmed
  <2>5. QED
      BY <2>3, <2>4 DEF Concludes
<1>6. CASE GatePasses /\ journal' # journal
  <2>1. pc = "gate" /\ gen = "new" /\ journal'.status = "complete"
      BY <1>1, <1>6, GatePassesDoes DEF Saves, Loses, Holds, FailsWith, IInv, Control
  <2>2. Verdict \in {"open", "unconfirmed"}
    <3>1. journal.status # "complete" /\ ~journal.recovered
      BY <2>1 DEF IInv, StatusTold
    <3>2. QED
      BY <3>1, VerdictIs
  <2>3. Begun("new") /\ ~Begun("rec")
      BY <2>1 DEF IInv, IsBegun, Awaits, RecFresh, NoRecovery, RowsAreSaved, Begun
  <2>4. QED
      BY <1>2, <2>1, <2>2, <2>3 DEF Concludes
<1>7. CASE Install
  <2>1. journal.status = "complete" /\ journal'.status = "complete"
      BY <1>1, <1>7, InstallDoes, CompleteStays DEF IInv, StatusTold
  <2>2. QED
      BY <1>2, <2>1, VerdictIs
<1>8. CASE Close /\ journal' # journal
  <2>1. pc = "close" /\ journal' = report /\ report.status = "failed"
      BY <1>8 DEF Close, EndWith, Write, Forget, IInv, StatusTold, Failing
  <2>2. Verdict \in {"open", "unconfirmed"}
    <3>1. journal.status # "complete" /\ ~journal.recovered
      BY <2>1 DEF IInv, StatusTold
    <3>2. QED
      BY <3>1, VerdictIs
  <2>3. report.recovered => Begun("rec")
      BY DEF IInv, IsBegun
  <2>4. QED
      BY <1>2, <2>1, <2>2, <2>3 DEF Concludes, Unconfirmed
<1>9. QED
    BY <1>3, <1>4, <1>5, <1>6, <1>7, <1>8
    DEF Next, Coordinate, Look, Prepare, Relook, StopOld, StopOldAnswer, ReserveNew,
        StartNewAnswer, Poll, PollAgain, PollReady, PollFails, GateDegenerate, Clean,
        CleanAnswer, Judge, Recover, RestartAnswer, Recovering, RecClean, RecCleanAnswer,
        ResumeCheck, Resume, Interrupt, End, Fail, ServeStart, ServeStop, Evolve

\* Seen through what may run, what was begun last and what the record concludes,
\* the whole switch, with its lost and late requests, interruptions and failed
\* saves, takes only the steps of a Handover: the new launch begins when the old
\* one is down on every rank, the recovery when the new one is.
THEOREM ImplementsHandover == Spec => HandsOver
<1>1. Init => H!Init
  <2> SUFFICES ASSUME Init PROVE H!Init
      OBVIOUS
  <2>1. \A g \in Gens : ~Begun(g)
      BY DEF Init, Begun, Sent
  <2>2. \A g \in {"new", "rec"}, r \in Ranks : ~MayRun(g, r)
      BY DEF Init, MayRun, Sent, L!Live, Gens
  <2>3. MayRunSomewhere \subseteq {"old"}
      BY <2>2 DEF MayRunSomewhere, Gens
  <2>4. Era = "old"
      BY <2>1 DEF Era, Gens
  <2>5. Verdict = "open"
      BY VerdictIs, InitInv DEF Init, FirstReport, Unconfirmed
  <2>6. QED
      BY <2>3, <2>4, <2>5 DEF H!Init
<1>2. IInv /\ [Next]_vars => [H!Next]_<<MayRunSomewhere, Era, Verdict>>
  <2> SUFFICES ASSUME IInv, [Next]_vars
               PROVE  H!Next \/ UNCHANGED <<MayRunSomewhere, Era, Verdict>>
      OBVIOUS
  <2>1. CASE UNCHANGED vars
      BY <2>1 DEF vars, MayRunSomewhere, Era, Verdict, Begun, MayRun, Sent
  <2>2. CASE Next /\ SameRun /\ SameBegun
    <3>1. UNCHANGED <<MayRunSomewhere, Era>>
      BY <2>2 DEF SameRun, SameBegun, MayRunSomewhere, Era, Begun, Gens
    <3>2. Verdict' = Verdict \/ Concludes
      BY <2>2, VerdictStep
    <3>3. Concludes => H!Conclude
      BY <3>1 DEF Concludes, H!Conclude, Era
    <3>4. QED
      BY <3>1, <3>2, <3>3 DEF H!Next
  <2>3. CASE ReserveNew /\ k \in Ranks /\ Begins("new", k) /\ journal.status = "starting"
             /\ journal'.status = "starting" /\ ~journal'.recovered
    <3>1. pc = "reserve"
      BY <2>3 DEF ReserveNew
    <3>2. Verdict = "open" /\ Verdict' = "open"
      <4>1. ~journal.recovered
        BY <3>1 DEF IInv, StatusTold
      <4>2. Verdict = "open"
        BY <2>3, <4>1, VerdictIs DEF Unconfirmed
      <4>3. (IInv => (journal.status \notin Unconfirmed \cup {"complete"} /\ ~journal.recovered
                         => Verdict = "open"))'
        BY VerdictIs, PTL
      <4>4. QED
        BY <2>3, <4>2, <4>3, StepInv DEF Unconfirmed, Next, Coordinate
    <3>3. \A r \in Ranks : ~MayRun("old", r) /\ ~MayRun("rec", r) /\ ~Sent("start", "rec", r)
      BY <3>1, MayRunIsSaved DEF IInv, OldIsLeft, RecFresh, NoRecovery, RowsAreSaved
    <3>4. MayRunSomewhere \subseteq {"new"} /\ MayRunSomewhere' = {"new"}
      BY <2>3, <3>3 DEF MayRunSomewhere, Begins, Gens
    <3>5. Era \in {"old", "new"} /\ Era' = "new"
      BY <2>3, <3>3 DEF Era, Begun, Begins, Gens
    <3>6. QED
      BY <3>2, <3>4, <3>5 DEF H!Next, H!BeginNew
  <2>4. CASE Recover /\ k \in Ranks /\ Begins("rec", k) /\ pc = "recover"
             /\ journal'.status = "failed" /\ ~journal'.recovered
    <3>1. Verdict = "open" /\ Verdict' = "open"
      <4>1. ~journal.recovered /\ journal.status \notin Unconfirmed \cup {"complete"}
        BY <2>4 DEF IInv, StatusTold, Unconfirmed
      <4>2. Verdict = "open"
        BY <4>1, VerdictIs
      <4>3. (IInv => (journal.status \notin Unconfirmed \cup {"complete"} /\ ~journal.recovered
                         => Verdict = "open"))'
        BY VerdictIs, PTL
      <4>4. QED
        BY <2>4, <4>2, <4>3, StepInv DEF Unconfirmed, Next, Coordinate
    <3>2. \A r \in Ranks : ~MayRun("new", r)
      BY <2>4, MayRunIsSaved DEF IInv, NewIsDown
    <3>3. "new" \notin MayRunSomewhere
          /\ MayRunSomewhere' = MayRunSomewhere \cup {"rec"}
      BY <2>4, <3>2 DEF MayRunSomewhere, Begins, Gens
    <3>4. Era' = "rec"
      BY <2>4 DEF Era, Begun, Begins, Gens
    <3>5. QED
      BY <3>1, <3>3, <3>4 DEF H!Next, H!BeginRecovery
  <2>5. CASE RankStep
    <3>1. SameBegun /\ UNCHANGED journal
      BY <2>5, RankCeases
    <3>2. UNCHANGED <<Era, Verdict>>
      BY <3>1 DEF Era, Begun, Verdict, SameBegun, Gens
    <3>3. PICK g \in Gens : Ceases(g)
      BY <2>5, RankCeases
    <3>4. MayRunSomewhere' = MayRunSomewhere
          \/ (g \in MayRunSomewhere /\ MayRunSomewhere' = MayRunSomewhere \ {g})
      BY <3>3 DEF MayRunSomewhere, Ceases
    <3>5. QED
      BY <3>2, <3>4 DEF H!Next, H!Leave
  <2>6. QED
    BY <2>1, <2>2, <2>3, <2>4, <2>5, ReserveBegins, RecoverBegins, OthersStay
    DEF Next, Coordinate
<1>3. QED
    BY <1>1, <1>2, Inductive, PTL DEF Spec, HandsOver, H!Spec, H!vars
====
