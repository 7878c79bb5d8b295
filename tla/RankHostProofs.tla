--------------------------- MODULE RankHostProofs ---------------------------
(***************************************************************************)
(* The rank's stop and start requests are safe for any number of attempts, *)
(* any number of deliveries of each request and any interleaving.          *)
(***************************************************************************)
EXTENDS RankHost, TLAPS

\* The invariant holds before the first request.
LEMMA InitInv == Init => IInv
  BY RankAssumption
  DEF Init, IInv, TypeOK, LogOwner, JobFileOwner, CancelFirst, FoundInJobFile,
      OldIsUp, NoLateLaunch, StopIsFinal, Old, StartPhases, StopPhases,
      JobPhases, Launching

\* Steps.
LEMMA StepInv == IInv /\ [Next]_vars => IInv'
<1> SUFFICES ASSUME IInv, [Next]_vars PROVE IInv'
  OBVIOUS
<1> USE RankAssumption
    DEF IInv, TypeOK, LogOwner, JobFileOwner, CancelFirst, FoundInJobFile,
        OldIsUp, NoLateLaunch, StopIsFinal, Old, StartPhases, StopPhases,
        JobPhases, Launching, Handling, Goto, files
<1>1. ASSUME NEW c \in StartCalls, SendStart(c) PROVE IInv'
  BY <1>1 DEF SendStart
<1>2. ASSUME NEW c \in StartCalls, StartCheck(c) PROVE IInv'
  BY <1>2 DEF StartCheck
<1>3. ASSUME NEW c \in StartCalls, StartReplay(c) PROVE IInv'
  BY <1>3 DEF StartReplay
<1>4. ASSUME NEW c \in StartCalls, StartOpen(c) PROVE IInv'
  BY <1>4 DEF StartOpen
<1>5. ASSUME NEW c \in StartCalls, StartSpawn(c) PROVE IInv'
  BY <1>5 DEF StartSpawn
<1>6. ASSUME NEW c \in StartCalls, StartDie(c) PROVE IInv'
  BY <1>6 DEF StartDie
<1>7. ASSUME NEW c \in StartCalls, JobAnnounce(c) PROVE IInv'
  BY <1>7 DEF JobAnnounce
<1>8. ASSUME NEW c \in StartCalls, JobCheckCancel(c) PROVE IInv'
  BY <1>8 DEF JobCheckCancel
<1>9. ASSUME NEW c \in StartCalls, JobHandleSignals(c) PROVE IInv'
  BY <1>9 DEF JobHandleSignals
<1>10. ASSUME NEW c \in StartCalls, JobPreflight(c) PROVE IInv'
  BY <1>10 DEF JobPreflight
<1>11. ASSUME NEW c \in StartCalls, JobGuard(c) PROVE IInv'
  BY <1>11 DEF JobGuard
<1>12. ASSUME NEW c \in StartCalls, DockerCreate(c) PROVE IInv'
  BY <1>12 DEF DockerCreate
<1>13. ASSUME NEW c \in StartCalls, DockerStart(c) PROVE IInv'
  BY <1>13 DEF DockerStart
<1>14. ASSUME NEW c \in StartCalls, DockerReturn(c) PROVE IInv'
  BY <1>14 DEF DockerReturn
<1>15. ASSUME NEW c \in StartCalls, JobRecord(c) PROVE IInv'
  BY <1>15 DEF JobRecord
<1>16. ASSUME NEW c \in StartCalls, JobHalt(c) PROVE IInv'
  BY <1>16 DEF JobHalt, Halted
<1>17. ASSUME NEW c \in StartCalls, JobSeesExit(c) PROVE IInv'
  BY <1>17 DEF JobSeesExit
<1>18. ASSUME NEW c \in StartCalls, JobFinish(c) PROVE IInv'
  BY <1>18 DEF JobFinish
<1>19. ASSUME NEW c \in StartCalls, JobInterrupt(c) PROVE IInv'
  BY <1>19 DEF JobInterrupt, Interrupted
<1>20. ASSUME NEW c \in StartCalls, JobTrip(c) PROVE IInv'
  BY <1>20 DEF JobTrip
<1>21. ASSUME NEW c \in StartCalls, JobKill(c) PROVE IInv'
  BY <1>21 DEF JobKill
<1>22. ASSUME NEW d \in StopCalls, SendStop(d) PROVE IInv'
  BY <1>22 DEF SendStop
<1>23. ASSUME NEW d \in StopCalls, StopCancel(d) PROVE IInv'
  BY <1>23 DEF StopCancel
<1>24. ASSUME NEW d \in StopCalls, StopFindJob(d) PROVE IInv'
  BY <1>24 DEF StopFindJob
<1>25. ASSUME NEW d \in StopCalls, StopSignal(d) PROVE IInv'
  BY <1>25 DEF StopSignal
<1>26. ASSUME NEW d \in StopCalls, StopJobGone(d) PROVE IInv'
  BY <1>26 DEF StopJobGone
<1>27. ASSUME NEW d \in StopCalls, StopTimeout(d) PROVE IInv'
  BY <1>27 DEF StopTimeout
<1>28. ASSUME NEW d \in StopCalls, StopInspect(d) PROVE IInv'
  BY <1>28 DEF StopInspect
<1>29. ASSUME NEW d \in StopCalls, StopHalt(d) PROVE IInv'
  BY <1>29 DEF StopHalt, Halted
<1>30. ASSUME NEW d \in StopCalls, StopDie(d) PROVE IInv'
  BY <1>30 DEF StopDie
<1>31. ASSUME NEW a \in Attempts, ContainerExit(a) PROVE IInv'
  BY <1>31 DEF ContainerExit
<1>32. CASE UNCHANGED vars
  BY <1>32 DEF vars
<1>33. QED
  BY <1>1, <1>2, <1>3, <1>4, <1>5, <1>6, <1>7, <1>8, <1>9, <1>10, <1>11,
     <1>12, <1>13, <1>14, <1>15, <1>16, <1>17, <1>18, <1>19, <1>20, <1>21,
     <1>22, <1>23, <1>24, <1>25, <1>26, <1>27, <1>28, <1>29, <1>30, <1>31,
     <1>32
     DEF Next, StartStep, JobStep, StopStep

\* IInv holds in every behaviour.
THEOREM Inductive == Spec => []IInv
  BY InitInv, StepInv, PTL DEF Spec

\* Every state is of the type TypeOK states: the requests, the supervisors,
\* the record's files and the container of act_rpc, act_job and start_rank.
THEOREM TypeCorrect == Spec => []TypeOK
<1>1. IInv => TypeOK
  BY DEF IInv
<1>2. QED
  BY <1>1, Inductive, PTL

\* A stop that rpc("stop") answered is final: however many requests are still
\* in flight, the attempt's container never runs again.
THEOREM StopFinal == Spec => []StopIsFinal
<1>1. IInv => StopIsFinal
  BY DEF IInv
<1>2. QED
  BY <1>1, Inductive, PTL

\* When rpc("stop") reads Docker, no supervisor of the attempt can still
\* create a container.
THEOREM NoLate == Spec => []NoLateLaunch
<1>1. IInv => NoLateLaunch
  BY DEF IInv
<1>2. QED
  BY <1>1, Inductive, PTL

\* Of all deliveries of an attempt's start request, rpc("start") lets one spawn
\* a supervisor: the one that created supervisor.log.
THEOREM OneSup == Spec => []OneSupervisor
<1>1. IInv => OneSupervisor
  <2> SUFFICES ASSUME IInv,
                      NEW c1 \in StartCalls, NEW c2 \in StartCalls,
                      Target[c1] = Target[c2],
                      job[c1] # "none", job[c2] # "none"
               PROVE  c1 = c2
    BY DEF OneSupervisor
  <2>1. log[Target[c1]] = c1 /\ log[Target[c2]] = c2
    BY DEF IInv, LogOwner
  <2>2. QED
    BY <2>1
<1>2. QED
  BY <1>1, Inductive, PTL

-----------------------------------------------------------------------------
(* Requests in the coordinator's order: one launch at a time.                  *)

\* An attempt that will not run again: a stop of it was confirmed, or it is the
\* old launch, found not running.
Over(a) ==
    \/ \E d \in StopCalls : Target[d] = a /\ stop[d] = "ok"
    \/ a = Old /\ container[a] = "exited"

\* A start request for a has left the coordinator.
Sent(a) == \E c \in StartCalls : Target[c] = a /\ start[c] # "unsent"

\* Of two attempts that were both asked to start, one is over.
OthersOver ==
    \A a, b \in Attempts : a # b /\ Sent(a) /\ Sent(b) => Over(a) \/ Over(b)

\* A container is there only for an attempt that was asked to start.
Requested == \A a \in Attempts : container[a] # "absent" => Sent(a)

\* Once a stop reads Docker, the supervisor of its attempt has exited or has
\* cancel.json still to look at.
Withdrawn ==
    \A d \in StopCalls, c \in StartCalls :
        Target[d] = Target[c] /\ Target[d] # Old /\ stop[d] \in {"inspect", "halt", "ok"}
            => job[c] \in {"none", "spawned", "announced", "exited"}

\* What the coordinator's order of requests adds to IInv.
IDisc == OthersOver /\ Requested /\ Withdrawn /\ StateNamesSupervised

\* It holds before the first request.
LEMMA InitDisc == Init => IDisc
  BY RankAssumption DEF Init, IDisc, OthersOver, Requested, Withdrawn, StateNamesSupervised, Old,
     Over, Sent

\* What no step undoes, and which step begins it.
LEMMA Stays ==
  ASSUME IInv, [Next]_vars
  PROVE /\ \A d \in StopCalls : stop[d] = "ok" => stop'[d] = "ok"
        /\ \A a \in Attempts : container[a] = "exited" => container'[a] = "exited"
        /\ \A c \in StartCalls : start[c] # "unsent" => start'[c] # "unsent"
        /\ \A c \in StartCalls : start[c] = "unsent" /\ start'[c] # "unsent" => SendStart(c)
        /\ \A a \in Attempts :
             container[a] = "absent" /\ container'[a] # "absent" =>
                \E c \in StartCalls : Target[c] = a /\ start[c] = "started"
<1> USE RankAssumption DEF IInv, TypeOK, LogOwner, Goto, files
<1>1. ASSUME NEW c \in StartCalls, StartStep(c)
      PROVE  /\ stop' = stop /\ container' = container
             /\ \A b \in StartCalls : start[b] # "unsent" => start'[b] # "unsent"
             /\ \A b \in StartCalls : start[b] = "unsent" /\ start'[b] # "unsent" => SendStart(b)
  BY <1>1 DEF StartStep, SendStart, StartCheck, StartReplay, StartOpen, StartSpawn, StartDie
<1>2. ASSUME NEW c \in StartCalls, JobStep(c) \/ JobTrip(c) \/ JobKill(c)
      PROVE  /\ stop' = stop /\ start' = start
             /\ \A a \in Attempts : container[a] = "exited" => container'[a] = "exited"
             /\ \A a \in Attempts : container[a] = "absent" /\ container'[a] # "absent" =>
                  Target[c] = a /\ start[c] = "started"
  BY <1>2 DEF JobStep, JobTrip, JobKill, JobAnnounce, JobCheckCancel, JobHandleSignals,
     JobPreflight, JobGuard, DockerCreate, DockerStart, DockerReturn, JobRecord, JobHalt, Halted,
     JobSeesExit, JobFinish, JobInterrupt
<1>3. ASSUME NEW d \in StopCalls, SendStop(d) \/ StopStep(d) \/ StopTimeout(d) \/ StopDie(d)
      PROVE  /\ start' = start
             /\ \A e \in StopCalls : stop[e] = "ok" => stop'[e] = "ok"
             /\ \A a \in Attempts : container[a] \in {"absent", "exited"} => container'[a] = container[a]
  BY <1>3 DEF SendStop, StopStep, StopTimeout, StopDie, StopCancel, StopFindJob, StopSignal,
     StopJobGone, StopInspect, StopHalt, Halted
<1>4. ASSUME NEW a \in Attempts, ContainerExit(a)
      PROVE  /\ start' = start /\ stop' = stop
             /\ \A b \in Attempts : container[b] \in {"absent", "exited"} => container'[b] = container[b]
  BY <1>4 DEF ContainerExit
<1>5. CASE UNCHANGED vars
  BY <1>5 DEF vars
<1>6. QED
  BY <1>1, <1>2, <1>3, <1>4, <1>5 DEF Next

\* An attempt that is over stays over.
LEMMA OverStays == ASSUME IInv, [Next]_vars, NEW a \in Attempts, Over(a) PROVE Over(a)'
  BY Stays DEF Over

\* And its container does not run.
LEMMA OverIsDown == ASSUME IInv, NEW a \in Attempts, Over(a) PROVE container[a] # "running"
  BY DEF Over, IInv, StopIsFinal

\* A start is sent only when every other attempt is quiet.
LEMMA OthersOverStep ==
  ASSUME Disciplined, IInv, OthersOver, [Next]_vars PROVE OthersOver'
<1> SUFFICES ASSUME NEW a \in Attempts, NEW b \in Attempts, a # b, Sent(a)', Sent(b)'
             PROVE Over(a)' \/ Over(b)'
  BY DEF OthersOver
<1>1. ASSUME NEW g \in Attempts, Sent(g)', ~Sent(g)
      PROVE \A h \in Attempts \ {g} : Sent(h)' => Over(h)
  <2>1. PICK c \in StartCalls : Target[c] = g /\ SendStart(c)
    BY <1>1, Stays DEF Sent
  <2>2. ASSUME NEW h \in Attempts \ {g}, Sent(h)' PROVE Over(h)
    <3>1. Quiet(h)
      BY <2>1 DEF SendStart
    <3>2. Sent(h)
      BY <2>1, <2>2 DEF SendStart, Goto, Sent, IInv, TypeOK
    <3>3. QED
      BY <3>1, <3>2 DEF Quiet, Sent, Over
  <2>3. QED
    BY <2>2
<1>2. CASE Sent(a) /\ Sent(b)
  BY <1>2, OverStays DEF OthersOver
<1>3. CASE ~Sent(a)
  BY <1>1, <1>3, OverStays
<1>4. CASE ~Sent(b)
  BY <1>1, <1>4, OverStays
<1>5. QED
  BY <1>2, <1>3, <1>4

\* Only a supervisor creates a container, and only a request spawns one.
LEMMA RequestedStep ==
  ASSUME IInv, Requested, [Next]_vars PROVE Requested'
<1> SUFFICES ASSUME NEW a \in Attempts, container'[a] # "absent" PROVE Sent(a)'
  BY DEF Requested
<1>1. Sent(a)
  BY Stays DEF Requested, Sent
<1>2. QED
  BY <1>1, Stays DEF Sent

\* A stop waits for the supervisor it finds, and one it does not find will
\* find cancel.json.
LEMMA WithdrawnStep ==
  ASSUME IInv, Withdrawn, [Next]_vars PROVE Withdrawn'
<1> USE RankAssumption DEF IInv, TypeOK, LogOwner, JobFileOwner, CancelFirst, Withdrawn, Goto,
    files, Old
<1>1. ASSUME NEW c \in StartCalls, StartStep(c) PROVE Withdrawn'
  BY <1>1 DEF StartStep, SendStart, StartCheck, StartReplay, StartOpen, StartSpawn, StartDie
<1>2. ASSUME NEW c \in StartCalls, JobStep(c) \/ JobTrip(c) \/ JobKill(c) PROVE Withdrawn'
  BY <1>2, SMTT(60) DEF JobStep, JobTrip, JobKill, JobAnnounce, JobCheckCancel, JobHandleSignals,
     JobPreflight, JobGuard, DockerCreate, DockerStart, DockerReturn, JobRecord, JobHalt, Halted,
     JobSeesExit, JobFinish, JobInterrupt, Interrupted, Handling, StopPhases
<1>3. ASSUME NEW d \in StopCalls, SendStop(d) \/ StopStep(d) \/ StopTimeout(d) \/ StopDie(d)
      PROVE Withdrawn'
  BY <1>3, SMTT(60) DEF SendStop, StopStep, StopTimeout, StopDie, StopCancel, StopFindJob, StopSignal,
     StopJobGone, StopInspect, StopHalt, Halted, FoundInJobFile, JobPhases
<1>4. ASSUME NEW a \in Attempts, ContainerExit(a) PROVE Withdrawn'
  BY <1>4 DEF ContainerExit
<1>5. CASE UNCHANGED vars
  BY <1>5 DEF vars
<1>6. QED
  BY <1>1, <1>2, <1>3, <1>4, <1>5 DEF Next

\* Of two attempts that run, one would be over.
LEMMA OneRuns == IInv /\ OthersOver /\ Requested => OneContainer
<1> SUFFICES ASSUME IInv, OthersOver, Requested, NEW a \in Attempts, NEW b \in Attempts,
                    container[a] = "running", container[b] = "running"
             PROVE a = b
  BY DEF OneContainer
<1>1. Sent(a) /\ Sent(b)
  BY DEF Requested
<1>2. QED
  BY <1>1, OverIsDown DEF OthersOver

\* A supervisor that writes the state file is not over, so no other one
\* supervises a running container.
LEMMA StateStep ==
  ASSUME IInv, IDisc, [Next]_vars PROVE StateNamesSupervised'
<1> USE RankAssumption DEF IInv, IDisc, TypeOK, StateNamesSupervised, Goto, files, JobPhases
<1>0. \A c1, c2 \in StartCalls : Target[c1] = Target[c2] /\ job[c1] # "none" /\ job[c2] # "none"
         => c1 = c2
  BY DEF LogOwner
<1>1. ASSUME NEW c \in StartCalls, StartStep(c) PROVE StateNamesSupervised'
  BY <1>1 DEF StartStep, SendStart, StartCheck, StartReplay, StartOpen, StartSpawn, StartDie
<1>2. ASSUME NEW c \in StartCalls, JobStep(c) \/ JobTrip(c) \/ JobKill(c)
      PROVE StateNamesSupervised'
  <2>1. CASE JobRecord(c)
    <3>1. ASSUME NEW b \in StartCalls, job[b] = "supervise", container[Target[b]] = "running"
          PROVE Target[b] = Target[c]
      <4>1. job[c] = "record"
        BY <2>1 DEF JobRecord
      <4>2. ~Over(Target[c])
        <5>1. Target[c] # Old
          BY <4>1 DEF Old, OldIsUp
        <5>2. ASSUME NEW d \in StopCalls, Target[d] = Target[c], stop[d] = "ok" PROVE FALSE
          BY <4>1, <5>1, <5>2 DEF Withdrawn
        <5>3. QED
          BY <5>1, <5>2 DEF Over
      <4>3. Sent(Target[b]) /\ Sent(Target[c])
        BY <3>1, <4>1 DEF Sent, LogOwner
      <4>4. QED
        BY <4>2, <4>3, <3>1, OverIsDown DEF OthersOver
    <3>2. QED
      BY <2>1, <3>1 DEF JobRecord
  <2>2. CASE ~JobRecord(c)
    BY <1>2, <2>2, <1>0, SMTT(60) DEF JobStep, JobTrip, JobKill, JobAnnounce, JobCheckCancel,
       JobHandleSignals, JobPreflight, JobGuard, DockerCreate, DockerStart, DockerReturn, JobHalt,
       Halted, JobSeesExit, JobFinish, JobInterrupt, Interrupted, Handling
  <2>3. QED
    BY <2>1, <2>2
<1>3. ASSUME NEW d \in StopCalls, SendStop(d) \/ StopStep(d) \/ StopTimeout(d) \/ StopDie(d)
      PROVE StateNamesSupervised'
  BY <1>3 DEF SendStop, StopStep, StopTimeout, StopDie, StopCancel, StopFindJob, StopSignal,
     StopJobGone, StopInspect, StopHalt, Halted
<1>4. ASSUME NEW a \in Attempts, ContainerExit(a) PROVE StateNamesSupervised'
  BY <1>4 DEF ContainerExit
<1>5. CASE UNCHANGED vars
  BY <1>5 DEF vars
<1>6. QED
  BY <1>1, <1>2, <1>3, <1>4, <1>5 DEF Next

\* In the order a switch sends its requests, IInv and IDisc always hold.
THEOREM DisciplinedInductive == ASSUME Disciplined PROVE Spec => [](IInv /\ IDisc)
<1>1. Init => IDisc
  BY InitDisc
<1>2. IInv /\ IDisc /\ [Next]_vars => IDisc'
  BY OthersOverStep, RequestedStep, WithdrawnStep, StateStep DEF IDisc
<1>3. QED
  BY <1>1, <1>2, Inductive, PTL DEF Spec

\* Two launches never run on a rank at once: what the coordinator's order of
\* start and stop requests is for (switch, stop_owned, start_rank's guard).
THEOREM OneUp == ASSUME Disciplined PROVE Spec => []OneContainer
<1>1. IInv /\ IDisc => OneContainer
  BY OneRuns DEF IDisc
<1>2. QED
  BY <1>1, DisciplinedInductive, PTL

\* startup-rank<N>.json names the launch under supervision, whichever of the
\* old launch, the new one and a recovery wrote it last.
THEOREM StateNames == ASSUME Disciplined PROVE Spec => []StateNamesSupervised
<1>1. IDisc => StateNamesSupervised
  BY DEF IDisc
<1>2. QED
  BY <1>1, DisciplinedInductive, PTL
-----------------------------------------------------------------------------
(* Whatever order requests arrive in, the attempts follow Lifecycle.           *)

\* A request of a may yet bring its container up.
May(a) == \E c \in StartCalls : MayLaunch(a, c)

\* A container is there only for an attempt whose supervisor.log is.
Logged == \A a \in Attempts : container[a] # "absent" => log[a] # None

\* What PhaseOf tells apart, as it was and as it is.
Same(a) ==
    /\ May(a)' <=> May(a)
    /\ (container[a] = "running")' <=> container[a] = "running"
    /\ Confirmed(a)' <=> Confirmed(a)
    /\ (log[a] = None)' <=> log[a] = None

\* An attempt that was stopped neither runs nor may come up.
StoppedIsDown == \A a \in Attempts : Confirmed(a) => ~May(a) /\ container[a] # "running"

\* What every step keeps to: only an attempt without supervisor.log comes to be
\* launched, only one that may be launched comes up, a confirmed stop is not
\* forgotten, and none is confirmed while a launch is under way.
Orderly(a) ==
    /\ May(a)' /\ ~May(a) => log[a] = None
    /\ (container[a] = "running")' => container[a] = "running" \/ May(a)
    /\ Confirmed(a) => Confirmed(a)'
    /\ Confirmed(a)' /\ ~Confirmed(a) => ~May(a)
    /\ log[a] # None => log'[a] # None

\* Logged holds before the first request.
LEMMA InitLogged == Init => Logged
  BY RankAssumption DEF Init, Logged, Old

\* Once a stop reads Docker, no request of its attempt may bring it up.
LEMMA NoneMay ==
  ASSUME IInv, Withdrawn, NEW d \in StopCalls, stop[d] \in {"inspect", "halt", "ok"}
  PROVE  ~May(Target[d])
<1> USE RankAssumption
<1> SUFFICES ASSUME NEW c \in StartCalls, MayLaunch(Target[d], c) PROVE FALSE
  BY DEF May
<1>1. CASE Target[d] # Old
  <2>1. Target[d] \in cancel
    BY <1>1 DEF IInv, CancelFirst, StopPhases
  <2>2. QED
    BY <1>1, <2>1 DEF Withdrawn, MayLaunch, Launching
<1>2. CASE Target[d] = Old
  <2>1. Target[d] \in Attempts
    OBVIOUS
  <2>2. OldCall # None /\ Target[c] = Target[OldCall]
    BY <1>2, <2>1 DEF MayLaunch, Old
  <2>3. c = OldCall
    BY <2>2
  <2>4. job[c] \in {"supervise", "cleanup", "end", "exited"}
    BY <2>3 DEF IInv, OldIsUp
  <2>5. start[c] = "started"
    BY <2>4 DEF IInv, LogOwner
  <2>6. QED
    BY <2>4, <2>5 DEF MayLaunch, Launching
<1>3. QED
  BY <1>1, <1>2

\* StoppedIsDown follows from the invariant.
LEMMA StoppedDown == IInv /\ Withdrawn => StoppedIsDown
<1> SUFFICES ASSUME IInv, Withdrawn, NEW d \in StopCalls, stop[d] = "ok"
             PROVE  ~May(Target[d]) /\ container[Target[d]] # "running"
  BY DEF Confirmed, StoppedIsDown
<1>1. QED
  BY NoneMay DEF IInv, StopIsFinal

\* A request that may bring an attempt up created its supervisor.log.
LEMMA MayIsLogged == ASSUME IInv, NEW a \in Attempts, May(a) PROVE log[a] # None
<1>1. PICK c \in StartCalls : MayLaunch(a, c)
  BY DEF May
<1>2. start[c] \in {"opened", "started"} /\ Target[c] = a
  BY <1>1 DEF MayLaunch, Launching, IInv, LogOwner
<1>3. QED
  BY <1>2, RankAssumption DEF IInv, LogOwner

\* A start request serves its own attempt; only creating supervisor.log makes it
\* one that may bring the attempt up.
LEMMA StartOrderly ==
  ASSUME IInv, Logged, NEW c \in StartCalls, StartStep(c)
  PROVE  /\ Logged'
         /\ \A a \in Attempts : Orderly(a)
         /\ \A a \in Attempts \ {Target[c]} : Same(a)
<1> USE RankAssumption DEF IInv, TypeOK, LogOwner, Goto, files, Orderly, Same, May, MayLaunch,
    Confirmed, Logged, Launching
<1>1. CASE SendStart(c)
  BY <1>1 DEF SendStart
<1>2. CASE StartCheck(c)
  BY <1>2 DEF StartCheck
<1>3. CASE StartReplay(c)
  BY <1>3 DEF StartReplay
<1>4. CASE StartOpen(c)
  BY <1>4 DEF StartOpen
<1>5. CASE StartSpawn(c)
  BY <1>5 DEF StartSpawn
<1>6. CASE StartDie(c)
  BY <1>6 DEF StartDie
<1>7. QED
  BY <1>1, <1>2, <1>3, <1>4, <1>5, <1>6 DEF StartStep

\* A supervisor acts on its own attempt; its container runs only while it may
\* bring it up.
LEMMA JobOrderly ==
  ASSUME IInv, Logged, NEW c \in StartCalls, JobStep(c) \/ JobTrip(c) \/ JobKill(c)
  PROVE  /\ Logged'
         /\ \A a \in Attempts : Orderly(a)
         /\ \A a \in Attempts \ {Target[c]} : Same(a)
<1> USE RankAssumption DEF IInv, TypeOK, LogOwner, Goto, files, Orderly, Same, May, MayLaunch,
    Confirmed, Logged, Launching
<1>1. CASE JobAnnounce(c)
  BY <1>1 DEF JobAnnounce
<1>2. CASE JobCheckCancel(c)
  BY <1>2 DEF JobCheckCancel
<1>3. CASE JobHandleSignals(c)
  BY <1>3 DEF JobHandleSignals
<1>4. CASE JobPreflight(c)
  BY <1>4 DEF JobPreflight
<1>5. CASE JobGuard(c)
  BY <1>5 DEF JobGuard
<1>6. CASE DockerCreate(c)
  BY <1>6 DEF DockerCreate
<1>7. CASE DockerStart(c)
  BY <1>7 DEF DockerStart
<1>8. CASE DockerReturn(c)
  BY <1>8 DEF DockerReturn
<1>9. CASE JobRecord(c)
  BY <1>9 DEF JobRecord
<1>10. CASE JobHalt(c)
  BY <1>10 DEF JobHalt, Halted
<1>11. CASE JobSeesExit(c)
  BY <1>11 DEF JobSeesExit
<1>12. CASE JobFinish(c)
  BY <1>12 DEF JobFinish
<1>13. CASE JobInterrupt(c)
  BY <1>13, SMTT(60) DEF JobInterrupt, Interrupted, Handling
<1>14. CASE JobTrip(c)
  BY <1>14 DEF JobTrip
<1>15. CASE JobKill(c)
  BY <1>15 DEF JobKill
<1>16. QED
  BY <1>1, <1>2, <1>3, <1>4, <1>5, <1>6, <1>7, <1>8, <1>9, <1>10, <1>11, <1>12, <1>13, <1>14,
     <1>15 DEF JobStep

\* A stop serves its own attempt, and is confirmed when no request may bring it
\* up any more.
LEMMA StopOrderly ==
  ASSUME IInv, Withdrawn, Logged, NEW d \in StopCalls,
         SendStop(d) \/ StopStep(d) \/ StopTimeout(d) \/ StopDie(d)
  PROVE  /\ Logged'
         /\ \A a \in Attempts : Orderly(a)
         /\ \A a \in Attempts \ {Target[d]} : Same(a)
<1> USE RankAssumption DEF IInv, TypeOK, LogOwner, Goto, files, Orderly, Same, Confirmed, Logged
<1>1. CASE SendStop(d)
  BY <1>1 DEF SendStop, May, MayLaunch
<1>2. CASE StopCancel(d)
  BY <1>2 DEF StopCancel, May, MayLaunch, Launching
<1>3. CASE StopFindJob(d)
  BY <1>3 DEF StopFindJob, May, MayLaunch
<1>4. CASE StopSignal(d)
  BY <1>4 DEF StopSignal, May, MayLaunch
<1>5. CASE StopJobGone(d)
  BY <1>5 DEF StopJobGone, May, MayLaunch
<1>6. CASE StopInspect(d) \/ StopHalt(d)
  <2>1. ~May(Target[d])
    BY <1>6, NoneMay DEF StopInspect, StopHalt
  <2>2. \A a \in Attempts : May(a)' <=> May(a)
    BY <1>6 DEF StopInspect, StopHalt, May, MayLaunch
  <2>3. QED
    BY <1>6, <2>1, <2>2 DEF StopInspect, StopHalt, Halted
<1>7. CASE StopTimeout(d) \/ StopDie(d)
  BY <1>7 DEF StopTimeout, StopDie, May, MayLaunch
<1>8. QED
  BY <1>1, <1>2, <1>3, <1>4, <1>5, <1>6, <1>7 DEF StopStep

\* A container that exits brings nothing up.
LEMMA ExitOrderly ==
  ASSUME IInv, Logged, NEW e \in Attempts, ContainerExit(e)
  PROVE  /\ Logged'
         /\ \A a \in Attempts : Orderly(a)
         /\ \A a \in Attempts \ {e} : Same(a)
  BY DEF IInv, TypeOK, ContainerExit, Goto, files, Orderly, Same, May, MayLaunch, Confirmed, Logged

\* Every step is orderly, and is one attempt's.
LEMMA StepOrderly ==
  ASSUME IInv, Withdrawn, Logged, Next
  PROVE  /\ Logged'
         /\ \A a \in Attempts : Orderly(a)
         /\ \E a \in Attempts : \A b \in Attempts \ {a} : Same(b)
<1>1. CASE \E c \in StartCalls : StartStep(c) \/ JobStep(c) \/ JobTrip(c) \/ JobKill(c)
  BY <1>1, StartOrderly, JobOrderly, RankAssumption
<1>2. CASE \E d \in StopCalls : SendStop(d) \/ StopStep(d) \/ StopTimeout(d) \/ StopDie(d)
  BY <1>2, StopOrderly, RankAssumption
<1>3. CASE \E a \in Attempts : ContainerExit(a)
  BY <1>3, ExitOrderly
<1>4. QED
  BY <1>1, <1>2, <1>3 DEF Next

\* The invariant holds on the way: no order of the requests is assumed.
THEOREM LoggedInductive == Spec => [](IInv /\ Withdrawn /\ Logged)
<1>1. Init => Withdrawn /\ Logged
  BY InitDisc, InitLogged DEF IDisc
<1>2. IInv /\ Withdrawn /\ Logged /\ [Next]_vars => Withdrawn' /\ Logged'
  <2>1. ASSUME UNCHANGED vars, Logged PROVE Logged'
    BY <2>1 DEF vars, files, Logged
  <2>2. QED
    BY <2>1, WithdrawnStep, StepOrderly
<1>3. QED
  BY <1>1, <1>2, Inductive, PTL DEF Spec

\* What a coordinator sees of the attempts.
Seen == [a \in Attempts |-> PhaseOf(a)]

\* An orderly step moves an attempt as Lifecycle allows, or leaves it.
LEMMA OnePhase ==
  ASSUME IInv, Withdrawn, Logged, [Next]_vars, NEW a \in Attempts, Orderly(a)
  PROVE  \/ PhaseOf(a)' = PhaseOf(a)
         \/ PhaseOf(a)' \in Promise!Moves[PhaseOf(a)]
         \/ PhaseOf(a)' = "stopped" /\ PhaseOf(a) \in Promise!CanStop
<1>1. IInv' /\ Withdrawn'
  BY StepInv, WithdrawnStep
<1>2. Confirmed(a) => ~May(a) /\ container[a] # "running"
  BY StoppedDown DEF StoppedIsDown
<1>3. Confirmed(a)' => ~May(a)' /\ ~(container[a] = "running")'
  <2>1. StoppedIsDown'
    BY <1>1, StoppedDown, PTL
  <2>2. QED
    BY <2>1 DEF StoppedIsDown
<1>4. May(a) => log[a] # None
  BY MayIsLogged DEF IInv
<1>5. container[a] = "running" => log[a] # None
  BY DEF Logged
<1>6. PhaseOf(a) = IF May(a) THEN "launching"
                   ELSE IF container[a] = "running" THEN "up"
                   ELSE IF Confirmed(a) THEN "stopped"
                   ELSE IF log[a] = None THEN "reserved" ELSE "ended"
  BY DEF PhaseOf, May
<1>7. PhaseOf(a)' = IF May(a)' THEN "launching"
                    ELSE IF (container[a] = "running")' THEN "up"
                    ELSE IF Confirmed(a)' THEN "stopped"
                    ELSE IF (log[a] = None)' THEN "reserved" ELSE "ended"
  BY DEF PhaseOf, May
<1>8. QED
  BY <1>2, <1>3, <1>4, <1>5, <1>6, <1>7 DEF Orderly, Promise!Moves, Promise!CanStop

\* Whatever requests are delivered late or twice, the rank keeps to each attempt
\* what Lifecycle promises the coordinator: a stopped one is never launched again.
THEOREM FollowsLifecycle == Spec => KeepsPromise
<1>1. Init => Promise!Init
  BY DEF PhaseOf, Promise!Init, Promise!TypeOK, Promise!Phases
<1>2. IInv /\ Withdrawn /\ Logged /\ [Next]_vars => [Promise!Next]_Seen
  <2> SUFFICES ASSUME IInv, Withdrawn, Logged, [Next]_vars, Seen' # Seen PROVE Promise!Next
    OBVIOUS
  <2>1. Next
    BY DEF vars, files, Seen, PhaseOf, MayLaunch, Confirmed
  <2>2. PICK a \in Attempts : \A b \in Attempts \ {a} : Same(b)
    BY <2>1, StepOrderly
  <2>3. ASSUME NEW b \in Attempts \ {a} PROVE PhaseOf(b)' = PhaseOf(b)
    <3>1. Same(b)
      BY <2>2
    <3>2. QED
      BY <3>1 DEF Same, PhaseOf, May
  <2>4. Seen' = [Seen EXCEPT ![a] = PhaseOf(a)']
    BY <2>3 DEF Seen
  <2>5. PhaseOf(a)' # PhaseOf(a)
    BY <2>3 DEF Seen
  <2>6. \/ PhaseOf(a)' \in Promise!Moves[PhaseOf(a)]
        \/ PhaseOf(a)' = "stopped" /\ PhaseOf(a) \in Promise!CanStop
    BY <2>1, <2>5, StepOrderly, OnePhase
  <2>7. Promise!Move(a) \/ Promise!Stop(a)
    BY <2>4, <2>6 DEF Promise!Move, Promise!Stop, Seen
  <2>8. QED
    BY <2>7 DEF Promise!Next
<1>3. QED
  BY <1>1, <1>2, LoggedInductive, PTL DEF Spec, KeepsPromise, Promise!Spec, Seen
=============================================================================
