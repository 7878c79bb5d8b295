------------------------------ MODULE RankHost ------------------------------
(***************************************************************************)
(* One rank of a launch: the remote operations cluster.rpc serves on it    *)
(* (start and stop, each in its own short-lived process), the supervisor   *)
(* process (cluster.act_job and server.start_rank) a start spawns, the     *)
(* files those processes share in the attempt's record directory, and the  *)
(* attempt's Docker container.                                             *)
(*                                                                         *)
(* Every read and every write another process can see is a step of its     *)
(* own, so requests delivered late or twice, two requests served at once   *)
(* and a supervisor still starting up interleave as they do on the host.   *)
(*                                                                         *)
(* Abstracted: the record's contents (a file is there or not, job.json     *)
(* holds one process), the container's image and arguments, and the        *)
(* outcome of preflight and of verify_cpu_set, which either pass or fail.  *)
(* Left out: a supervisor killed by SIGKILL while its `docker run' is in   *)
(* progress (the client would outlive it), and a process id reused by a    *)
(* stranger, which the stop refuses to signal.                             *)
(***************************************************************************)
EXTENDS FiniteSets

CONSTANTS
    Attempts,      \* attempt identities of this rank, the old launch's included
    StartCalls,    \* deliveries of a start request, replays included
    StopCalls,     \* deliveries of a stop request, replays included
    Target,        \* Target[c]: the attempt a delivery addresses
    OldCall,       \* the start that launched the rank running at the outset
    None,          \* no call or no attempt
    Disciplined    \* whether starts are sent only as cluster switch sends them

ASSUME RankAssumption ==
    /\ StartCalls \cap StopCalls = {}
    /\ Target \in [StartCalls \cup StopCalls -> Attempts]
    /\ None \notin StartCalls \cup Attempts
    /\ OldCall \in StartCalls \cup {None}
    /\ Disciplined \in BOOLEAN
    \* The old launch was started once, before anything this module describes.
    /\ \A c \in StartCalls :
          OldCall # None /\ Target[c] = Target[OldCall] => c = OldCall

VARIABLES
    start,      \* start[c]: how far the process serving start request c is
    stop,       \* stop[d]: how far the process serving stop request d is
    job,        \* job[c]: the supervisor start request c spawned
    term,       \* supervisors with a SIGTERM not yet acted on
    log,        \* log[a]: the request that created supervisor.log
    jobfile,    \* jobfile[a]: the supervisor job.json names
    cancel,     \* attempts with a cancel.json
    finished,   \* attempts with a finished.json
    container,  \* container[a]: the Docker container named after a
    state       \* the attempt startup-rank<N>.json names

files == <<log, jobfile, cancel, finished, state>>
vars == <<start, stop, job, term, files, container>>

StartPhases == {"unsent", "sent", "fresh", "absent", "opened",
                "started", "replayed", "refused", "dead"}
StopPhases == {"unsent", "sent", "cancelled", "found", "waiting",
               "inspect", "halt", "ok", "failed", "dead"}
JobPhases == {"none", "spawned", "announced", "cleared", "preflight", "guard",
              "run", "record", "unwind", "supervise", "cleanup", "end", "exited"}
\* A supervisor from the moment server.act_launch handles SIGTERM itself.
Handling == {"preflight", "guard", "run", "record", "unwind",
             "supervise", "cleanup", "end"}
\* A supervisor that has not answered for cancel.json and may create a container.
Launching == {"cleared", "preflight", "guard", "run"}

TypeOK ==
    /\ start \in [StartCalls -> StartPhases]
    /\ stop \in [StopCalls -> StopPhases]
    /\ job \in [StartCalls -> JobPhases]
    /\ term \subseteq StartCalls
    /\ log \in [Attempts -> StartCalls \cup {None}]
    /\ jobfile \in [Attempts -> StartCalls \cup {None}]
    /\ cancel \subseteq Attempts
    /\ finished \subseteq Attempts
    /\ container \in [Attempts -> {"absent", "created", "running", "exited"}]
    /\ state \in Attempts \cup {None}

Old == IF OldCall = None THEN None ELSE Target[OldCall]

\* The rank before the switch: nothing, or the old launch under supervision.
Init ==
    /\ start = [c \in StartCalls |-> IF c = OldCall THEN "started" ELSE "unsent"]
    /\ stop = [d \in StopCalls |-> "unsent"]
    /\ job = [c \in StartCalls |-> IF c = OldCall THEN "supervise" ELSE "none"]
    /\ term = {}
    /\ log = [a \in Attempts |-> IF a = Old THEN OldCall ELSE None]
    /\ jobfile = [a \in Attempts |-> IF a = Old THEN OldCall ELSE None]
    /\ cancel = {}
    /\ finished = {}
    /\ container = [a \in Attempts |-> IF a = Old THEN "running" ELSE "absent"]
    /\ state = Old

Goto(f, p, to) == f' = [f EXCEPT ![p] = to]

-----------------------------------------------------------------------------
(* The coordinator's order of requests.                                    *)

\* A fault: take a stop that was sent for one that was confirmed.
QuietOnceSent(a) ==
    \/ \A c \in StartCalls : Target[c] = a => start[c] = "unsent"
    \/ \E d \in StopCalls : Target[d] = a /\ stop[d] # "unsent"

\* No start request for a was ever sent, or a stop of a has been confirmed,
\* or `current' found the recorded launch not running.
Quiet(a) ==
    \/ \A c \in StartCalls : Target[c] = a => start[c] = "unsent"
    \/ \E d \in StopCalls : Target[d] = a /\ stop[d] = "ok"
    \/ a = Old /\ container[a] = "exited"

\* A request leaves the coordinator; it may be served at any later time.
SendStart(c) ==
    /\ start[c] = "unsent"
    /\ Disciplined => \A a \in Attempts \ {Target[c]} : Quiet(a)
    /\ Goto(start, c, "sent")
    /\ UNCHANGED <<stop, job, term, files, container>>

SendStop(d) ==
    /\ stop[d] = "unsent"
    /\ Goto(stop, d, "sent")
    /\ UNCHANGED <<start, job, term, files, container>>

-----------------------------------------------------------------------------
(* rpc("start"): refuse an attempt that is over, answer for one in flight, *)
(* or create supervisor.log exclusively and spawn the supervisor.          *)

StartCheck(c) ==
    /\ start[c] = "sent"
    /\ Goto(start, c, IF Target[c] \in finished \cup cancel THEN "refused" ELSE "fresh")
    /\ UNCHANGED <<stop, job, term, files, container>>

StartReplay(c) ==
    /\ start[c] = "fresh"
    /\ Goto(start, c, IF log[Target[c]] # None THEN "replayed" ELSE "absent")
    /\ UNCHANGED <<stop, job, term, files, container>>

\* A fault: open supervisor.log with "w", which never finds it taken.
OpenShared(c) ==
    /\ start[c] = "absent"
    /\ log' = [log EXCEPT ![Target[c]] = c]
    /\ Goto(start, c, "opened")
    /\ UNCHANGED <<stop, job, term, jobfile, cancel, finished, state, container>>

\* open("x"): of two requests past the check, one finds the file taken.
StartOpen(c) ==
    /\ start[c] = "absent"
    /\ IF log[Target[c]] = None
       THEN /\ log' = [log EXCEPT ![Target[c]] = c]
            /\ Goto(start, c, "opened")
       ELSE /\ Goto(start, c, "refused")
            /\ UNCHANGED log
    /\ UNCHANGED <<stop, job, term, jobfile, cancel, finished, state, container>>

StartSpawn(c) ==
    /\ start[c] = "opened"
    /\ Goto(job, c, "spawned")
    /\ Goto(start, c, "started")
    /\ UNCHANGED <<stop, term, files, container>>

\* The process serving the request dies before it answers.
StartDie(c) ==
    /\ start[c] \in {"sent", "fresh", "absent", "opened"}
    /\ Goto(start, c, "dead")
    /\ UNCHANGED <<stop, job, term, files, container>>

-----------------------------------------------------------------------------
(* cluster.act_job and server.start_rank: the supervisor.                  *)

JobAnnounce(c) ==
    /\ job[c] = "spawned"
    /\ jobfile' = [jobfile EXCEPT ![Target[c]] = c]
    /\ Goto(job, c, "announced")
    /\ UNCHANGED <<start, stop, term, log, cancel, finished, state, container>>

\* A fault: never look for cancel.json.
LaunchUnchecked(c) ==
    /\ job[c] = "announced"
    /\ Goto(job, c, "cleared")
    /\ UNCHANGED <<start, stop, term, files, container>>

JobCheckCancel(c) ==
    /\ job[c] = "announced"
    /\ IF Target[c] \in cancel
       THEN /\ finished' = finished \cup {Target[c]}
            /\ Goto(job, c, "exited")
       ELSE /\ Goto(job, c, "cleared")
            /\ UNCHANGED finished
    /\ UNCHANGED <<start, stop, term, log, jobfile, cancel, state, container>>

\* act_launch installs the signal handlers before it does anything else.
JobHandleSignals(c) ==
    /\ job[c] = "cleared"
    /\ Goto(job, c, "preflight")
    /\ UNCHANGED <<start, stop, term, files, container>>

JobPreflight(c) ==
    /\ job[c] = "preflight"
    /\ \E next \in {"guard", "end"} : Goto(job, c, next)
    /\ UNCHANGED <<start, stop, term, files, container>>

\* start_rank refuses while the recorded launch is running.
JobGuard(c) ==
    /\ job[c] = "guard"
    /\ Goto(job, c, IF state # None /\ container[state] = "running"
                    THEN "end" ELSE "run")
    /\ UNCHANGED <<start, stop, term, files, container>>

\* `docker run' creates the container, then starts it, then returns.
DockerCreate(c) ==
    /\ job[c] = "run"
    /\ container[Target[c]] = "absent"
    /\ Goto(container, Target[c], "created")
    /\ UNCHANGED <<start, stop, job, term, files>>

DockerStart(c) ==
    /\ job[c] = "run"
    /\ container[Target[c]] = "created"
    /\ Goto(container, Target[c], "running")
    /\ UNCHANGED <<start, stop, job, term, files>>

DockerReturn(c) ==
    /\ job[c] = "run"
    /\ Goto(job, c, IF container[Target[c]] \in {"running", "exited"}
                    THEN "record" ELSE "end")
    /\ UNCHANGED <<start, stop, term, files, container>>

\* A fault: supervise the launch without recording it.
Unrecorded(c) ==
    /\ job[c] = "record"
    /\ Goto(job, c, "supervise")
    /\ UNCHANGED <<start, stop, term, files, container>>

\* verify_cpu_set passes and the state file is written, or the launch unwinds.
JobRecord(c) ==
    /\ job[c] = "record"
    /\ \/ state' = Target[c] /\ Goto(job, c, "supervise")
       \/ UNCHANGED state /\ Goto(job, c, "unwind")
    /\ UNCHANGED <<start, stop, term, log, jobfile, cancel, finished, container>>

\* What `docker stop' makes of a container; a stopped one stays listed.
Halted(s) == IF s = "running" THEN "exited" ELSE s

\* The docker stop of start_rank's except clause, and of supervise's finally;
\* a failing Docker leaves the container as it is.
JobHalt(c) ==
    /\ job[c] \in {"unwind", "cleanup"}
    /\ \/ Goto(container, Target[c], Halted(container[Target[c]]))
       \/ UNCHANGED container
    /\ Goto(job, c, "end")
    /\ UNCHANGED <<start, stop, term, files>>

\* The supervision loop finds the container no longer running.
JobSeesExit(c) ==
    /\ job[c] = "supervise"
    /\ container[Target[c]] # "running"
    /\ Goto(job, c, "cleanup")
    /\ UNCHANGED <<start, stop, term, files, container>>

\* The memory reserve, the run deadline or the stall guard ends the launch.
JobTrip(c) ==
    /\ job[c] = "supervise"
    /\ Goto(job, c, "cleanup")
    /\ UNCHANGED <<start, stop, term, files, container>>

JobFinish(c) ==
    /\ job[c] = "end"
    /\ finished' = finished \cup {Target[c]}
    /\ Goto(job, c, "exited")
    /\ UNCHANGED <<start, stop, term, log, jobfile, cancel, state, container>>

\* A fault: an interrupt the supervision loop swallows.
Swallowed(p) == IF p = "supervise" THEN p ELSE "end"

\* Where KeyboardInterrupt takes a supervisor that handles SIGTERM.
Interrupted(p) == CASE p \in {"preflight", "guard", "run"} -> "end"
                    [] p = "record" -> "unwind"
                    [] p = "supervise" -> "cleanup"
                    [] p \in {"unwind", "cleanup"} -> "end"
                    [] p = "end" -> "exited"

\* SIGTERM takes effect.  Before the handlers are installed it kills the
\* process; in `docker run' the client is killed and the request it had sent
\* is carried out or not.
JobInterrupt(c) ==
    /\ c \in term
    /\ term' = term \ {c}
    /\ \/ /\ job[c] \in {"announced", "cleared"}
          /\ Goto(job, c, "exited")
          /\ UNCHANGED container
       \/ /\ job[c] \in Handling
          /\ Goto(job, c, Interrupted(job[c]))
          /\ \/ UNCHANGED container
             \/ /\ job[c] = "run"
                /\ \/ /\ container[Target[c]] = "absent"
                      /\ Goto(container, Target[c], "created")
                   \/ /\ container[Target[c]] = "created"
                      /\ Goto(container, Target[c], "running")
    /\ UNCHANGED <<start, stop, files>>

\* The supervisor is killed outright, except while `docker run' is running.
JobKill(c) ==
    /\ job[c] \notin {"none", "run", "exited"}
    /\ Goto(job, c, "exited")
    /\ UNCHANGED <<start, stop, term, files, container>>

ContainerExit(a) ==
    /\ container[a] = "running"
    /\ Goto(container, a, "exited")
    /\ UNCHANGED <<start, stop, job, term, files>>

-----------------------------------------------------------------------------
(* rpc("stop"): cancel, signal the supervisor and wait for its exit, then  *)
(* read Docker and stop the container.  The old launch, known only from    *)
(* `current', has no record to cancel: only its container is stopped.      *)

StopCancel(d) ==
    /\ stop[d] = "sent"
    /\ IF Target[d] = Old
       THEN Goto(stop, d, "inspect") /\ UNCHANGED cancel
       ELSE Goto(stop, d, "cancelled") /\ cancel' = cancel \cup {Target[d]}
    /\ UNCHANGED <<start, job, term, log, jobfile, finished, state, container>>

StopFindJob(d) ==
    /\ stop[d] = "cancelled"
    /\ Goto(stop, d, IF jobfile[Target[d]] = None THEN "inspect" ELSE "found")
    /\ UNCHANGED <<start, job, term, files, container>>

\* /proc/<pid>/cmdline is there, and the signal finds the process or does not.
StopSignal(d) ==
    LET c == jobfile[Target[d]]
    IN  /\ stop[d] = "found"
        /\ IF job[c] = "exited"
           THEN /\ \E next \in {"inspect", "failed"} : Goto(stop, d, next)
                /\ UNCHANGED term
           ELSE /\ term' = term \cup {c}
                /\ Goto(stop, d, "waiting")
        /\ UNCHANGED <<start, job, files, container>>

StopJobGone(d) ==
    /\ stop[d] = "waiting"
    /\ job[jobfile[Target[d]]] = "exited"
    /\ Goto(stop, d, "inspect")
    /\ UNCHANGED <<start, job, term, files, container>>

\* "Attempt supervisor did not terminate" within 60 seconds.
StopTimeout(d) ==
    /\ stop[d] = "waiting"
    /\ Goto(stop, d, "failed")
    /\ UNCHANGED <<start, job, term, files, container>>

\* A fault: believe the container gone without asking Docker.
NoInspect(d) ==
    /\ stop[d] = "inspect"
    /\ Goto(stop, d, "ok")
    /\ UNCHANGED <<start, job, term, files, container>>

StopInspect(d) ==
    /\ stop[d] = "inspect"
    /\ Goto(stop, d, IF container[Target[d]] = "running" THEN "halt" ELSE "ok")
    /\ UNCHANGED <<start, job, term, files, container>>

StopHalt(d) ==
    /\ stop[d] = "halt"
    /\ \/ /\ Goto(container, Target[d], Halted(container[Target[d]]))
          /\ Goto(stop, d, "ok")
       \/ Goto(stop, d, "failed") /\ UNCHANGED container
    /\ UNCHANGED <<start, job, term, files>>

StopDie(d) ==
    /\ stop[d] \in {"sent", "cancelled", "found", "waiting", "inspect", "halt"}
    /\ Goto(stop, d, "dead")
    /\ UNCHANGED <<start, job, term, files, container>>

-----------------------------------------------------------------------------
StartStep(c) ==
    \/ SendStart(c) \/ StartCheck(c) \/ StartReplay(c) \/ StartOpen(c)
    \/ StartSpawn(c) \/ StartDie(c)

JobStep(c) ==
    \/ JobAnnounce(c) \/ JobCheckCancel(c) \/ JobHandleSignals(c)
    \/ JobPreflight(c) \/ JobGuard(c) \/ DockerCreate(c) \/ DockerStart(c)
    \/ DockerReturn(c) \/ JobRecord(c) \/ JobHalt(c) \/ JobSeesExit(c)
    \/ JobFinish(c) \/ JobInterrupt(c)

StopStep(d) ==
    \/ StopCancel(d) \/ StopFindJob(d) \/ StopSignal(d) \/ StopJobGone(d)
    \/ StopInspect(d) \/ StopHalt(d)

Next ==
    \/ \E c \in StartCalls :
          StartStep(c) \/ JobStep(c) \/ JobTrip(c) \/ JobKill(c)
    \/ \E d \in StopCalls :
          SendStop(d) \/ StopStep(d) \/ StopTimeout(d) \/ StopDie(d)
    \/ \E a \in Attempts : ContainerExit(a)

\* A process of the host keeps running; nobody has to send a request, and no
\* supervision ends by itself.
Fairness ==
    /\ \A c \in StartCalls : WF_vars(JobStep(c))
    /\ \A d \in StopCalls : WF_vars(StopStep(d))

Spec == Init /\ [][Next]_vars /\ Fairness

-----------------------------------------------------------------------------
(* Properties.                                                             *)

\* A stop that answered is final: whatever requests are still in flight, the
\* container of the attempt never runs again (a recovery may take the GPU).
StopIsFinal ==
    \A d \in StopCalls : stop[d] = "ok" => container[Target[d]] # "running"

\* By the time a stop reads Docker, no supervisor of the attempt can still
\* create a container: what the wait in rpc("stop") is for.
NoLateLaunch ==
    \A d \in StopCalls, c \in StartCalls :
        Target[d] = Target[c] /\ stop[d] \in {"inspect", "halt", "ok"}
            => job[c] \notin Launching

\* However often a start is replayed, one supervisor is spawned for an attempt.
OneSupervisor ==
    \A c1, c2 \in StartCalls :
        Target[c1] = Target[c2] /\ job[c1] # "none" /\ job[c2] # "none"
            => c1 = c2

\* Two launches never run on the rank at once, when starts are sent only after
\* every other launch of the rank is known to be over.
OneContainer ==
    \A a, b \in Attempts :
        container[a] = "running" /\ container[b] = "running" => a = b

\* The state file names the launch under supervision, so `current', `install'
\* and `server stop' address the container that runs.
StateNamesSupervised ==
    \A c \in StartCalls :
        job[c] = "supervise" /\ container[Target[c]] = "running"
            => state = Target[c]

\* Every stop served to the end answers, without its 60-second timeout: the
\* supervisor it signals exits from wherever the signal finds it.  And after a
\* confirmed stop every supervisor of the attempt comes to its end, one spawned
\* by a start request delivered late included.
StopSettles ==
    \A d \in StopCalls :
        /\ stop[d] = "sent" ~> stop[d] \in {"ok", "failed", "dead"}
        /\ \A c \in StartCalls :
              Target[c] = Target[d] =>
                  (stop[d] = "ok" ~> job[c] \in {"none", "exited"})

-----------------------------------------------------------------------------
(* Why the stop is final: the parts of the inductive invariant.            *)

\* Only the request that created supervisor.log goes on to spawn a supervisor.
LogOwner ==
    \A c \in StartCalls :
        /\ start[c] \in {"opened", "started"} => log[Target[c]] = c
        /\ job[c] # "none" => start[c] = "started"

\* A supervisor that may look at cancel.json has put itself in job.json; one
\* that was killed before it could has not.
JobFileOwner ==
    /\ \A c \in StartCalls :
          job[c] \notin {"none", "spawned", "exited"} => jobfile[Target[c]] = c
    /\ \A a \in Attempts :
          jobfile[a] # None => Target[jobfile[a]] = a

\* A stop that looks for job.json has written cancel.json.
CancelFirst ==
    \A d \in StopCalls :
        stop[d] \in StopPhases \ {"unsent", "sent", "dead"} =>
            Target[d] \in cancel \cup {Old}

\* A stop signals only a supervisor it found in job.json.
FoundInJobFile ==
    \A d \in StopCalls :
        stop[d] \in {"found", "waiting"} => jobfile[Target[d]] # None

\* The old launch was up before the first request, and is not launched again.
OldIsUp ==
    \A c \in StartCalls :
        c = OldCall => job[c] \in {"supervise", "cleanup", "end", "exited"}

\* The inductive invariant behind StopIsFinal, NoLateLaunch and OneSupervisor:
\* cancel.json and job.json are each written before the other is read.
IInv ==
    /\ TypeOK
    /\ LogOwner /\ JobFileOwner /\ CancelFirst /\ FoundInJobFile /\ OldIsUp
    /\ NoLateLaunch /\ StopIsFinal

-----------------------------------------------------------------------------
\* What rpc("poll") answers: failed when the supervisor is done or the listed
\* container is not running.
PollFailed(a) == a \in finished \/ container[a] \in {"created", "exited"}

\* A rank reported as terminated does not start afterwards.
FailedStaysDown ==
    [][\A a \in Attempts :
          PollFailed(a) /\ container[a] # "running"
              => container'[a] # "running"]_vars

-----------------------------------------------------------------------------
(* The rank keeps the promise of Lifecycle.                                *)

Confirmed(a) == \E d \in StopCalls : Target[d] = a /\ stop[d] = "ok"

\* Request c has spawned, or is spawning, a supervisor that may yet create a's
\* container: it has passed the check of cancel.json, or will find none.
MayLaunch(a, c) ==
    /\ Target[c] = a
    /\ \/ job[c] \in Launching \cup {"record"}
       \/ job[c] \in {"spawned", "announced"} /\ a \notin cancel
       \/ start[c] = "opened" /\ a \notin cancel

PhaseOf(a) ==
    IF \E c \in StartCalls : MayLaunch(a, c) THEN "launching"
    ELSE IF container[a] = "running" THEN "up"
    ELSE IF Confirmed(a) THEN "stopped"
    ELSE IF log[a] = None THEN "reserved"
    ELSE "ended"

Promise == INSTANCE Lifecycle WITH att <- [a \in Attempts |-> PhaseOf(a)]

\* Seen through PhaseOf, every step of the host is a step of Lifecycle: a
\* stopped attempt stays stopped, an ended one never comes up again.
KeepsPromise == Promise!Spec
=============================================================================
