------------------------------- MODULE Supervise -------------------------------
(***************************************************************************)
(* server.supervise: the loop that samples a running rank and stops it on  *)
(* low memory, past its deadline, or when the engine stops moving; and its *)
(* `finally', which stops whatever still runs.                             *)
(*                                                                         *)
(* Time passes in ticks, while the loop sleeps or reads /metrics.  The     *)
(* engine is external: its four progress signals are the running gauge     *)
(* (above zero or not) and a mark, whether the other three differ from the *)
(* sample the loop kept.  A healthy engine with a running request moves a  *)
(* signal at least every Gap ticks; a wedged one moves nothing.            *)
(***************************************************************************)
EXTENDS Naturals

CONSTANTS
    Stall,      \* resources.stall_seconds, 0 on every rank but the head's
    Deadlines,  \* the values of resources.run_seconds, 0 for none
    Nap,        \* the pause between two samples
    ReadMax,    \* the longest a read of /metrics takes
    Gap         \* the longest a healthy engine at work moves no signal

ASSUME SuperviseAssumption ==
    /\ Stall \in Nat /\ Deadlines \subseteq Nat /\ Gap \in Nat
    /\ Nap \in Nat \ {0} /\ ReadMax \in Nat \ {0}
    \* A stall is told from a slow request (docs/operations.md:151).
    /\ Stall # 0 => Gap + ReadMax < Stall

VARIABLES
    deadline,   \* resources.run_seconds of this launch
    pc,         \* where the loop is
    waited,     \* ticks spent in the current read or pause
    age,        \* ticks since the loop began, as far as the deadline tells
    still,      \* ticks since `moved', as far as Stall tells
    last,       \* the load of the sample kept, or "none"
    snap,       \* what the current read saw, or Nothing
    told,       \* stop-reason.json
    container,  \* Docker's state of the rank
    healthy,    \* whether the engine is not wedged
    load,       \* what its running gauge tells
    gap,        \* ticks it has been at work without moving a signal
    mark,       \* whether its signals moved since the sample kept
    left,       \* whether a request left since the sample kept
    frozen      \* ticks a wedged request has been readable (for WedgeInTime)

loop == <<deadline, waited, age, still, last, snap>>
engine == <<healthy, load, gap, mark, left>>
vars == <<pc, loop, told, container, engine, frozen>>

Sampling == {"look", "judge", "read", "answered", "pause"}
Cycle == Nap + ReadMax
Least(a, b) == IF a < b THEN a ELSE b
\* No wedge goes unnoticed that long: a cycle and a read until its first sample
\* is kept, Stall, and a cycle until the next.
Caught == Stall + 2 * Cycle + ReadMax
\* Something happened since the sample kept, and the sample being read does not
\* show it (new) or does (since); or nothing happened (same).
Marks == {"new", "since", "same"}
Nothing == [load |-> "none", mark |-> "same"]

TypeOK ==
    /\ pc \in Sampling \cup {"finally", "halt", "ended"}
    /\ deadline \in Deadlines
    /\ waited \in 0..Cycle /\ age \in 0..(deadline + Cycle) /\ still \in 0..Stall
    /\ last \in {"none", "idle", "busy"}
    /\ snap \in [load: {"none", "idle", "busy"}, mark: Marks]
    /\ told \in {"none", "memory-reserve", "run-deadline", "engine-stall"}
    /\ container \in {"running", "exited"}
    /\ healthy \in BOOLEAN /\ load \in {"idle", "busy"} /\ gap \in 0..Gap
    /\ mark \in Marks /\ left \in Marks
    /\ frozen \in 0..Caught

Init ==
    /\ deadline \in Deadlines
    /\ pc = "look" /\ waited = 0 /\ age = 0 /\ still = 0
    /\ last = "none" /\ snap = Nothing /\ told = "none" /\ container = "running"
    /\ healthy = TRUE /\ load = "idle" /\ gap = 0 /\ mark = "same" /\ left = "same"
    /\ frozen = 0

-----------------------------------------------------------------------------
(* The engine.                                                               *)

LoopStays == UNCHANGED <<pc, loop, told, container, frozen>>

Serving == container = "running" /\ healthy

Progress ==
    /\ Serving /\ load = "busy"
    /\ mark' = "new" /\ gap' = 0
    /\ UNCHANGED <<healthy, load, left>> /\ LoopStays

\* A new request may show the signals of one that left before its first token.
Arrive ==
    /\ Serving /\ load = "idle"
    /\ load' = "busy" /\ gap' = 0 /\ mark' \in {"new", mark}
    /\ UNCHANGED <<healthy, left>> /\ LoopStays

\* A request ends, or its client gives up.
Depart ==
    /\ Serving /\ load = "busy"
    /\ load' = "idle" /\ gap' = 0 /\ left' = "new"
    /\ UNCHANGED <<healthy, mark>> /\ LoopStays

Wedge ==
    /\ Serving
    /\ healthy' = FALSE
    /\ UNCHANGED <<load, gap, mark, left>> /\ LoopStays

ContainerExit ==
    /\ container = "running"
    /\ container' = "exited"
    /\ UNCHANGED <<pc, loop, told, engine, frozen>>

-----------------------------------------------------------------------------
(* Time.                                                                   *)

Stuck == ~healthy /\ load = "busy"

Tick ==
    /\ \/ pc = "pause" /\ waited < Nap
       \/ pc \in {"read", "answered"} /\ waited < ReadMax
    /\ Serving /\ load = "busy" => gap < Gap
    /\ waited' = waited + 1
    /\ age' = Least(age + 1, deadline + Cycle)
    /\ still' = Least(still + 1, Stall)
    /\ gap' = IF Serving /\ load = "busy" THEN gap + 1 ELSE gap
    /\ frozen' = IF Stuck THEN Least(frozen + 1, Caught) ELSE 0
    /\ UNCHANGED <<deadline, pc, last, snap, told, container, healthy, load, mark, left>>

-----------------------------------------------------------------------------
(* The loop.                                                               *)

\* What the engine shows, as a sample is taken, kept or lost.
Turn(from, to) ==
    /\ mark' = IF mark = from THEN to ELSE mark
    /\ left' = IF left = from THEN to ELSE left
    /\ UNCHANGED <<healthy, load, gap>>

Goto(p) == pc' = p /\ waited' = 0
Kept == UNCHANGED <<deadline, age, still, last, snap, told, container, engine, frozen>>

\* inspect_owned: a container that has ended ends the loop.
Look ==
    /\ pc = "look"
    /\ Goto(IF container = "running" THEN "judge" ELSE "finally")
    /\ Kept

\* The log entry and stop-reason.json are written, and the loop ends.
Stop(reason) ==
    /\ told' = reason
    /\ Goto("finally")
    /\ UNCHANGED <<deadline, age, last, container, engine, frozen>>

\* A fault: a launch with a stall guard is not held to its deadline.
StallOnly ==
    /\ pc = "judge"
    /\ \/ Stop("memory-reserve") /\ UNCHANGED <<still, snap>>
       \/ IF Stall = 0 /\ deadline # 0 /\ age >= deadline
          THEN Stop("run-deadline") /\ UNCHANGED <<still, snap>>
          ELSE Goto(IF Stall # 0 THEN "read" ELSE "pause") /\ Kept

\* Memory, then the deadline, then a read of /metrics for the stall.
Judge ==
    /\ pc = "judge"
    /\ \/ Stop("memory-reserve") /\ UNCHANGED <<still, snap>>
       \/ IF deadline # 0 /\ age >= deadline
          THEN Stop("run-deadline") /\ UNCHANGED <<still, snap>>
          ELSE Goto(IF Stall # 0 THEN "read" ELSE "pause") /\ Kept

\* The server renders the sample; its answer is still on the way.
Snapshot ==
    /\ pc = "read" /\ container = "running"
    /\ snap' = [load |-> load, mark |-> mark]
    /\ Turn("new", "since")
    /\ pc' = "answered"
    /\ UNCHANGED <<deadline, waited, age, still, last, told, container, frozen>>

\* progress_sample is None: no answer in time, or none that can be read.
Unreadable ==
    /\ pc \in {"read", "answered"}
    /\ Goto("pause")
    /\ snap' = Nothing
    /\ Turn("since", "new")
    /\ frozen' = 0
    /\ UNCHANGED <<deadline, age, still, last, told, container>>

\* Faults: compare log entries, whose epoch differs; take an idle engine's
\* unmoving sample for a stall.
EntryChanged == TRUE
IdleStalls == snap.load # last \/ snap.mark # "same"

Changed == snap.load = "idle" \/ snap.load # last \/ snap.mark # "same"

\* The sample moved, or nothing runs: keep it.  Otherwise, has it been Stall?
Compare ==
    /\ pc = "answered"
    /\ snap' = Nothing
    /\ IF Changed
       THEN /\ last' = snap.load /\ still' = 0
            /\ Turn("since", "same")
            /\ Goto("pause") /\ UNCHANGED <<deadline, age, told, container, frozen>>
       ELSE /\ UNCHANGED still
            /\ IF still >= Stall
               THEN Stop("engine-stall")
               ELSE /\ Turn("since", "new")
                    /\ Goto("pause")
                    /\ UNCHANGED <<deadline, age, last, told, container, frozen>>

Wake == pc = "pause" /\ waited = Nap /\ Goto("look") /\ Kept

\* A fault: the loop outside the try.
Uncaught == pc \in Sampling /\ Goto("ended") /\ Kept

\* SIGTERM, Ctrl+C, or an error of Docker, the host's readings or the record.
Raise == pc \in Sampling /\ Goto("finally") /\ Kept

\* The `finally' clause: look, stop what runs, keep the logs.
Finally ==
    /\ pc = "finally"
    /\ Goto(IF container = "running" THEN "halt" ELSE "ended")
    /\ Kept

Halt ==
    /\ pc = "halt"
    /\ container' = "exited"
    /\ Goto("ended")
    /\ UNCHANGED <<deadline, age, still, last, snap, told, engine, frozen>>

\* Docker fails there, or a second signal arrives.
Abandon == pc \in {"finally", "halt"} /\ Goto("ended") /\ Kept

Step == Look \/ Judge \/ Unreadable \/ Compare \/ Wake \/ Finally \/ Halt
Next ==
    \/ Progress \/ Arrive \/ Depart \/ Wedge \/ ContainerExit
    \/ Tick \/ Step \/ Snapshot \/ Raise \/ Abandon

\* The loop and the clock go on; a healthy engine at work makes progress; a
\* /metrics read again and again is answered again and again.
Fairness ==
    /\ WF_vars(Step) /\ WF_vars(Tick) /\ WF_vars(Progress)
    /\ SF_vars(Snapshot) /\ SF_vars(Compare)

Spec == Init /\ [][Next]_vars /\ Fairness

-----------------------------------------------------------------------------
(* Properties.                                                             *)

\* The stall guard never stops an engine that still serves the request it was
\* serving: unreadable samples, slow reads and idle spells included.  (Two
\* requests that look alike, with no sample in between, can mislead it.)
HealthyIsSpared ==
    [][told' = "engine-stall" /\ told = "none"
          => ~healthy \/ left # "same"]_vars

\* A wedge with a running request that can be read is stopped after Stall, two
\* cycles of the loop and a read, at the latest.
WedgeInTime == Stall # 0 /\ pc \in Sampling => frozen < Caught

\* No rank is supervised past its deadline by more than one cycle.
DeadlineOnTime == deadline # 0 /\ pc \in Sampling => age < deadline + Cycle

-----------------------------------------------------------------------------
(* The inductive invariant behind the three.                               *)

\* A read and a pause end in time; `since' is the mark of a read under way.
Clocks ==
    /\ pc \in {"read", "answered"} => waited <= ReadMax
    /\ pc = "pause" => waited <= Nap
    /\ pc \in Sampling /\ mark = "since" => pc = "answered" /\ snap.mark = "new"
    /\ pc \in Sampling /\ left = "since" => pc = "answered"
    /\ pc = "answered" /\ mark = "same" => snap.mark = "same"
    /\ pc \in {"read", "answered"} => Stall # 0
    /\ pc = "answered" => snap.load # "none"
    /\ pc = "answered" /\ snap.load = "busy" /\ left # "new" => load = "busy"

\* A rank judged in time is a read and a pause past its deadline at most.
DueSoon ==
    deadline # 0 =>
        /\ pc \in {"look", "judge"} => age < deadline + Cycle
        /\ pc \in {"read", "answered"} => age < deadline + waited
        /\ pc = "pause" => age < deadline + ReadMax + waited

\* While the sample kept is what the engine still shows, no progress was made.
Starved ==
    pc \in Sampling /\ healthy /\ last = "busy" /\ Stall # 0 =>
        /\ container = "running" /\ mark = "same" /\ left = "same"
              => load = "busy" /\ still <= gap
        /\ pc = "answered" /\ snap.load = "busy" /\ snap.mark = "same"
              /\ left = "same" => still <= Gap + waited

\* Ticks since the loop last compared, at most.
Since == CASE pc = "pause" -> waited
           [] pc \in {"read", "answered"} -> Nap + waited
           [] OTHER -> Nap

\* The sample kept, and the one being read, show the wedge.
Shown == /\ last = "busy" /\ mark = "same"
         /\ pc = "answered" => snap.load = "busy"

\* The sample being read was taken before the wedge.
Stale == pc = "answered" /\ (mark = "new" \/ snap.load = "idle")

Noticed ==
    /\ ~Stuck => frozen = 0
    /\ Stall # 0 /\ pc \in Sampling /\ Stuck =>
          IF Shown
          THEN /\ still < Stall => frozen <= still + Cycle + ReadMax
               /\ frozen < Stall + Cycle + ReadMax + Since
          ELSE frozen <= IF Stale THEN waited ELSE ReadMax + Since

IInv == TypeOK /\ Clocks /\ DueSoon /\ Starved /\ Noticed

-----------------------------------------------------------------------------
\* A wedged engine with a running request ends the launch, however often
\* /metrics cannot be read in between.
WedgeEnds == Stuck ~> pc = "ended"

\* What RankHost says of a supervisor from `supervise' on.
RankOf == INSTANCE RankHost WITH
    Attempts <- {"a"}, StartCalls <- {"s"}, StopCalls <- {}, OldCall <- "s",
    Target <- [x \in {"s"} |-> "a"], None <- "none", Disciplined <- FALSE,
    start <- [x \in {"s"} |-> "started"], stop <- [x \in {} |-> "unsent"],
    job <- [x \in {"s"} |-> IF pc \in Sampling THEN "supervise"
                            ELSE IF pc = "ended" THEN "end" ELSE "cleanup"],
    term <- {}, log <- [x \in {"a"} |-> "s"], jobfile <- [x \in {"a"} |-> "s"],
    cancel <- {}, finished <- {}, container <- [x \in {"a"} |-> container],
    state <- "a"

\* The loop is the supervisor RankHost takes it for, and one that comes to its
\* end when its engine is wedged.
Supervises == RankOf!Init /\ [][RankOf!Next]_RankOf!vars /\ WedgeEnds
=============================================================================
