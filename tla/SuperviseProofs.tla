--------------------------- MODULE SuperviseProofs ---------------------------
(***************************************************************************)
(* Theorems about Supervise, for every Stall, Deadline, Nap, ReadMax and   *)
(* Gap the assumption allows.                                              *)
(***************************************************************************)
EXTENDS Supervise, TLAPS

LEMMA InitInv == Init => IInv
BY SuperviseAssumption
   DEF Init, IInv, TypeOK, Clocks, DueSoon, Starved, Noticed, Stuck, Sampling,
       Cycle, Caught, Marks, Nothing

\* A step keeps the types.
LEMMA TypeStep ==
    IInv /\ [Next]_vars => TypeOK'
<1> SUFFICES ASSUME IInv, [Next]_vars PROVE TypeOK'
    OBVIOUS
<1> USE SuperviseAssumption DEF IInv, Sampling, Cycle, loop, Least, engine, TypeOK, Caught, Marks, Nothing, Clocks
<1>1. CASE Progress
    BY <1>1 DEF Progress, LoopStays, Serving
<1>2. CASE Arrive
    BY <1>2 DEF Arrive, LoopStays, Serving
<1>3. CASE Depart
    BY <1>3 DEF Depart, LoopStays, Serving
<1>4. CASE Wedge
    <2>1. healthy' \in BOOLEAN
        BY <1>4 DEF Wedge
    <2>2. QED
        BY <1>4, <2>1 DEF Wedge, LoopStays
<1>5. CASE ContainerExit
    BY <1>5 DEF ContainerExit
<1>6. CASE Tick
    BY <1>6 DEF Tick, Serving, Stuck
<1>7. CASE Look
    BY <1>7 DEF Look, Goto, Kept
<1>8. CASE Judge
    BY <1>8 DEF Judge, Stop, Goto, Kept
<1>9. CASE Unreadable
    BY <1>9 DEF Unreadable, Goto, Turn
<1>10. CASE Compare
    BY <1>10 DEF Compare, Changed, Stop, Goto, Turn
<1>11. CASE Wake
    BY <1>11 DEF Wake, Goto, Kept
<1>12. CASE Finally
    BY <1>12 DEF Finally, Goto, Kept
<1>13. CASE Halt
    BY <1>13 DEF Halt, Goto
<1>14. CASE Snapshot
    BY <1>14 DEF Snapshot, Turn
<1>15. CASE Raise
    BY <1>15 DEF Raise, Goto, Kept
<1>16. CASE Abandon
    BY <1>16 DEF Abandon, Goto, Kept
<1>17. CASE UNCHANGED vars
    BY <1>17 DEF vars
<1>18. QED
    BY <1>1, <1>2, <1>3, <1>4, <1>5, <1>6, <1>7, <1>8, <1>9, <1>10, <1>11, <1>12, <1>13, <1>14, <1>15, <1>16, <1>17 DEF Next, Step

\* A step keeps reads and pauses within their time, and the marks in place.
LEMMA ClocksStep ==
    IInv /\ [Next]_vars => Clocks'
<1> SUFFICES ASSUME IInv, [Next]_vars PROVE Clocks'
    OBVIOUS
<1> USE SuperviseAssumption DEF IInv, Sampling, Cycle, loop, Least, engine, TypeOK, Marks, Nothing, Clocks
<1>1. CASE Progress
    BY <1>1 DEF Progress, LoopStays, Serving
<1>2. CASE Arrive
    BY <1>2 DEF Arrive, LoopStays, Serving
<1>3. CASE Depart
    BY <1>3 DEF Depart, LoopStays, Serving
<1>4. CASE Wedge
    BY <1>4 DEF Wedge, LoopStays, Serving
<1>5. CASE ContainerExit
    BY <1>5 DEF ContainerExit
<1>6. CASE Tick
    BY <1>6 DEF Tick, Serving, Stuck
<1>7. CASE Look
    BY <1>7 DEF Look, Goto, Kept
<1>8. CASE Judge
    BY <1>8 DEF Judge, Stop, Goto, Kept
<1>9. CASE Unreadable
    BY <1>9 DEF Unreadable, Goto, Turn
<1>10. CASE Compare
    BY <1>10 DEF Compare, Changed, Stop, Goto, Turn
<1>11. CASE Wake
    BY <1>11 DEF Wake, Goto, Kept
<1>12. CASE Finally
    BY <1>12 DEF Finally, Goto, Kept
<1>13. CASE Halt
    BY <1>13 DEF Halt, Goto
<1>14. CASE Snapshot
    BY <1>14 DEF Snapshot, Turn
<1>15. CASE Raise
    BY <1>15 DEF Raise, Goto, Kept
<1>16. CASE Abandon
    BY <1>16 DEF Abandon, Goto, Kept
<1>17. CASE UNCHANGED vars
    BY <1>17 DEF vars
<1>18. QED
    BY <1>1, <1>2, <1>3, <1>4, <1>5, <1>6, <1>7, <1>8, <1>9, <1>10, <1>11, <1>12, <1>13, <1>14, <1>15, <1>16, <1>17 DEF Next, Step

\* A step keeps the loop's distance from its deadline.
LEMMA DueSoonStep ==
    IInv /\ [Next]_vars => DueSoon'
<1> SUFFICES ASSUME IInv, [Next]_vars PROVE DueSoon'
    OBVIOUS
<1> USE SuperviseAssumption DEF IInv, Sampling, Cycle, loop, Least, engine, TypeOK, Clocks, DueSoon
<1>1. CASE Progress
    BY <1>1 DEF Progress, LoopStays, Serving
<1>2. CASE Arrive
    BY <1>2 DEF Arrive, LoopStays, Serving
<1>3. CASE Depart
    BY <1>3 DEF Depart, LoopStays, Serving
<1>4. CASE Wedge
    BY <1>4 DEF Wedge, LoopStays, Serving
<1>5. CASE ContainerExit
    BY <1>5 DEF ContainerExit
<1>6. CASE Tick
    BY <1>6 DEF Tick, Serving, Stuck
<1>7. CASE Look
    BY <1>7 DEF Look, Goto, Kept
<1>8. CASE Judge
    BY <1>8 DEF Judge, Stop, Goto, Kept
<1>9. CASE Unreadable
    BY <1>9 DEF Unreadable, Goto, Turn
<1>10. CASE Compare
    BY <1>10 DEF Compare, Changed, Stop, Goto, Turn
<1>11. CASE Wake
    BY <1>11 DEF Wake, Goto, Kept
<1>12. CASE Finally
    BY <1>12 DEF Finally, Goto, Kept
<1>13. CASE Halt
    BY <1>13 DEF Halt, Goto
<1>14. CASE Snapshot
    BY <1>14 DEF Snapshot, Turn
<1>15. CASE Raise
    BY <1>15 DEF Raise, Goto, Kept
<1>16. CASE Abandon
    BY <1>16 DEF Abandon, Goto, Kept
<1>17. CASE UNCHANGED vars
    BY <1>17 DEF vars
<1>18. QED
    BY <1>1, <1>2, <1>3, <1>4, <1>5, <1>6, <1>7, <1>8, <1>9, <1>10, <1>11, <1>12, <1>13, <1>14, <1>15, <1>16, <1>17 DEF Next, Step

\* What a tick does to the clocks.
LEMMA TickClocks ==
    IInv /\ Tick =>
        /\ still' <= still + 1 /\ waited' = waited + 1
        /\ still \in Nat /\ still' \in Nat /\ waited \in Nat /\ gap \in Nat
<1> SUFFICES ASSUME IInv, Tick
             PROVE  /\ still' <= still + 1 /\ waited' = waited + 1
                    /\ still \in Nat /\ still' \in Nat
                    /\ waited \in Nat /\ gap \in Nat
    OBVIOUS
<1>1. still \in 0..Stall /\ waited \in 0..Cycle /\ gap \in 0..Gap
    BY DEF IInv, TypeOK
<1>2. waited' = waited + 1 /\ still' = Least(still + 1, Stall)
    BY DEF Tick
<1>3. QED
    BY <1>1, <1>2, SuperviseAssumption DEF Least

\* A step keeps what a kept sample says of a healthy engine.
LEMMA StarvedStep ==
    IInv /\ [Next]_vars => Starved'
<1> SUFFICES ASSUME IInv, [Next]_vars PROVE Starved'
    OBVIOUS
<1> USE SuperviseAssumption DEF IInv, Sampling, Cycle, loop, Least, engine, TypeOK, Marks, Nothing, Clocks, Starved
<1>1. CASE Progress
    BY <1>1 DEF Progress, LoopStays, Serving
<1>2. CASE Arrive
    BY <1>2 DEF Arrive, LoopStays, Serving
<1>3. CASE Depart
    BY <1>3 DEF Depart, LoopStays, Serving
<1>4. CASE Wedge
    BY <1>4 DEF Wedge, LoopStays, Serving
<1>5. CASE ContainerExit
    BY <1>5 DEF ContainerExit, Serving
<1>6. CASE Tick
    <2>1. still' <= still + 1 /\ waited' = waited + 1 /\ gap \in Nat
          /\ still \in Nat /\ still' \in Nat /\ waited \in Nat
        BY <1>6, TickClocks
    <2>2. CASE Serving /\ load = "busy"
        <3>1. gap' = gap + 1
            BY <1>6, <2>2 DEF Tick
        <3>2. QED
            BY <1>6, <2>1, <2>2, <3>1 DEF Tick, Serving
    <2>3. CASE ~(Serving /\ load = "busy")
        BY <1>6, <2>1, <2>3 DEF Tick, Serving
    <2>4. QED
        BY <2>2, <2>3
<1>7. CASE Look
    BY <1>7 DEF Look, Goto, Kept, Serving
<1>8. CASE Judge
    BY <1>8 DEF Judge, Stop, Goto, Kept, Serving
<1>9. CASE Unreadable
    BY <1>9 DEF Unreadable, Goto, Turn, Serving
<1>10. CASE Compare
    <2>1. CASE Changed
        <3>1. /\ pc = "answered" /\ pc' = "pause" /\ still' = 0 /\ last' = snap.load
              /\ left' = (IF left = "since" THEN "same" ELSE left)
              /\ load' = load /\ gap' = gap
            BY <1>10, <2>1 DEF Compare, Goto, Turn
        <3>2. left' = "same" /\ last' = "busy" => load = "busy"
            BY <3>1
        <3>3. still' <= gap'
            BY <3>1
        <3>4. QED
            BY <3>1, <3>2, <3>3
    <2>2. CASE ~Changed
        BY <1>10, <2>2 DEF Compare, Changed, Stop, Goto, Turn
    <2>3. QED
        BY <2>1, <2>2
<1>11. CASE Wake
    BY <1>11 DEF Wake, Goto, Kept, Serving
<1>12. CASE Finally
    BY <1>12 DEF Finally, Goto, Kept, Serving
<1>13. CASE Halt
    BY <1>13 DEF Halt, Goto, Serving
<1>14. CASE Snapshot
    BY <1>14 DEF Snapshot, Turn, Serving
<1>15. CASE Raise
    BY <1>15 DEF Raise, Goto, Kept, Serving
<1>16. CASE Abandon
    BY <1>16 DEF Abandon, Goto, Kept, Serving
<1>17. CASE UNCHANGED vars
    BY <1>17 DEF vars
<1>18. QED
    BY <1>1, <1>2, <1>3, <1>4, <1>5, <1>6, <1>7, <1>8, <1>9, <1>10, <1>11, <1>12, <1>13, <1>14, <1>15, <1>16, <1>17 DEF Next, Step

\* A step keeps what a kept sample says of a wedge.
LEMMA NoticedStep ==
    IInv /\ [Next]_vars => Noticed'
<1> SUFFICES ASSUME IInv, [Next]_vars PROVE Noticed'
    OBVIOUS
<1> USE SuperviseAssumption DEF IInv, Sampling, Cycle, loop, Least, engine, TypeOK, Marks, Nothing, Clocks, Noticed, Caught, Shown, Stale, Since
<1>1. CASE Progress
    BY <1>1 DEF Progress, LoopStays, Serving, Stuck
<1>2. CASE Arrive
    BY <1>2 DEF Arrive, LoopStays, Serving, Stuck
<1>3. CASE Depart
    BY <1>3 DEF Depart, LoopStays, Serving, Stuck
<1>4. CASE Wedge
    BY <1>4 DEF Wedge, LoopStays, Serving, Stuck
<1>5. CASE ContainerExit
    BY <1>5 DEF ContainerExit, Stuck
<1>6. CASE Tick
    BY <1>6 DEF Tick, Serving, Stuck
<1>7. CASE Look
    BY <1>7 DEF Look, Goto, Kept, Stuck
<1>8. CASE Judge
    BY <1>8 DEF Judge, Stop, Goto, Kept, Stuck
<1>9. CASE Unreadable
    BY <1>9 DEF Unreadable, Goto, Turn, Stuck
<1>10. CASE Compare
    BY <1>10 DEF Compare, Changed, Stop, Goto, Turn, Stuck
<1>11. CASE Wake
    BY <1>11 DEF Wake, Goto, Kept, Stuck
<1>12. CASE Finally
    BY <1>12 DEF Finally, Goto, Kept, Stuck
<1>13. CASE Halt
    BY <1>13 DEF Halt, Goto, Stuck
<1>14. CASE Snapshot
    BY <1>14 DEF Snapshot, Turn, Stuck
<1>15. CASE Raise
    BY <1>15 DEF Raise, Goto, Kept, Stuck
<1>16. CASE Abandon
    BY <1>16 DEF Abandon, Goto, Kept, Stuck
<1>17. CASE UNCHANGED vars
    BY <1>17 DEF vars, Stuck
<1>18. QED
    BY <1>1, <1>2, <1>3, <1>4, <1>5, <1>6, <1>7, <1>8, <1>9, <1>10, <1>11, <1>12, <1>13, <1>14, <1>15, <1>16, <1>17 DEF Next, Step

\* The inductive invariant of the loop.
THEOREM Inductive == Spec => []IInv
<1>1. IInv /\ [Next]_vars => IInv'
    BY TypeStep, ClocksStep, DueSoonStep, StarvedStep, NoticedStep DEF IInv
<1>2. QED
    BY InitInv, <1>1, PTL DEF Spec

\* The state of the loop and its clocks stay well typed and bounded.
THEOREM TypeCorrect == Spec => []TypeOK
<1>1. IInv => TypeOK
    BY DEF IInv
<1>2. QED
    BY Inductive, <1>1, PTL

\* No rank is supervised past its deadline by more than one cycle.
THEOREM OnTime == Spec => []DeadlineOnTime
<1>1. IInv => DeadlineOnTime
    BY SuperviseAssumption
       DEF IInv, TypeOK, Clocks, DueSoon, DeadlineOnTime, Sampling, Cycle
<1>2. QED
    BY Inductive, <1>1, PTL

\* A readable wedge is stopped within Stall, two cycles and a read.
THEOREM InTime == Spec => []WedgeInTime
<1>1. IInv => WedgeInTime
    BY SuperviseAssumption
       DEF IInv, TypeOK, Clocks, Noticed, WedgeInTime, Sampling, Cycle, Caught,
           Since
<1>2. QED
    BY Inductive, <1>1, PTL

\* The stall guard spares a healthy engine that serves the request it served.
THEOREM Spared == Spec => HealthyIsSpared
<1> DEFINE Spares == told' = "engine-stall" /\ told = "none"
                        => ~healthy \/ left # "same"
<1>1. IInv /\ [Next]_vars => [Spares]_vars
    <2> SUFFICES ASSUME IInv, Next, told' = "engine-stall", told = "none",
                        healthy, left = "same"
                 PROVE FALSE
        OBVIOUS
    <2>1. Compare
        BY DEF Next, Step, Progress, Arrive, Depart, Wedge, ContainerExit, LoopStays,
               Tick, Look, Judge, Stop, Kept, Unreadable, Wake, Finally, Halt,
               Snapshot, Raise, Abandon
    <2>2. still >= Stall /\ ~Changed
        BY <2>1 DEF Compare, Stop
    <2>3. pc = "answered" /\ waited <= ReadMax /\ last = "busy" /\ Stall # 0
        BY <2>1, <2>2 DEF Compare, Changed, IInv, Clocks, TypeOK
    <2>4. still <= Gap + waited
        BY <2>2, <2>3 DEF IInv, Starved, Changed, TypeOK, Sampling
    <2>5. QED
        BY <2>2, <2>3, <2>4, SuperviseAssumption DEF IInv, TypeOK
<1>2. QED
    BY Inductive, <1>1, PTL DEF Spec, HealthyIsSpared
=============================================================================
