----------------------------- MODULE LaunchProofs -----------------------------
(***************************************************************************)
(* Proofs about Launch, for any number of ranks and changes of the world,  *)
(* about Download, for every set of downloaders and pieces and any number  *)
(* of damaged pieces, about Profile, for every set of settings of 2 to 8   *)
(* or 16 nodes, about Fabric, for any number of ranks and any links and    *)
(* addresses, and about Patches.                                           *)
(***************************************************************************)
EXTENDS MCLaunch, Sequences, FiniteSetTheorems, WellFoundedInduction, TLAPS

-----------------------------------------------------------------------------
(* What the variables range over.                                          *)

\* The stages before anything is stopped or started.
Stages0 == {"read", "current", "first", "oldFirst", "second", "oldSecond", "again",
            "refused"}
\* The stages of a switch that has begun to stop and to start.
Acting == {"stop", "start", "ready", "unconfirmed", "install", "clean", "recover",
           "failed", "complete"}
\* What a rank's install has come to.
Answers == {"unsent", "read", "kept", "written", "unchanged", "failed"}

\* A profile, or none.
SomeText == Texts \cup {NoText}
Launches == [text : SomeText, allocator : {"none", "env", "own"}, lock : Nat]
Runs == [launch : Launches, source : Nat, weights : Nat]
Assets == [launch : Launches, source : Nat, weights : Nat, good : BOOLEAN]
Disks == [source : Nat, lock : Nat, weights : Nat,
          whole : BOOLEAN, memory : BOOLEAN, marker : {1, 2}]
Desks == [at : Stages0 \cup Acting, left : SUBSET Ranks, text : SomeText, launch : Launches,
          old : [Ranks -> Runs], new : SUBSET Ranks, stopped : SUBSET Ranks,
          declined : SUBSET (Ranks \X BOOLEAN)]

\* Every variable's type; there is always a rank to attend to.
TypeOK ==
    /\ disk \in [Ranks -> Disks]
    /\ path \in [Ranks -> SomeText] /\ opened \in [Ranks -> SomeText]
    /\ running \in [Ranks -> Runs]
    /\ desk \in Desks /\ desk.left # {}
    /\ seen \in [Looks -> [Ranks -> Assets]]
    /\ kept \in [Ranks -> SUBSET SomeText]
    /\ config \in [Ranks -> Answers]
    /\ changes \in Nat
    /\ late \subseteq Ranks \X (Looks \cup {"install"})

-----------------------------------------------------------------------------
(* The inductive invariant, in named parts.                                *)

\* The launch a look is about.
LaunchOf(look, r) == IF OfOld(look) THEN desk.old[r].launch ELSE desk.launch

\* What a look found on a rank is what is there, and is good.
StillSo(look, r) ==
    /\ seen[look][r].source = disk[r].source
    /\ seen[look][r].weights = disk[r].weights
    /\ Thaws(LaunchOf(look, r), r)
    /\ Preflight(r, LaunchOf(look, r).text, FALSE, OfOld(look))

\* A look that found a rank good found what is still on its disk, unless that changed.
LooksHold ==
    \A look \in Looks, r \in Ranks : seen[look][r].good =>
        /\ seen[look][r].launch = LaunchOf(look, r)
        /\ <<r, look>> \notin late => StillSo(look, r)

\* A look at every rank was good.
Passed(look) == \A r \in Ranks : seen[look][r].good

\* Which looks were good, at every stage of the coordinator.
LooksPassed ==
    /\ desk.at \in {"read", "current"} =>
          desk.left = Ranks /\ \A look \in Looks, r \in Ranks : seen[look][r] = Unseen
    /\ desk.at \in Looks => \A r \in Ranks \ desk.left : seen[desk.at][r].good
    /\ desk.at \in {"oldFirst", "second", "oldSecond", "again"} \cup Acting =>
          /\ Passed("first") /\ ~Differ(seen["first"])
    /\ desk.at \in {"second", "oldSecond", "again"} \cup Acting /\ Live =>
          Passed("oldFirst")
    /\ desk.at \in {"oldSecond", "again"} \cup Acting => Passed("second")
    /\ desk.at \in {"again"} \cup Acting /\ Live => Passed("oldSecond")
    /\ desk.at \in Acting => seen["first"] = seen["second"]
    /\ desk.at \in {"oldFirst", "oldSecond", "stop"} => Live

\* Who was started or stopped, by when.
Begun ==
    /\ desk.new # {} => desk.at \in Acting \ {"stop"}
    /\ desk.stopped # {} => desk.at \in Acting /\ Live
    /\ desk.declined # {} => desk.at \in {"recover", "failed"}
    /\ desk.at = "recover" => Live
    /\ desk.at # "read" => desk.launch.lock # 0

\* A rank that runs the new launch runs what is on its disk, unless that changed.
RunsItsDisk ==
    \A r \in desk.new :
        running[r].launch = desk.launch /\ <<r, "second">> \notin late =>
            /\ running[r].source = disk[r].source
            /\ running[r].weights = disk[r].weights

\* An install knows the text it replaces, and its own is the running profile.
Installs ==
    /\ desk.at \notin {"install", "complete"} => \A r \in Ranks : config[r] = "unsent"
    /\ desk.at = "install" =>
          \A r \in Ranks : running[r] # Idle => running[r].launch = desk.launch
    /\ \A r \in Ranks :
          /\ config[r] \in {"read", "kept"} =>
                /\ desk.text = desk.launch.text
                /\ opened[r] = path[r] \/ <<r, "install">> \in late
          /\ config[r] = "kept" => opened[r] \in kept[r]

\* The inductive invariant.
IInv == /\ TypeOK /\ LooksHold /\ LooksPassed /\ Begun /\ RunsItsDisk /\ Installs
        /\ RecoveryIsReady

-----------------------------------------------------------------------------
(* Operators.                                                              *)

\* Every set of naturals has a least member.
LEMMA LeastOf ==
    ASSUME NEW S \in SUBSET Nat, S # {}
    PROVE  \E x \in S : \A y \in S : x <= y
<1> DEFINE R == {ss \in Nat \X Nat : ss[1] < ss[2]}
<1>1. IsWellFoundedOn(R, Nat)
    BY NatLessThanWellFounded DEF OpToRel
<1>2. \A x, y \in Nat : <<y, x>> \in R <=> y < x
    OBVIOUS
<1> HIDE DEF R
<1>3. PICK x \in S : \A y \in S : ~(<<y, x>> \in R)
    BY <1>1, WFMin
<1>4. ASSUME NEW y \in S
      PROVE  x <= y
  <2>1. x \in Nat /\ y \in Nat /\ <<y, x>> \notin R
    BY <1>3
  <2>2. ~(y < x)
    BY <1>2, <2>1
  <2>3. QED
    BY <2>1, <2>2
<1>5. QED
    BY <1>4

\* The ranks are numbered from 0.
LEMMA RanksAre == /\ Ranks \in SUBSET Nat /\ 0 \in Ranks
                  /\ \E n \in Nat : Ranks = 0..n
<1>1. Cardinality(Ranks) \in Nat
    BY RanksAssumption, FS_CardinalityType
<1>2. QED
    BY <1>1, RanksAssumption

\* The rank attended to next is one of those left.
LEMMA MinIn ==
    ASSUME NEW S \in SUBSET Ranks, S # {}
    PROVE  Min(S) \in S
  BY RanksAre, LeastOf DEF Min

\* The rank started next is one of those left.
LEMMA MaxIn ==
    ASSUME NEW S \in SUBSET Ranks, S # {}
    PROVE  Max(S) \in S
<1>1. PICK n \in Nat : Ranks = 0..n
    BY RanksAre
<1> DEFINE T == {n - x : x \in S}
<1>2. \A x \in S : x \in Nat /\ n - x \in Nat
    BY <1>1
<1>3. T \in SUBSET Nat /\ T # {}
    BY <1>2
<1>4. PICK z \in T : \A y \in T : z <= y
    BY <1>3, LeastOf
<1>5. PICK x \in S : z = n - x
    BY <1>4
<1>6. \A y \in S : x >= y
    BY <1>2, <1>4, <1>5
<1>7. QED
    BY <1>5, <1>6 DEF Max

-----------------------------------------------------------------------------
(* What the world does.                                                    *)

\* Rank r's disk changes, and every look at it is late.
DiskMoves(r) ==
    /\ disk' \in [Ranks -> Disks]
    /\ \A s \in Ranks \ {r} : disk'[s] = disk[s]
    /\ late' = late \cup ({r} \X Stages(r))
    /\ UNCHANGED <<path, running>>

\* The text at its path changes, and an install that has read it is late.
PathMoves(r) ==
    /\ path' \in [Ranks -> SomeText]
    /\ \A s \in Ranks \ {r} : path'[s] = path[s]
    /\ late' = IF config[r] \in {"read", "kept"} THEN late \cup {<<r, "install">>} ELSE late
    /\ UNCHANGED <<disk, running>>

\* Its container exits.
RunMoves(r) ==
    /\ running' = [running EXCEPT ![r] = Idle]
    /\ UNCHANGED <<disk, path, late>>

\* A change of the world is one of these, and touches neither the record nor what was seen.
LEMMA WorldDoes ==
    ASSUME TypeOK, World
    PROVE  /\ UNCHANGED <<desk, seen, opened, kept, config>> /\ changes' \in Nat
           /\ \E r \in Ranks : DiskMoves(r) \/ PathMoves(r) \/ RunMoves(r)
<1> PICK r \in Ranks : \/ Checkout(r) \/ Relock(r) \/ Replace(r) \/ Exit(r)
                       \/ \E b \in BOOLEAN : Download(r, b) \/ Memory(r, b)
                       \/ \E text \in Texts : Edit(r, text)
    BY DEF World
<1>0. disk[r] \in Disks /\ disk \in [Ranks -> Disks] /\ changes \in Nat
      /\ path \in [Ranks -> SomeText]
    BY DEF TypeOK
<1> USE DEF DiskMoves, PathMoves, RunMoves, Change
<1>1. CASE Checkout(r)
    BY <1>0, <1>1 DEF Checkout, Disks
<1>2. CASE Relock(r)
    BY <1>0, <1>2 DEF Relock, Disks
<1>3. CASE Replace(r)
    BY <1>0, <1>3 DEF Replace, Disks
<1>4. CASE Exit(r)
  <2>1. changes' = changes + 1 /\ running' = [running EXCEPT ![r] = Idle]
        /\ UNCHANGED <<disk, path, desk, seen, opened, kept, config, late>>
    BY <1>4 DEF Exit
  <2>2. RunMoves(r) /\ changes' \in Nat
    BY <1>0, <2>1
  <2>3. QED
    BY <2>1, <2>2
<1>5. CASE \E b \in BOOLEAN : Download(r, b) \/ Memory(r, b)
    BY <1>0, <1>5 DEF Download, Memory, Disks
<1>6. CASE \E text \in Texts : Edit(r, text)
  <2>1. PICK text \in Texts : Edit(r, text)
    BY <1>6
  <2>2. changes' = changes + 1 /\ path' = [path EXCEPT ![r] = text]
        /\ late' = (IF config[r] \in {"read", "kept"} THEN late \cup {<<r, "install">>} ELSE late)
        /\ UNCHANGED <<disk, running, desk, seen, opened, kept, config>>
    BY <2>1 DEF Edit
  <2>3. PathMoves(r) /\ changes' \in Nat
    BY <1>0, <2>2 DEF SomeText
  <2>4. QED
    BY <2>2, <2>3
<1>7. QED
    BY <1>1, <1>2, <1>3, <1>4, <1>5, <1>6

-----------------------------------------------------------------------------
(* Types.                                                                  *)

\* What a visit of a rank makes of the coordinator's record.
LEMMA VisitedIs ==
    ASSUME TypeOK, NEW r \in desk.left, NEW now \in Desks, NEW next \in Stages0 \cup Acting,
           desk' = Visited(r, next, now)
    PROVE  /\ desk' \in Desks /\ desk'.left # {}
           /\ desk'.at = (IF desk.left = {r} THEN next ELSE now.at)
           /\ desk'.left = (IF desk.left = {r} THEN Ranks ELSE desk.left \ {r})
           /\ desk'.text = now.text /\ desk'.launch = now.launch /\ desk'.old = now.old
           /\ desk'.new = now.new /\ desk'.stopped = now.stopped
           /\ desk'.declined = now.declined
<1>1. desk.left \in SUBSET Ranks /\ desk.left # {} /\ Ranks # {}
    BY RanksAre DEF TypeOK, Desks
<1>2. QED
    BY <1>1, ZenonT(40) DEF Visited, Desks

\* What a new stage makes of it.
LEMMA ToIs ==
    ASSUME TypeOK, NEW stage \in Stages0 \cup Acting, To(stage)
    PROVE  /\ desk' \in Desks /\ desk'.left = Ranks /\ Ranks # {} /\ desk'.at = stage
           /\ desk'.text = desk.text /\ desk'.launch = desk.launch /\ desk'.old = desk.old
           /\ desk'.new = desk.new /\ desk'.stopped = desk.stopped
           /\ desk'.declined = desk.declined
<1>1. desk \in Desks /\ Ranks # {}
    BY RanksAre DEF TypeOK
<1>2. QED
    BY <1>1 DEF To, Desks

\* The rank a visit attends to.
LEMMA LeftIs ==
    ASSUME TypeOK
    PROVE  /\ desk.left \in SUBSET Ranks /\ desk.left # {}
           /\ Min(desk.left) \in desk.left /\ Min(desk.left) \in Ranks
           /\ Max(desk.left) \in desk.left /\ Max(desk.left) \in Ranks
<1>1. desk.left \in SUBSET Ranks /\ desk.left # {}
    BY DEF TypeOK, Desks
<1>2. QED
    BY <1>1, MinIn, MaxIn

\* What a rank is found to have, and what it is started from.
LEMMA AssetTyped ==
    ASSUME TypeOK, NEW r \in Ranks, NEW launch \in Launches, NEW recovery \in BOOLEAN
    PROVE  Asset(r, launch, recovery) \in Assets /\ Started(r, launch) \in Runs
<1>1. disk[r] \in Disks
    BY DEF TypeOK
<1>2. (Thaws(launch, r) /\ Preflight(r, launch.text, FALSE, recovery)) \in BOOLEAN
    BY DEF Thaws, Preflight
<1>3. QED
    BY <1>1, <1>2 DEF Asset, Started, Assets, Runs, Disks

\* Every step keeps the types.
LEMMA TypeStep == TypeOK /\ [Next]_vars => TypeOK'
<1> SUFFICES ASSUME TypeOK, [Next]_vars PROVE TypeOK'
    OBVIOUS
<1>0. /\ disk \in [Ranks -> Disks] /\ path \in [Ranks -> SomeText]
      /\ opened \in [Ranks -> SomeText] /\ running \in [Ranks -> Runs]
      /\ desk \in Desks /\ desk.left # {} /\ seen \in [Looks -> [Ranks -> Assets]]
      /\ kept \in [Ranks -> SUBSET SomeText] /\ config \in [Ranks -> Answers]
      /\ changes \in Nat /\ late \subseteq Ranks \X (Looks \cup {"install"}) /\ Idle \in Runs
    BY DEF TypeOK, Idle, Runs, NoLaunch, Launches, SomeText
<1>1. CASE \E text \in Texts, env \in BOOLEAN : Read(text, env)
  <2>1. PICK text \in Texts, env \in BOOLEAN : Read(text, env)
    BY <1>1
  <2>2. Freeze(text, env, 1) \in Launches
    BY DEF Freeze, Launches, SomeText
  <2>3. desk' \in Desks /\ desk'.left = desk.left
    BY <1>0, <2>1, <2>2 DEF Read, Desks, Stages0, SomeText
  <2>4. QED
    BY <1>0, <2>1, <2>3 DEF Read, TypeOK
<1>2. CASE Current
  <2>1. CASE To("refused")
    <3>1. /\ desk' \in Desks /\ desk'.left # {}
          /\ UNCHANGED <<disk, path, running, seen, opened, kept, config, changes, late>>
      BY <1>2, <2>1, ToIs DEF Current, Stages0
    <3>2. QED
      BY <3>1 DEF TypeOK
  <2>2. CASE desk' = [desk EXCEPT !.at = "first", !.old = running]
    <3>1. desk' \in Desks /\ desk'.left = desk.left
      BY <1>0, <2>2 DEF Desks, Stages0
    <3>2. QED
      BY <1>2, <3>1 DEF Current, TypeOK
  <2>3. QED
    BY <1>2, <2>1, <2>2 DEF Current, TypeOK
<1>3. CASE \E look \in Looks : Look(look)
  <2>1. PICK look \in Looks : Look(look)
    BY <1>3
  <2> DEFINE r == Min(desk.left)
             launch == LaunchOf(look, r)
  <2>2. r \in Ranks /\ r \in desk.left
    BY LeftIs
  <2>3. launch \in Launches /\ OfOld(look) \in BOOLEAN
    BY <1>0, <2>2 DEF LaunchOf, Desks, Runs, OfOld
  <2>4. Asset(r, launch, OfOld(look)) \in Assets
    BY <2>2, <2>3, AssetTyped
  <2>5. seen' = [seen EXCEPT ![look][r] = Asset(r, launch, OfOld(look))]
    BY <2>1 DEF Look, LaunchOf
  <2>6. seen' \in [Looks -> [Ranks -> Assets]]
    BY <1>0, <2>2, <2>4, <2>5
  <2>7. After(look) \in Stages0
    BY DEF After, Looks, Stages0
  <2>8. To("refused") \/ desk' = Visited(r, After(look), desk)
    BY <2>1 DEF Look
  <2>9. desk' \in Desks /\ desk'.left # {}
    <3>1. CASE To("refused")
      BY <3>1, ToIs DEF Stages0
    <3>2. CASE desk' = Visited(r, After(look), desk)
      BY <1>0, <2>2, <2>7, <3>2, VisitedIs
    <3>3. QED
      BY <2>8, <3>1, <3>2
  <2>10. QED
    BY <2>1, <2>6, <2>9 DEF Look, TypeOK
<1>4. CASE Again
  <2>1. PICK stage \in {"refused", "stop", "start"} : To(stage)
    BY <1>4 DEF Again
  <2>2. QED
    BY <1>4, <2>1, ToIs DEF Again, Stages0, Acting, TypeOK
<1>5. CASE Stop
  <2> DEFINE r == Min(desk.left)
             now == [desk EXCEPT !.stopped = @ \cup {r}]
  <2>1. r \in Ranks /\ r \in desk.left
    BY LeftIs
  <2>2. now \in Desks
    BY <1>0, <2>1 DEF Desks
  <2>3. desk' = Visited(r, "start", now) /\ running' = [running EXCEPT ![r] = Idle]
    BY <1>5 DEF Stop
  <2>4. desk' \in Desks /\ desk'.left # {}
    BY <2>1, <2>2, <2>3, VisitedIs DEF Acting
  <2>5. QED
    BY <1>5, <1>0, <2>1, <2>3, <2>4 DEF Stop, TypeOK
<1>6. CASE StartNew
  <2> DEFINE r == Max(desk.left)
             now == [desk EXCEPT !.new = @ \cup {r}]
  <2>1. r \in Ranks /\ r \in desk.left /\ desk.launch \in Launches
    BY <1>0, LeftIs DEF Desks
  <2>2. now \in Desks
    BY <1>0, <2>1 DEF Desks
  <2>3. \/ /\ desk' = Visited(r, "ready", now)
           /\ running' = [running EXCEPT ![r] = Started(r, desk.launch)]
        \/ To("clean") /\ UNCHANGED running
    BY <1>6 DEF StartNew
  <2>4. desk' \in Desks /\ desk'.left # {}
    <3>1. CASE To("clean")
      BY <3>1, ToIs DEF Acting
    <3>2. CASE desk' = Visited(r, "ready", now)
      BY <2>1, <2>2, <3>2, VisitedIs DEF Acting
    <3>3. QED
      BY <2>3, <3>1, <3>2
  <2>5. Started(r, desk.launch) \in Runs
    BY <2>1, AssetTyped
  <2>6. QED
    BY <1>6, <1>0, <2>1, <2>3, <2>4, <2>5 DEF StartNew, TypeOK
<1>7. CASE \E v \in {"install", "clean", "unconfirmed"} : Ready(v)
  <2>1. PICK v \in {"install", "clean", "unconfirmed"} : Ready(v)
    BY <1>7
  <2>2. QED
    BY <2>1, ToIs DEF Ready, Acting, TypeOK
<1>8. CASE Clean
  <2>1. PICK stage \in {"failed", "recover"} : To(stage)
    BY <1>8 DEF Clean
  <2>2. running' \in [Ranks -> Runs]
    BY <1>8, <1>0 DEF Clean
  <2>3. QED
    BY <1>8, <2>1, <2>2, ToIs DEF Clean, Acting, TypeOK
<1>9. CASE Recover
  <2> DEFINE r == Max(desk.left)
             old == desk.old[r].launch
             declining == [desk EXCEPT !.declined = @ \cup {<<r, disk[r].memory>>}]
  <2>1. r \in Ranks /\ r \in desk.left /\ disk[r] \in Disks
    BY <1>0, LeftIs
  <2>2. declining \in Desks /\ desk \in Desks /\ old \in Launches
    <3>1. disk[r].memory \in BOOLEAN
      BY <2>1 DEF Disks
    <3>2. desk.old[r] \in Runs
      BY <1>0, <2>1 DEF Desks
    <3>3. old \in Launches
      BY <3>2 DEF Runs
    <3>4. declining \in Desks
      <4>1. desk.declined \cup {<<r, disk[r].memory>>} \in SUBSET (Ranks \X BOOLEAN)
        BY <1>0, <2>1, <3>1 DEF Desks
      <4>2. QED
        BY <1>0, <4>1 DEF Desks
    <3>5. QED
      BY <1>0, <3>3, <3>4
  <2>3. /\ desk' = Visited(r, "failed", desk) \/ desk' = Visited(r, "failed", declining)
        /\ \/ running' = [running EXCEPT ![r] = Started(r, old)]
           \/ running' = [running EXCEPT ![r] = Idle]
    BY <1>9 DEF Recover
  <2>4. desk' \in Desks /\ desk'.left # {}
    <3>1. CASE desk' = Visited(r, "failed", desk)
      BY <2>1, <2>2, <3>1, VisitedIs DEF Acting
    <3>2. CASE desk' = Visited(r, "failed", declining)
      BY <2>1, <2>2, <3>2, VisitedIs DEF Acting
    <3>3. QED
      BY <2>3, <3>1, <3>2
  <2>5. Started(r, old) \in Runs
    BY <2>1, <2>2, AssetTyped
  <2>6. QED
    BY <1>9, <1>0, <2>1, <2>3, <2>4, <2>5 DEF Recover, TypeOK
<1>10. CASE \E text \in Texts : Resume(text)
  <2>1. PICK text \in Texts :
           desk' = [desk EXCEPT !.at = "install", !.text = text, !.left = Ranks]
    BY <1>10 DEF Resume
  <2>2. desk' \in Desks /\ desk'.left # {}
    BY <1>0, <2>1, RanksAre DEF Desks, Acting, SomeText
  <2>3. QED
    BY <1>10, <2>2 DEF Resume, TypeOK
<1>11. CASE InstallRead
  <2> DEFINE r == Min(desk.left)
  <2>1. r \in Ranks /\ r \in desk.left
    BY LeftIs
  <2>2. ASSUME NEW answer \in Answers, Answer(r, answer)
        PROVE  desk' \in Desks /\ desk'.left # {} /\ config' \in [Ranks -> Answers]
    <3>1. config' \in [Ranks -> Answers]
      BY <1>0, <2>1, <2>2 DEF Answer
    <3>2. CASE To("complete")
      BY <3>1, <3>2, ToIs DEF Acting
    <3>3. CASE desk' = Visited(r, "complete", desk)
      BY <1>0, <2>1, <3>1, <3>3, VisitedIs DEF Acting
    <3>4. QED
      BY <2>2, <3>2, <3>3 DEF Answer
  <2>3. /\ UNCHANGED <<disk, path, running, seen, kept, changes, late>>
        /\ \/ Answer(r, "failed") /\ UNCHANGED opened
           \/ Answer(r, "unchanged") /\ UNCHANGED opened
           \/ /\ opened' = [opened EXCEPT ![r] = path[r]]
              /\ config' = [config EXCEPT ![r] = "read"] /\ UNCHANGED desk
    BY <1>11 DEF InstallRead
  <2>4. QED
    BY <1>0, <2>1, <2>2, <2>3 DEF Answers, TypeOK
<1>12. CASE \E clash \in BOOLEAN : InstallBackup(clash)
  <2> DEFINE r == Min(desk.left)
  <2>1. r \in Ranks /\ r \in desk.left
    BY LeftIs
  <2>2. ASSUME NEW answer \in Answers, Answer(r, answer)
        PROVE  desk' \in Desks /\ desk'.left # {} /\ config' \in [Ranks -> Answers]
    <3>1. config' \in [Ranks -> Answers]
      BY <1>0, <2>1, <2>2 DEF Answer
    <3>2. CASE To("complete")
      BY <3>1, <3>2, ToIs DEF Acting
    <3>3. CASE desk' = Visited(r, "complete", desk)
      BY <1>0, <2>1, <3>1, <3>3, VisitedIs DEF Acting
    <3>4. QED
      BY <2>2, <3>2, <3>3 DEF Answer
  <2>3. /\ UNCHANGED <<disk, path, running, seen, opened, changes, late>>
        /\ \/ Answer(r, "failed") /\ UNCHANGED kept
           \/ /\ kept' = [kept EXCEPT ![r] = @ \cup {opened[r]}]
              /\ config' = [config EXCEPT ![r] = "kept"] /\ UNCHANGED desk
    BY <1>12 DEF InstallBackup
  <2>4. QED
    BY <1>0, <2>1, <2>2, <2>3 DEF Answers, TypeOK
<1>13. CASE InstallReplace
  <2> DEFINE r == Min(desk.left)
  <2>1. r \in Ranks /\ r \in desk.left
    BY LeftIs
  <2>2. ASSUME NEW answer \in Answers, Answer(r, answer)
        PROVE  desk' \in Desks /\ desk'.left # {} /\ config' \in [Ranks -> Answers]
    <3>1. config' \in [Ranks -> Answers]
      BY <1>0, <2>1, <2>2 DEF Answer
    <3>2. CASE To("complete")
      BY <3>1, <3>2, ToIs DEF Acting
    <3>3. CASE desk' = Visited(r, "complete", desk)
      BY <1>0, <2>1, <3>1, <3>3, VisitedIs DEF Acting
    <3>4. QED
      BY <2>2, <3>2, <3>3 DEF Answer
  <2>3. /\ UNCHANGED <<disk, running, seen, opened, kept, changes, late>>
        /\ path' = [path EXCEPT ![r] = desk.text] /\ Answer(r, "written")
    BY <1>13 DEF InstallReplace
  <2>4. desk.text \in SomeText
    BY <1>0 DEF Desks
  <2>5. QED
    BY <1>0, <2>1, <2>2, <2>3, <2>4 DEF Answers, TypeOK
<1>14. CASE World
  <2>1. /\ UNCHANGED <<desk, seen, opened, kept, config>> /\ changes' \in Nat
        /\ \E r \in Ranks : DiskMoves(r) \/ PathMoves(r) \/ RunMoves(r)
    BY <1>14, WorldDoes
  <2>2. PICK r \in Ranks : DiskMoves(r) \/ PathMoves(r) \/ RunMoves(r)
    BY <2>1
  <2>3. CASE DiskMoves(r)
    BY <1>0, <2>1, <2>3 DEF TypeOK, DiskMoves, Stages
  <2>4. CASE PathMoves(r)
    BY <1>0, <2>1, <2>4 DEF TypeOK, PathMoves
  <2>5. CASE RunMoves(r)
    BY <1>0, <2>1, <2>5 DEF TypeOK, RunMoves
  <2>6. QED
    BY <2>2, <2>3, <2>4, <2>5
<1>15. CASE UNCHANGED vars
    BY <1>15 DEF vars, TypeOK
<1>16. QED
    BY <1>1, <1>2, <1>3, <1>4, <1>5, <1>6, <1>7, <1>8, <1>9, <1>10, <1>11,
       <1>12, <1>13, <1>14, <1>15 DEF Next, Coordinate

-----------------------------------------------------------------------------
(* What a step does to the record and to the ranks.                        *)

\* Nothing is started, stopped or declined, and the ranks are left as they are.
Quiet == /\ desk'.new = desk.new /\ desk'.stopped = desk.stopped
         /\ desk'.declined = desk.declined
         /\ UNCHANGED <<disk, path, running, opened, kept, config, late>>
\* The launches of the record stay.
Pinned == desk'.launch = desk.launch /\ desk'.old = desk.old

\* The text is read, and a launch frozen from it.
ReadDoes ==
    /\ desk.at = "read" /\ desk'.at = "current" /\ desk'.left = desk.left
    /\ desk'.launch.lock # 0 /\ Quiet /\ seen' = seen

\* The old launch is what runs.
CurrentDoes ==
    /\ desk.at = "current" /\ desk'.launch = desk.launch /\ Quiet /\ seen' = seen
    /\ desk'.at = "refused" \/ (desk'.at = "first" /\ desk'.left = desk.left)

\* A rank is looked at: refused, the last rank of the look, or one more.
LookDoes(look, r) ==
    /\ look \in Looks /\ desk.at = look /\ r \in desk.left /\ Pinned /\ Quiet
    /\ seen' = [seen EXCEPT ![look][r] = Asset(r, LaunchOf(look, r), OfOld(look))]
    /\ \/ desk'.at = "refused"
       \/ /\ seen'[look][r].good /\ desk.left = {r}
          /\ look = "first" => ~Differ(seen'[look])
          /\ desk'.at = After(look) /\ desk'.left = Ranks
       \/ /\ seen'[look][r].good /\ desk.left # {r}
          /\ desk'.at = look /\ desk'.left = desk.left \ {r}

\* Both looks agree, or the switch is refused.
AgainDoes ==
    /\ desk.at = "again" /\ Pinned /\ Quiet /\ seen' = seen
    /\ \/ desk'.at = "refused"
       \/ /\ desk'.at \in {"stop", "start"} /\ seen["first"] = seen["second"]
          /\ desk'.at = "stop" => Live

\* A switch that has begun to stop and to start goes on to its end.
ActDoes ==
    /\ desk.at \in Acting /\ desk'.at \in Acting /\ Pinned
    /\ UNCHANGED <<disk, seen, late>>
    /\ desk'.at = "stop" => desk.at = "stop"
    /\ desk.at = "stop" => desk'.new = desk.new
    /\ desk'.stopped = desk.stopped \/ desk.at = "stop"
    /\ desk'.declined = desk.declined \/ desk.at = "recover"
    /\ desk.at \in {"recover", "failed"} => desk'.at \in {"recover", "failed"}
    /\ desk'.at = "recover" => desk.at = "recover" \/ desk.stopped # {}
\* The new containers are those of the step before, gone, or started from the disk.
ActRuns ==
    \A r \in desk'.new :
        \/ r \in desk.new /\ running'[r] = running[r]
        \/ running'[r] = Idle
        \/ running'[r].source = disk[r].source /\ running'[r].weights = disk[r].weights

\* The actions of a switch that has begun.
Act == \/ Stop \/ StartNew
       \/ \E v \in {"install", "clean", "unconfirmed"} : Ready(v)
       \/ Clean \/ Recover \/ \E text \in Texts : Resume(text)
       \/ InstallRead \/ (\E clash \in BOOLEAN : InstallBackup(clash)) \/ InstallReplace

\* Reading the profile text.
LEMMA ReadIs ==
    ASSUME TypeOK, NEW text \in Texts, NEW env \in BOOLEAN, Read(text, env)
    PROVE  ReadDoes
<1>1. desk \in Desks
    BY DEF TypeOK
<1>2. desk' = [desk EXCEPT !.at = "current", !.text = text, !.launch = Freeze(text, env, 1)]
    BY DEF Read
<1>3. Freeze(text, env, 1).lock = 1
    BY DEF Freeze
<1>4. QED
    BY <1>1, <1>2, <1>3 DEF Read, ReadDoes, Quiet, Desks

\* Asking every rank what is running.
LEMMA CurrentIs ==
    ASSUME TypeOK, Current
    PROVE  CurrentDoes
<1>1. desk \in Desks
    BY DEF TypeOK
<1>2. To("refused") \/ desk' = [desk EXCEPT !.at = "first", !.old = running]
    BY DEF Current
<1>3. QED
    BY <1>1, <1>2 DEF Current, CurrentDoes, To, Quiet, Desks

\* A look at one rank.
LEMMA LookIs ==
    ASSUME TypeOK, NEW look \in Looks, Look(look), NEW r, r = Min(desk.left)
    PROVE  LookDoes(look, r)
<1> DEFINE asset == Asset(r, LaunchOf(look, r), OfOld(look))
<1>1. desk \in Desks /\ r \in Ranks /\ r \in desk.left /\ seen \in [Looks -> [Ranks -> Assets]]
    BY LeftIs DEF TypeOK
<1>2. /\ desk.at = look /\ seen' = [seen EXCEPT ![look][r] = asset]
      /\ UNCHANGED <<disk, path, running, opened, kept, config, changes, late>>
    BY DEF Look, LaunchOf
<1>3. seen'[look][r] = asset
    BY <1>1, <1>2
<1>4. \/ To("refused")
      \/ /\ asset.good /\ desk' = Visited(r, After(look), desk)
         /\ desk.left = {r} /\ look \in {"first", "oldFirst"} => ~Differ(seen'[look])
    BY DEF Look, LaunchOf
<1>5. CASE To("refused")
  <2>1. desk'.at = "refused" /\ Pinned /\ Quiet
    BY <1>1, <1>2, <1>5, ToIs DEF Stages0, Pinned, Quiet
  <2>2. QED
    BY <1>1, <1>2, <2>1 DEF LookDoes
<1>6. CASE /\ asset.good /\ desk' = Visited(r, After(look), desk)
           /\ desk.left = {r} /\ look \in {"first", "oldFirst"} => ~Differ(seen'[look])
  <2>1. After(look) \in Stages0
    BY DEF After, Looks, Stages0
  <2>2. /\ Pinned /\ Quiet
        /\ desk'.at = (IF desk.left = {r} THEN After(look) ELSE desk.at)
        /\ desk'.left = (IF desk.left = {r} THEN Ranks ELSE desk.left \ {r})
    BY ZenonT(40), <1>1, <1>2, <1>6, <2>1, VisitedIs DEF Pinned, Quiet
  <2>3. seen'[look][r].good
    BY <1>3, <1>6
  <2>4. /\ seen'[look][r].good /\ look = "first" /\ desk.left = {r} => ~Differ(seen'[look])
        /\ seen' = [seen EXCEPT ![look][r] = Asset(r, LaunchOf(look, r), OfOld(look))]
    BY <1>2, <1>6, <2>3
  <2> HIDE DEF asset
  <2>5. QED
    BY <1>1, <1>2, <2>2, <2>3, <2>4 DEF LookDoes
<1>7. QED
    BY <1>4, <1>5, <1>6

\* Comparing the two looks.
LEMMA AgainIs ==
    ASSUME TypeOK, Again
    PROVE  AgainDoes
<1>1. PICK stage \in {"refused", "stop", "start"} :
        /\ To(stage)
        /\ stage # "refused" => seen["first"] = seen["second"]
        /\ stage = "stop" => Live
    BY DEF Again, Unchanged
<1>2. desk'.at = stage /\ Pinned /\ Quiet
    BY <1>1, ToIs DEF Again, Stages0, Acting, Pinned, Quiet
<1>3. QED
    BY <1>1, <1>2 DEF Again, AgainDoes

\* An answer of an install leads to the next rank or to the end.
LEMMA AnswerIs ==
    ASSUME TypeOK, desk.at = "install", NEW answer \in Answers, Answer(Min(desk.left), answer)
    PROVE  /\ config' = [config EXCEPT ![Min(desk.left)] = answer]
           /\ desk'.at \in {"install", "complete"} /\ desk'.text = desk.text
           /\ desk'.new = desk.new /\ Pinned
           /\ desk'.stopped = desk.stopped /\ desk'.declined = desk.declined
<1> DEFINE r == Min(desk.left)
<1>1. r \in Ranks /\ r \in desk.left /\ desk \in Desks
    BY LeftIs DEF TypeOK
<1>2. CASE To("complete")
    BY <1>2, ToIs DEF Answer, Acting, Pinned
<1>3. CASE desk' = Visited(r, "complete", desk)
  <2>1. "complete" \in Stages0 \cup Acting
    BY DEF Acting
  <2>2. /\ desk'.at = (IF desk.left = {r} THEN "complete" ELSE desk.at) /\ Pinned
        /\ desk'.text = desk.text /\ desk'.new = desk.new
        /\ desk'.stopped = desk.stopped /\ desk'.declined = desk.declined
    BY <1>1, <1>3, <2>1, VisitedIs DEF Pinned
  <2>3. QED
    BY <2>2, <1>3 DEF Answer
<1>4. QED
    BY <1>2, <1>3 DEF Answer

\* Every action of a begun switch has these effects.
LEMMA ActIs == TypeOK /\ Act => ActDoes /\ ActRuns
<1> SUFFICES ASSUME TypeOK, Act PROVE ActDoes /\ ActRuns
    OBVIOUS
<1>0. /\ disk \in [Ranks -> Disks] /\ running \in [Ranks -> Runs] /\ desk \in Desks
    BY DEF TypeOK
<1>1. CASE Stop
  <2> DEFINE r == Min(desk.left)
             now == [desk EXCEPT !.stopped = @ \cup {r}]
  <2>1. r \in Ranks /\ r \in desk.left /\ now \in Desks
    BY <1>0, LeftIs DEF Desks
  <2>2. desk' = Visited(r, "start", now) /\ desk.at = "stop" /\ UNCHANGED <<disk, seen, late>>
    BY <1>1 DEF Stop
  <2>3. now.at = "stop" /\ now.new = desk.new /\ now.launch = desk.launch
        /\ now.old = desk.old /\ now.declined = desk.declined
    BY <1>0, <2>2 DEF Desks
  <2>4. /\ desk'.at \in {"stop", "start"} /\ desk'.new = desk.new /\ Pinned
        /\ desk'.declined = desk.declined
    <3>1. "start" \in Stages0 \cup Acting
      BY DEF Acting
    <3>2. /\ desk'.at = (IF desk.left = {r} THEN "start" ELSE now.at) /\ desk'.new = now.new
          /\ desk'.launch = now.launch /\ desk'.old = now.old /\ desk'.declined = now.declined
      BY <2>1, <2>2, <3>1, VisitedIs
    <3>3. QED
      BY <2>3, <3>2 DEF Pinned
  <2>5. ActDoes
    BY <2>2, <2>4 DEF ActDoes, Acting
  <2>6. \A s \in Ranks : running'[s] = running[s] \/ running'[s] = Idle
    BY <1>1, <1>0 DEF Stop
  <2>7. QED
    BY <1>0, <2>4, <2>5, <2>6 DEF ActRuns, Desks
<1>2. CASE StartNew
  <2> DEFINE r == Max(desk.left)
             now == [desk EXCEPT !.new = @ \cup {r}]
  <2>1. r \in Ranks /\ r \in desk.left /\ now \in Desks
    BY <1>0, LeftIs DEF Desks
  <2>2. now.at = desk.at /\ now.launch = desk.launch /\ now.new = desk.new \cup {r}
        /\ now.old = desk.old /\ now.stopped = desk.stopped /\ now.declined = desk.declined
    BY <1>0 DEF Desks
  <2>3. desk.at = "start" /\ UNCHANGED <<disk, seen, late>>
    BY <1>2 DEF StartNew
  <2>4. CASE To("clean") /\ UNCHANGED running
    <3>1. desk'.at = "clean" /\ desk'.new = desk.new /\ Pinned
          /\ desk'.stopped = desk.stopped /\ desk'.declined = desk.declined
      BY <2>4, ToIs DEF Pinned, Acting
    <3>2. QED
      BY <2>3, <2>4, <3>1 DEF ActDoes, ActRuns, Acting
  <2>5. CASE /\ desk' = Visited(r, "ready", now)
             /\ running' = [running EXCEPT ![r] = Started(r, desk.launch)]
    <3>1. desk'.at \in {"start", "ready"} /\ desk'.new = desk.new \cup {r} /\ Pinned
          /\ desk'.stopped = desk.stopped /\ desk'.declined = desk.declined
      <4>1. "ready" \in Stages0 \cup Acting
        BY DEF Acting
      <4>2. /\ desk'.at = (IF desk.left = {r} THEN "ready" ELSE now.at)
            /\ desk'.new = now.new /\ desk'.launch = now.launch /\ desk'.old = now.old
            /\ desk'.stopped = now.stopped /\ desk'.declined = now.declined
        BY <2>1, <2>5, <4>1, VisitedIs
      <4>3. QED
        BY <2>2, <2>3, <4>2 DEF Pinned
    <3>2. ActDoes
      BY <2>3, <3>1 DEF ActDoes, Acting
    <3>3. /\ running'[r].source = disk[r].source /\ running'[r].weights = disk[r].weights
          /\ \A s \in Ranks \ {r} : running'[s] = running[s]
      BY <1>0, <2>1, <2>5 DEF Started
    <3>4. QED
      BY <1>0, <3>1, <3>2, <3>3 DEF ActRuns, Desks
  <2>6. QED
    BY <1>2, <2>4, <2>5 DEF StartNew
<1>3. CASE \E v \in {"install", "clean", "unconfirmed"} : Ready(v)
  <2>1. PICK v \in {"install", "clean", "unconfirmed"} : Ready(v)
    BY <1>3
  <2>2. /\ desk.at = "ready" /\ UNCHANGED <<disk, running, seen, late>>
        /\ desk'.at = v /\ desk'.new = desk.new /\ Pinned
        /\ desk'.stopped = desk.stopped /\ desk'.declined = desk.declined
    BY <2>1, ToIs DEF Ready, Pinned, Acting
  <2>3. QED
    BY <2>2 DEF ActDoes, ActRuns, Acting
<1>4. CASE Clean
  <2>1. PICK stage \in {"failed", "recover"} :
           To(stage) /\ (stage = "recover" => desk.stopped # {})
    BY <1>4 DEF Clean
  <2>2. /\ desk.at = "clean" /\ UNCHANGED <<disk, seen, late>>
        /\ desk'.at = stage /\ desk'.new = desk.new /\ Pinned
        /\ desk'.stopped = desk.stopped /\ desk'.declined = desk.declined
    BY <1>4, <2>1, ToIs DEF Clean, Pinned, Acting
  <2>3. \A s \in desk.new : running'[s] = Idle
    BY <1>4, <1>0 DEF Clean, Desks
  <2>4. QED
    BY <2>1, <2>2, <2>3 DEF ActDoes, ActRuns, Acting
<1>5. CASE Recover
  <2> DEFINE r == Max(desk.left)
             old == desk.old[r].launch
             declining == [desk EXCEPT !.declined = @ \cup {<<r, disk[r].memory>>}]
  <2>1. r \in Ranks /\ r \in desk.left /\ disk[r] \in Disks
    BY <1>0, LeftIs
  <2>2. <<r, disk[r].memory>> \in Ranks \X BOOLEAN
    BY <2>1 DEF Disks
  <2>3. declining \in Desks /\ desk \in Desks
    <3>1. desk.declined \cup {<<r, disk[r].memory>>} \in SUBSET (Ranks \X BOOLEAN)
      BY <1>0, <2>2 DEF Desks
    <3>2. QED
      BY <1>0, <3>1 DEF Desks
  <2>4. declining.at = desk.at /\ declining.launch = desk.launch /\ declining.new = desk.new
        /\ declining.old = desk.old /\ declining.stopped = desk.stopped
    BY <1>0 DEF Desks
  <2>5. desk.at = "recover" /\ UNCHANGED <<disk, seen, late>>
    BY <1>5 DEF Recover
  <2>6. /\ desk' = Visited(r, "failed", desk) \/ desk' = Visited(r, "failed", declining)
        /\ \/ running' = [running EXCEPT ![r] = Started(r, old)]
           \/ running' = [running EXCEPT ![r] = Idle]
    BY <1>5 DEF Recover
  <2>7. "failed" \in Stages0 \cup Acting
    BY DEF Acting
  <2>8. /\ desk'.at \in {"recover", "failed"} /\ desk'.new = desk.new /\ Pinned
        /\ desk'.stopped = desk.stopped
    <3>1. CASE desk' = Visited(r, "failed", desk)
      <4>1. /\ desk'.at = (IF desk.left = {r} THEN "failed" ELSE desk.at)
            /\ desk'.new = desk.new /\ desk'.launch = desk.launch /\ desk'.old = desk.old
            /\ desk'.stopped = desk.stopped
        BY <2>1, <2>3, <2>7, <3>1, VisitedIs
      <4>2. QED
        BY <2>4, <2>5, <4>1 DEF Pinned
    <3>2. CASE desk' = Visited(r, "failed", declining)
      <4>1. /\ desk'.at = (IF desk.left = {r} THEN "failed" ELSE declining.at)
            /\ desk'.new = declining.new /\ desk'.launch = declining.launch
            /\ desk'.old = declining.old
            /\ desk'.stopped = declining.stopped
        BY <2>1, <2>3, <2>7, <3>2, VisitedIs
      <4>2. QED
        BY <2>4, <2>5, <4>1 DEF Pinned
    <3>3. QED
      BY <2>6, <3>1, <3>2
  <2>9. ActDoes
    BY <2>5, <2>8 DEF ActDoes, Acting
  <2>10. /\ \A s \in Ranks \ {r} : running'[s] = running[s]
        /\ \/ running'[r] = Idle
           \/ running'[r].source = disk[r].source /\ running'[r].weights = disk[r].weights
    BY <1>0, <2>1, <2>6 DEF Started
  <2>11. QED
    BY <1>0, <2>8, <2>9, <2>10 DEF ActRuns, Desks
<1>6. CASE \E text \in Texts : Resume(text)
  <2>1. PICK text \in Texts :
           desk' = [desk EXCEPT !.at = "install", !.text = text, !.left = Ranks]
    BY <1>6 DEF Resume
  <2>2. /\ desk'.at = "install" /\ desk'.new = desk.new /\ Pinned
        /\ desk'.stopped = desk.stopped /\ desk'.declined = desk.declined
    BY <1>0, <2>1 DEF Desks, Pinned
  <2>3. desk.at = "unconfirmed" /\ UNCHANGED <<disk, running, seen, late>>
    BY <1>6 DEF Resume
  <2>4. QED
    BY <2>2, <2>3 DEF ActDoes, ActRuns, Acting
<1>7. CASE InstallRead
  <2>1. desk.at = "install" /\ UNCHANGED <<disk, running, seen, late>>
    BY <1>7 DEF InstallRead
  <2>2. UNCHANGED desk \/ \E answer \in Answers : Answer(Min(desk.left), answer)
    BY <1>7 DEF InstallRead, Answers
  <2>3. /\ desk'.at \in {"install", "complete"} /\ desk'.new = desk.new /\ Pinned
        /\ desk'.stopped = desk.stopped /\ desk'.declined = desk.declined
    BY <2>1, <2>2, AnswerIs DEF Pinned
  <2>4. QED
    BY <2>1, <2>3 DEF ActDoes, ActRuns, Acting
<1>8. CASE \E clash \in BOOLEAN : InstallBackup(clash)
  <2>1. desk.at = "install" /\ UNCHANGED <<disk, running, seen, late>>
    BY <1>8 DEF InstallBackup
  <2>2. UNCHANGED desk \/ \E answer \in Answers : Answer(Min(desk.left), answer)
    BY <1>8 DEF InstallBackup, Answers
  <2>3. /\ desk'.at \in {"install", "complete"} /\ desk'.new = desk.new /\ Pinned
        /\ desk'.stopped = desk.stopped /\ desk'.declined = desk.declined
    BY <2>1, <2>2, AnswerIs DEF Pinned
  <2>4. QED
    BY <2>1, <2>3 DEF ActDoes, ActRuns, Acting
<1>9. CASE InstallReplace
  <2>1. desk.at = "install" /\ UNCHANGED <<disk, running, seen, late>>
    BY <1>9 DEF InstallReplace
  <2>2. UNCHANGED desk \/ \E answer \in Answers : Answer(Min(desk.left), answer)
    BY <1>9 DEF InstallReplace, Answers
  <2>3. /\ desk'.at \in {"install", "complete"} /\ desk'.new = desk.new /\ Pinned
        /\ desk'.stopped = desk.stopped /\ desk'.declined = desk.declined
    BY <2>1, <2>2, AnswerIs DEF Pinned
  <2>4. QED
    BY <2>1, <2>3 DEF ActDoes, ActRuns, Acting
<1>10. QED
    BY <1>1, <1>2, <1>3, <1>4, <1>5, <1>6, <1>7, <1>8, <1>9 DEF Act

\* Every step is one of these.
LEMMA StepDoes ==
    ASSUME TypeOK, [Next]_vars
    PROVE  \/ ReadDoes \/ CurrentDoes
           \/ \E look \in Looks : LookDoes(look, Min(desk.left))
           \/ AgainDoes \/ (Act /\ ActDoes /\ ActRuns) \/ World \/ UNCHANGED vars
<1>1. ASSUME NEW text \in Texts, NEW env \in BOOLEAN, Read(text, env) PROVE ReadDoes
    BY <1>1, ReadIs
<1>2. ASSUME NEW look \in Looks, Look(look) PROVE LookDoes(look, Min(desk.left))
    BY <1>2, LookIs
<1>3. QED
    BY <1>1, <1>2, CurrentIs, AgainIs, ActIs DEF Next, Coordinate, Act

-----------------------------------------------------------------------------
(* Every part of the invariant is kept.                                    *)

\* While launches, looks and disks stay, so does what the looks hold.
LEMMA HoldsOn ==
    ASSUME LooksHold, Pinned, seen' = seen, disk' = disk, late \subseteq late'
    PROVE  LooksHold'
<1>1. \A look \in Looks, r \in Ranks : LaunchOf(look, r)' = LaunchOf(look, r)
    BY DEF LaunchOf, Pinned
<1>2. ASSUME NEW look \in Looks, NEW r \in Ranks
      PROVE  StillSo(look, r) => StillSo(look, r)'
    BY <1>1 DEF StillSo, Thaws, Preflight, OfOld
<1>3. ASSUME NEW look \in Looks, NEW r \in Ranks, seen'[look][r].good
      PROVE  /\ seen'[look][r].launch = LaunchOf(look, r)'
             /\ <<r, look>> \notin late' => StillSo(look, r)'
  <2>1. seen[look][r].good
    BY <1>3
  <2>2. seen[look][r].launch = LaunchOf(look, r) /\ (<<r, look>> \notin late => StillSo(look, r))
    BY <2>1 DEF LooksHold
  <2>3. QED
    BY <1>1, <1>2, <2>2
<1>4. QED
    BY <1>3 DEF LooksHold

\* What the looks hold.
LEMMA LooksHoldStep == TypeOK /\ LooksHold /\ LooksPassed /\ [Next]_vars => LooksHold'
<1> SUFFICES ASSUME TypeOK, LooksHold, LooksPassed, [Next]_vars PROVE LooksHold'
    OBVIOUS
<1>1. CASE ReadDoes
  <2>1. \A look \in Looks, r \in Ranks : ~seen'[look][r].good
    BY <1>1 DEF ReadDoes, Quiet, LooksPassed, Unseen
  <2>2. QED
    BY <2>1 DEF LooksHold
<1>2. CASE CurrentDoes
  <2>1. \A look \in Looks, r \in Ranks : ~seen'[look][r].good
    BY <1>2 DEF CurrentDoes, Quiet, LooksPassed, Unseen
  <2>2. QED
    BY <2>1 DEF LooksHold
<1>3. CASE \E look \in Looks : LookDoes(look, Min(desk.left))
  <2>1. PICK look \in Looks : LookDoes(look, Min(desk.left))
    BY <1>3
  <2> DEFINE r == Min(desk.left)
  <2>2. r \in Ranks
    BY LeftIs
  <2>3. /\ seen' = [seen EXCEPT ![look][r] = Asset(r, LaunchOf(look, r), OfOld(look))]
        /\ disk' = disk /\ late' = late /\ Pinned
    BY <2>1 DEF LookDoes, Quiet
  <2>4. ASSUME NEW l \in Looks, NEW s \in Ranks
        PROVE  LaunchOf(l, s)' = LaunchOf(l, s)
    BY <2>3 DEF LaunchOf, Pinned
  <2>5. ASSUME NEW l \in Looks, NEW s \in Ranks, seen'[l][s].good
        PROVE  /\ seen'[l][s].launch = LaunchOf(l, s)'
               /\ <<s, l>> \notin late' => StillSo(l, s)'
    <3>1. CASE l = look /\ s = r
      <4>1. seen'[l][s] = Asset(s, LaunchOf(l, s), OfOld(l))
        BY <2>2, <2>3, <3>1 DEF TypeOK
      <4>2. seen'[l][s].good = (/\ Thaws(LaunchOf(l, s), s)
                               /\ Preflight(s, LaunchOf(l, s).text, FALSE, OfOld(l)))
        BY <4>1 DEF Asset
      <4>3. Thaws(LaunchOf(l, s), s) /\ Preflight(s, LaunchOf(l, s).text, FALSE, OfOld(l))
        BY <2>5, <4>2
      <4>4. /\ seen'[l][s].launch = LaunchOf(l, s) /\ seen'[l][s].source = disk[s].source
            /\ seen'[l][s].weights = disk[s].weights
        BY <4>1 DEF Asset
      <4>5. StillSo(l, s)'
        BY <2>3, <2>4, <4>3, <4>4 DEF StillSo, Thaws, Preflight, OfOld
      <4>6. QED
        BY <2>4, <4>4, <4>5
    <3>2. CASE ~(l = look /\ s = r)
      <4>1. seen'[l][s] = seen[l][s]
        BY <2>2, <2>3, <3>2 DEF TypeOK
      <4>2. /\ seen[l][s].launch = LaunchOf(l, s)
            /\ <<s, l>> \notin late => StillSo(l, s)
        BY <2>5, <4>1 DEF LooksHold
      <4>3. StillSo(l, s) => StillSo(l, s)'
        BY <2>3, <2>4, <4>1 DEF StillSo, Thaws, Preflight, OfOld
      <4>4. QED
        BY <2>3, <2>4, <4>1, <4>2, <4>3
    <3>3. QED
      BY <3>1, <3>2
  <2>6. QED
    BY <2>5 DEF LooksHold
<1>4. CASE AgainDoes
    BY <1>4, HoldsOn DEF AgainDoes, Quiet
<1>5. CASE Act /\ ActDoes /\ ActRuns
    BY <1>5, HoldsOn DEF ActDoes
<1>6. CASE World
  <2>1. PICK r \in Ranks : DiskMoves(r) \/ PathMoves(r) \/ RunMoves(r)
    BY <1>6, WorldDoes
  <2>2. UNCHANGED <<desk, seen>>
    BY <1>6, WorldDoes
  <2>3. CASE DiskMoves(r)
    <3>1. /\ late' = late \cup ({r} \X Stages(r))
          /\ \A s \in Ranks \ {r} : disk'[s] = disk[s]
      BY <2>3 DEF DiskMoves
    <3>2. ASSUME NEW l \in Looks, NEW s \in Ranks, seen'[l][s].good
          PROVE  /\ seen'[l][s].launch = LaunchOf(l, s)'
                 /\ <<s, l>> \notin late' => StillSo(l, s)'
      <4>1. seen[l][s].good /\ seen' = seen /\ LaunchOf(l, s)' = LaunchOf(l, s)
        BY <2>2, <3>2 DEF LaunchOf
      <4>2. CASE s = r
        <5>1. l \in Stages(r)
          BY <4>1, <4>2 DEF Stages, Unseen
        <5>2. <<s, l>> \in late'
          BY <3>1, <4>2, <5>1
        <5>3. QED
          BY <4>1, <5>2 DEF LooksHold
      <4>3. CASE s # r
        <5>1. disk'[s] = disk[s] /\ (<<s, l>> \notin late' => <<s, l>> \notin late)
          BY <3>1, <4>3
        <5>2. StillSo(l, s) => StillSo(l, s)'
          BY <4>1, <5>1 DEF StillSo, Thaws, Preflight, OfOld
        <5>3. QED
          BY <4>1, <5>1, <5>2 DEF LooksHold
      <4>4. QED
        BY <4>2, <4>3
    <3>3. QED
      BY <3>2 DEF LooksHold
  <2>4. CASE PathMoves(r)
    <3>1. disk' = disk /\ Pinned /\ late \subseteq late'
      BY <2>2, <2>4 DEF PathMoves, Pinned
    <3>2. QED
      BY <2>2, <3>1, HoldsOn
  <2>5. CASE RunMoves(r)
    BY <2>2, <2>5, HoldsOn DEF RunMoves, Pinned
  <2>6. QED
    BY <2>1, <2>3, <2>4, <2>5
<1>7. CASE UNCHANGED vars
    BY <1>7, HoldsOn DEF vars, Pinned
<1>8. QED
    BY StepDoes, <1>1, <1>2, <1>3, <1>4, <1>5, <1>6, <1>7

\* What was seen stays seen.
LEMMA SeenOn ==
    ASSUME seen' = seen
    PROVE  /\ \A look \in Looks : Passed(look)' <=> Passed(look)
           /\ Differ(seen["first"])' <=> Differ(seen["first"])
  BY DEF Passed, Differ

\* Which looks were good.
LEMMA LooksPassedStep == TypeOK /\ LooksPassed /\ [Next]_vars => LooksPassed'
<1> SUFFICES ASSUME TypeOK, LooksPassed, [Next]_vars PROVE LooksPassed'
    OBVIOUS
<1>1. CASE ReadDoes
    BY <1>1 DEF ReadDoes, LooksPassed, Looks, Acting
<1>2. CASE CurrentDoes
    BY <1>2 DEF CurrentDoes, LooksPassed, Looks, Acting
<1>3. CASE \E look \in Looks : LookDoes(look, Min(desk.left))
  <2>1. PICK look \in Looks : LookDoes(look, Min(desk.left))
    BY <1>3
  <2> DEFINE r == Min(desk.left)
  <2>2. r \in Ranks /\ r \in desk.left /\ desk.at = look /\ seen \in [Looks -> [Ranks -> Assets]]
    BY <2>1, LeftIs DEF LookDoes, TypeOK
  <2>3. /\ \A l \in Looks \ {look} : seen'[l] = seen[l]
        /\ \A s \in Ranks \ {r} : seen'[look][s] = seen[look][s]
    BY <2>1, <2>2 DEF LookDoes
  <2>4. Live' <=> Live
    BY <2>1 DEF LookDoes, Pinned, Live
  <2>5. CASE desk'.at = "refused"
    BY <2>5 DEF LooksPassed, Looks, Acting
  <2>6. CASE /\ seen'[look][r].good /\ desk.left = {r}
             /\ look = "first" => ~Differ(seen'[look])
             /\ desk'.at = After(look) /\ desk'.left = Ranks
    <3>1. \A s \in Ranks : seen'[look][s].good
      BY <2>2, <2>3, <2>6 DEF LooksPassed
    <3>2. CASE look = "first"
      <4>1. desk'.at = IF Live THEN "oldFirst" ELSE "second"
        BY <2>6, <3>2 DEF After
      <4>2. Passed("first")' /\ ~Differ(seen["first"])'
        BY <2>6, <3>1, <3>2 DEF Passed, Differ
      <4>3. QED
        BY <2>4, <2>6, <4>1, <4>2 DEF LooksPassed, Looks, Acting
    <3>3. CASE look # "first"
      <4>1. seen'["first"] = seen["first"] /\ Passed("first") /\ ~Differ(seen["first"])
        BY <2>2, <2>3, <3>3 DEF Looks, LooksPassed
      <4>2. Passed("first")' /\ ~Differ(seen["first"])'
        BY <4>1 DEF Passed, Differ
      <4>3. CASE look = "oldFirst"
        <5>1. desk'.at = "second" /\ Passed("oldFirst")'
          BY <2>6, <3>1, <4>3 DEF After, Passed
        <5>2. QED
          BY <2>6, <4>2, <5>1 DEF LooksPassed, Looks, Acting
      <4>4. CASE look = "second"
        <5>1. desk'.at = (IF Live THEN "oldSecond" ELSE "again") /\ Passed("second")'
          BY <2>6, <3>1, <4>4 DEF After, Passed
        <5>2. Live => Passed("oldFirst")'
          BY <2>2, <2>3, <4>4 DEF Passed, LooksPassed, Looks
        <5>3. QED
          BY <2>4, <2>6, <4>2, <5>1, <5>2 DEF LooksPassed, Looks, Acting
      <4>5. CASE look = "oldSecond"
        <5>1. desk'.at = "again" /\ Passed("oldSecond")'
          BY <2>6, <3>1, <4>5 DEF After, Passed
        <5>2. Passed("second")' /\ Passed("oldFirst")'
          BY <2>2, <2>3, <4>5 DEF Passed, LooksPassed, Looks
        <5>3. QED
          BY <2>6, <4>2, <5>1, <5>2 DEF LooksPassed, Looks, Acting
      <4>6. QED
        BY <3>3, <4>3, <4>4, <4>5 DEF Looks
    <3>4. QED
      BY <3>2, <3>3
  <2>7. CASE /\ seen'[look][r].good /\ desk.left # {r}
             /\ desk'.at = look /\ desk'.left = desk.left \ {r}
    <3>1. \A s \in Ranks \ desk'.left : seen'[look][s].good
      BY <2>2, <2>3, <2>7 DEF LooksPassed
    <3>2. \A l \in Looks : l # look /\ Passed(l) => Passed(l)'
      BY <2>3 DEF Passed
    <3>3. look # "first" => (~Differ(seen["first"]) => ~Differ(seen["first"])')
      BY <2>3 DEF Differ, Looks
    <3>4. QED
      BY <2>2, <2>4, <2>7, <3>1, <3>2, <3>3 DEF LooksPassed, Looks, Acting
  <2>8. QED
    BY <2>1, <2>5, <2>6, <2>7 DEF LookDoes
<1>4. CASE AgainDoes
  <2>1. /\ seen' = seen /\ desk.at = "again"
        /\ Live' <=> Live
    BY <1>4 DEF AgainDoes, Pinned, Live
  <2>2. CASE desk'.at = "refused"
    BY <2>2 DEF LooksPassed, Looks, Acting
  <2>3. CASE /\ desk'.at \in {"stop", "start"} /\ seen["first"] = seen["second"]
             /\ desk'.at = "stop" => Live
    BY <2>1, <2>3, SeenOn DEF LooksPassed, Looks, Acting
  <2>4. QED
    BY <1>4, <2>2, <2>3 DEF AgainDoes
<1>5. CASE Act /\ ActDoes /\ ActRuns
  <2>1. /\ seen' = seen /\ desk.at \in Acting /\ desk'.at \in Acting
        /\ Live' <=> Live
        /\ desk'.at = "stop" => desk.at = "stop"
    BY <1>5 DEF ActDoes, Pinned, Live
  <2>2. QED
    BY <2>1, SeenOn DEF LooksPassed, Looks, Acting
<1>6. CASE World
  <2>1. desk' = desk /\ seen' = seen
    BY <1>6, WorldDoes
  <2>2. QED
    BY <2>1 DEF LooksPassed, Live, Passed, Differ
<1>7. CASE UNCHANGED vars
    BY <1>7 DEF vars, LooksPassed, Live, Passed, Differ
<1>8. QED
    BY StepDoes, <1>1, <1>2, <1>3, <1>4, <1>5, <1>6, <1>7

\* Who was started and stopped.
LEMMA BegunStep == TypeOK /\ LooksPassed /\ Begun /\ [Next]_vars => Begun'
<1> SUFFICES ASSUME TypeOK, LooksPassed, Begun, [Next]_vars PROVE Begun'
    OBVIOUS
<1>1. CASE ReadDoes
    BY <1>1 DEF ReadDoes, Quiet, Begun, Acting
<1>2. CASE CurrentDoes
    BY <1>2 DEF CurrentDoes, Quiet, Begun, Acting
<1>3. CASE \E look \in Looks : LookDoes(look, Min(desk.left))
  <2>1. PICK look \in Looks : LookDoes(look, Min(desk.left))
    BY <1>3
  <2>2. desk'.new = {} /\ desk'.stopped = {} /\ desk'.declined = {} /\ desk'.launch = desk.launch
        /\ desk.at = look
    BY <2>1 DEF LookDoes, Quiet, Pinned, Begun, Acting, Looks
  <2>3. desk'.at # "recover"
    BY <2>1 DEF LookDoes, After, Looks
  <2>4. QED
    BY <2>2, <2>3 DEF Begun, Looks
<1>4. CASE AgainDoes
    BY <1>4 DEF AgainDoes, Quiet, Pinned, Begun, Acting
<1>5. CASE Act /\ ActDoes /\ ActRuns
  <2>1. Live' <=> Live
    BY <1>5 DEF ActDoes, Pinned, Live
  <2>2. desk.at = "stop" => Live
    BY DEF LooksPassed
  <2>3. /\ desk.at \in Acting /\ desk'.at \in Acting /\ desk'.launch = desk.launch
        /\ desk'.at = "stop" => desk.at = "stop"
        /\ desk.at = "stop" => desk'.new = desk.new
        /\ desk'.stopped = desk.stopped \/ desk.at = "stop"
        /\ desk'.declined = desk.declined \/ desk.at = "recover"
        /\ desk.at \in {"recover", "failed"} => desk'.at \in {"recover", "failed"}
        /\ desk'.at = "recover" => desk.at = "recover" \/ desk.stopped # {}
    BY <1>5 DEF ActDoes, Pinned
  <2>4. desk'.new # {} => desk'.at \in Acting \ {"stop"}
    BY <2>3 DEF Begun
  <2>5. desk'.stopped # {} => desk'.at \in Acting /\ Live'
    BY <2>1, <2>2, <2>3 DEF Begun
  <2>6. desk'.declined # {} => desk'.at \in {"recover", "failed"}
    BY <2>3 DEF Begun
  <2>7. desk'.at = "recover" => Live'
    BY <2>1, <2>3 DEF Begun
  <2>8. desk'.at # "read" => desk'.launch.lock # 0
    BY <2>3 DEF Begun, Acting
  <2>9. QED
    BY <2>4, <2>5, <2>6, <2>7, <2>8 DEF Begun
<1>6. CASE World
    BY <1>6, WorldDoes DEF Begun, Live
<1>7. CASE UNCHANGED vars
    BY <1>7 DEF vars, Begun, Live
<1>8. QED
    BY StepDoes, <1>1, <1>2, <1>3, <1>4, <1>5, <1>6, <1>7

\* What the new containers run.
LEMMA RunsItsDiskStep ==
    TypeOK /\ LooksPassed /\ Begun /\ RunsItsDisk /\ [Next]_vars => RunsItsDisk'
<1> SUFFICES ASSUME TypeOK, LooksPassed, Begun, RunsItsDisk, [Next]_vars PROVE RunsItsDisk'
    OBVIOUS
<1>1. CASE ReadDoes
    BY <1>1 DEF ReadDoes, Quiet, RunsItsDisk, Begun, Acting
<1>2. CASE CurrentDoes
    BY <1>2 DEF CurrentDoes, Quiet, RunsItsDisk, Begun, Acting
<1>3. CASE \E look \in Looks : LookDoes(look, Min(desk.left))
    BY <1>3 DEF LookDoes, Quiet, Pinned, RunsItsDisk, Begun, Acting, Looks
<1>4. CASE AgainDoes
    BY <1>4 DEF AgainDoes, Quiet, RunsItsDisk, Begun, Acting
<1>5. CASE Act /\ ActDoes /\ ActRuns
  <2>1. /\ desk.at \in Acting /\ desk'.launch = desk.launch /\ UNCHANGED <<disk, late>>
    BY <1>5 DEF ActDoes, Pinned
  <2>2. desk.launch # NoLaunch
    BY <2>1 DEF Begun, Acting, NoLaunch
  <2>3. ASSUME NEW r \in desk'.new, running'[r].launch = desk'.launch,
               <<r, "second">> \notin late'
        PROVE  /\ running'[r].source = disk'[r].source /\ running'[r].weights = disk'[r].weights
    <3>1. CASE r \in desk.new /\ running'[r] = running[r]
      BY <2>1, <2>3, <3>1 DEF RunsItsDisk
    <3>2. CASE running'[r] = Idle
      BY <2>1, <2>2, <2>3, <3>2 DEF Idle
    <3>3. CASE running'[r].source = disk[r].source /\ running'[r].weights = disk[r].weights
      BY <2>1, <3>3
    <3>4. QED
      BY <1>5, <3>1, <3>2, <3>3 DEF ActRuns
  <2>4. QED
    BY <2>3 DEF RunsItsDisk
<1>6. CASE World
  <2>1. PICK r \in Ranks : DiskMoves(r) \/ PathMoves(r) \/ RunMoves(r)
    BY <1>6, WorldDoes
  <2>2. desk' = desk /\ seen' = seen
    BY <1>6, WorldDoes
  <2>3. CASE DiskMoves(r)
    <3>1. ASSUME NEW s \in desk.new, <<s, "second">> \notin late'
          PROVE  disk'[s] = disk[s] /\ <<s, "second">> \notin late
      <4>1. s \in Ranks /\ seen["second"][s] # Unseen
        <5>1. desk.at \in Acting
          BY DEF Begun
        <5>2. Passed("second") /\ s \in Ranks
          BY <5>1 DEF LooksPassed, TypeOK, Desks
        <5>3. QED
          BY <5>2 DEF Passed, Unseen
      <4>2. "second" \in Stages(s)
        BY <4>1 DEF Stages, Looks
      <4>3. late' = late \cup ({r} \X Stages(r))
        BY <2>3 DEF DiskMoves
      <4>4. s # r
        BY <3>1, <4>2, <4>3
      <4>5. QED
        BY <2>3, <3>1, <4>1, <4>3, <4>4 DEF DiskMoves
    <3>2. running' = running
      BY <2>3 DEF DiskMoves
    <3>3. QED
      BY <2>2, <3>1, <3>2 DEF RunsItsDisk
  <2>4. CASE PathMoves(r)
    <3>1. running' = running /\ disk' = disk /\ late \subseteq late'
      BY <2>4 DEF PathMoves
    <3>2. QED
      BY <2>2, <3>1 DEF RunsItsDisk
  <2>5. CASE RunMoves(r)
    <3>1. /\ disk' = disk /\ late' = late
          /\ \A s \in Ranks : running'[s] = running[s] \/ running'[s] = Idle
      BY <2>5 DEF RunMoves, TypeOK
    <3>2. desk.new # {} => desk.launch # NoLaunch
      BY DEF Begun, NoLaunch, Acting
    <3>3. desk.new \subseteq Ranks
      BY DEF TypeOK, Desks
    <3>4. QED
      BY <2>2, <3>1, <3>2, <3>3 DEF RunsItsDisk, Idle
  <2>6. QED
    BY <2>1, <2>3, <2>4, <2>5
<1>7. CASE UNCHANGED vars
    BY <1>7 DEF vars, RunsItsDisk
<1>8. QED
    BY StepDoes, <1>1, <1>2, <1>3, <1>4, <1>5, <1>6, <1>7

\* A recovering start is refused only where the disk or the memory changed.
LEMMA DeclinedIs ==
    ASSUME TypeOK, LooksHold, LooksPassed, Begun, Recover
    PROVE  \A s \in Ranks, memory \in BOOLEAN :
              <<s, memory>> \in desk'.declined =>
                 \/ <<s, memory>> \in desk.declined
                 \/ <<s, "oldSecond">> \in late \/ ~memory
<1> DEFINE r == Max(desk.left)
           old == desk.old[r].launch
           declining == [desk EXCEPT !.declined = @ \cup {<<r, disk[r].memory>>}]
<1>1. r \in Ranks /\ r \in desk.left /\ desk \in Desks /\ disk[r] \in Disks
    BY LeftIs DEF TypeOK
<1>2. \/ desk' = Visited(r, "failed", desk)
      \/ desk' = Visited(r, "failed", declining) /\ ~Starts(r, old, TRUE)
    BY DEF Recover
<1>3. CASE desk' = Visited(r, "failed", desk)
    BY <1>1, <1>3 DEF Visited, Desks
<1>4. CASE desk' = Visited(r, "failed", declining) /\ ~Starts(r, old, TRUE)
  <2>1. desk'.declined = desk.declined \cup {<<r, disk[r].memory>>}
    BY <1>1, <1>4 DEF Visited, Desks
  <2>2. ASSUME <<r, "oldSecond">> \notin late
        PROVE  ~disk[r].memory
    <3>1. Live /\ desk.at \in Acting
      BY DEF Recover, Begun, Acting
    <3>2. seen["oldSecond"][r].good
      BY <1>1, <3>1 DEF LooksPassed, Passed
    <3>3. StillSo("oldSecond", r)
      BY <1>1, <2>2, <3>2 DEF LooksHold, Looks
    <3>4. Thaws(old, r) /\ Preflight(r, old.text, FALSE, TRUE)
      BY <3>3 DEF StillSo, LaunchOf, OfOld
    <3>5. ~Preflight(r, old.text, TRUE, TRUE)
      BY <1>4, <3>4 DEF Starts
    <3>6. QED
      BY <3>4, <3>5 DEF Preflight
  <2>3. QED
    BY <2>1, <2>2
<1>5. QED
    BY <1>2, <1>3, <1>4

\* Which recoveries were declined.
LEMMA ReadyStep ==
    TypeOK /\ LooksHold /\ LooksPassed /\ Begun /\ RecoveryIsReady /\ [Next]_vars
        => RecoveryIsReady'
<1> SUFFICES ASSUME TypeOK, LooksHold, LooksPassed, Begun, RecoveryIsReady, [Next]_vars
             PROVE  RecoveryIsReady'
    OBVIOUS
<1>1. CASE ReadDoes
    BY <1>1 DEF ReadDoes, Quiet, RecoveryIsReady
<1>2. CASE CurrentDoes
    BY <1>2 DEF CurrentDoes, Quiet, RecoveryIsReady
<1>3. CASE \E look \in Looks : LookDoes(look, Min(desk.left))
    BY <1>3 DEF LookDoes, Quiet, RecoveryIsReady
<1>4. CASE AgainDoes
    BY <1>4 DEF AgainDoes, Quiet, RecoveryIsReady
<1>5. CASE Act /\ ActDoes /\ ActRuns
  <2>1. late' = late /\ (desk'.declined = desk.declined \/ desk.at = "recover")
    BY <1>5 DEF ActDoes
  <2>2. CASE desk'.declined = desk.declined
    BY <2>1, <2>2 DEF RecoveryIsReady
  <2>3. CASE desk.at = "recover"
    <3>1. Recover
      BY <1>5, <2>3 DEF Act, Stop, StartNew, Ready, Clean, Resume, InstallRead, InstallBackup,
                      InstallReplace
    <3>2. QED
      BY <3>1, DeclinedIs, <2>1 DEF RecoveryIsReady
  <2>4. QED
    BY <2>1, <2>2, <2>3
<1>6. CASE World
  <2>1. PICK r \in Ranks : DiskMoves(r) \/ PathMoves(r) \/ RunMoves(r)
    BY <1>6, WorldDoes
  <2>2. desk' = desk
    BY <1>6, WorldDoes
  <2>3. late \subseteq late'
    BY <2>1 DEF DiskMoves, PathMoves, RunMoves
  <2>4. QED
    BY <2>2, <2>3 DEF RecoveryIsReady
<1>7. CASE UNCHANGED vars
    BY <1>7 DEF vars, RecoveryIsReady
<1>8. QED
    BY StepDoes, <1>1, <1>2, <1>3, <1>4, <1>5, <1>6, <1>7

\* Where a visit or a new stage leads.
LEMMA StageIs ==
    ASSUME TypeOK
    PROVE  /\ Stop => desk'.at \in {desk.at, "start"}
           /\ StartNew => desk'.at \in {desk.at, "ready", "clean"}
           /\ Recover => desk'.at \in {desk.at, "failed"}
           /\ Clean => desk'.at \in {"failed", "recover"}
<1>1. desk \in Desks
    BY DEF TypeOK
<1>2. QED
    BY <1>1 DEF Stop, StartNew, Recover, Clean, Visited, To, Desks

\* An action of a begun switch keeps what an install knows.
LEMMA InstallsAct == TypeOK /\ Installs /\ Act => Installs'
<1> SUFFICES ASSUME TypeOK, Installs, Act PROVE Installs'
    OBVIOUS
<1>1. CASE Stop
  <2>1. desk.at \notin {"install", "complete"} /\ config' = config
    BY <1>1 DEF Stop
  <2>2. \A r \in Ranks : config'[r] = "unsent"
    BY <2>1 DEF Installs
  <2>3. desk'.at # "install"
    <3>1. desk'.at \in {desk.at, "start"}
      BY <1>1, StageIs
    <3>2. QED
      BY <2>1, <3>1
  <2>4. QED
    BY <2>2, <2>3 DEF Installs
<1>2. CASE StartNew
  <2>1. desk.at \notin {"install", "complete"} /\ config' = config
    BY <1>2 DEF StartNew
  <2>2. \A r \in Ranks : config'[r] = "unsent"
    BY <2>1 DEF Installs
  <2>3. desk'.at # "install"
    <3>1. desk'.at \in {desk.at, "ready", "clean"}
      BY <1>2, StageIs
    <3>2. QED
      BY <2>1, <3>1
  <2>4. QED
    BY <2>2, <2>3 DEF Installs
<1>3. CASE \E v \in {"install", "clean", "unconfirmed"} : Ready(v)
  <2>1. desk.at = "ready" /\ desk.at \notin {"install", "complete"} /\ config' = config
    BY <1>3 DEF Ready
  <2>2. \A r \in Ranks : config'[r] = "unsent"
    BY <2>1 DEF Installs
  <2>3. PICK v \in {"install", "clean", "unconfirmed"} : Ready(v)
    BY <1>3
  <2>4. desk'.at = v
    BY <2>3, ToIs DEF Ready, Acting
  <2>5. running' = running /\ desk'.launch = desk.launch
    BY <1>3, ActIs DEF Act, ActDoes, Pinned, Ready
  <2>6. v = "install" => \A r \in Ranks : running[r].launch = desk.launch
    BY <2>3 DEF Ready
  <2>7. QED
    BY <2>2, <2>4, <2>5, <2>6 DEF Installs
<1>4. CASE Clean
  <2>1. desk.at \notin {"install", "complete"} /\ config' = config
    BY <1>4 DEF Clean
  <2>2. \A r \in Ranks : config'[r] = "unsent"
    BY <2>1 DEF Installs
  <2>3. desk'.at # "install"
    BY <1>4, StageIs
  <2>4. QED
    BY <2>2, <2>3 DEF Installs
<1>5. CASE Recover
  <2>1. desk.at \notin {"install", "complete"} /\ config' = config
    BY <1>5 DEF Recover
  <2>2. \A r \in Ranks : config'[r] = "unsent"
    BY <2>1 DEF Installs
  <2>3. desk'.at # "install"
    <3>1. desk'.at \in {desk.at, "failed"}
      BY <1>5, StageIs
    <3>2. QED
      BY <2>1, <3>1
  <2>4. QED
    BY <2>2, <2>3 DEF Installs
<1>6. CASE \E text \in Texts : Resume(text)
  <2>1. desk.at \notin {"install", "complete"} /\ config' = config
    BY <1>6 DEF Resume
  <2>2. \A r \in Ranks : config'[r] = "unsent"
    BY <2>1 DEF Installs
  <2>3. running' = running /\ desk'.launch = desk.launch
    BY <1>6, ActIs DEF Act, ActDoes, Pinned, Resume
  <2>4. \A r \in Ranks : running[r].launch = desk.launch
    BY <1>6 DEF Resume
  <2>5. desk'.at = "install"
    BY <1>6 DEF Resume, TypeOK, Desks
  <2>6. QED
    BY <2>2, <2>3, <2>4, <2>5 DEF Installs
<1>7. CASE InstallRead
  <2> DEFINE r == Min(desk.left)
  <2>1. r \in Ranks /\ opened \in [Ranks -> SomeText] /\ config \in [Ranks -> Answers]
        /\ path \in [Ranks -> SomeText] /\ kept \in [Ranks -> SUBSET SomeText]
    BY LeftIs DEF TypeOK
  <2>2. desk.at = "install" /\ UNCHANGED <<running, late>>
    BY <1>7 DEF InstallRead
  <2>3. /\ UNCHANGED <<path, kept>>
        /\ \/ \E answer \in {"failed", "unchanged"} : Answer(r, answer) /\ opened' = opened
           \/ /\ opened' = [opened EXCEPT ![r] = path[r]] /\ desk.text = desk.launch.text
              /\ config' = [config EXCEPT ![r] = "read"] /\ desk' = desk
    BY <1>7 DEF InstallRead, IsRunning
  <2>4. ASSUME NEW answer \in {"failed", "unchanged"}, Answer(r, answer), opened' = opened
        PROVE  Installs'
    <3>1. /\ config' = [config EXCEPT ![r] = answer] /\ desk'.text = desk.text
          /\ desk'.launch = desk.launch /\ desk'.at \in {"install", "complete"}
      BY <2>2, <2>4, AnswerIs DEF Answers, Pinned
    <3>2. \A s \in Ranks : config'[s] \in {"read", "kept"} => s # r /\ config'[s] = config[s]
      BY <2>1, <2>4, <3>1
    <3>3. QED
      BY <2>2, <2>3, <2>4, <3>1, <3>2 DEF Installs
  <2>5. ASSUME /\ opened' = [opened EXCEPT ![r] = path[r]] /\ desk.text = desk.launch.text
               /\ config' = [config EXCEPT ![r] = "read"] /\ desk' = desk
        PROVE  Installs'
    <3>1. /\ opened'[r] = path[r] /\ config'[r] = "read"
          /\ \A s \in Ranks \ {r} : opened'[s] = opened[s] /\ config'[s] = config[s]
      BY <2>1, <2>5
    <3>2. QED
      BY <2>1, <2>2, <2>3, <2>5, <3>1 DEF Installs
  <2>6. QED
    BY <2>3, <2>4, <2>5
<1>8. CASE \E clash \in BOOLEAN : InstallBackup(clash)
  <2> DEFINE r == Min(desk.left)
  <2>1. r \in Ranks /\ opened \in [Ranks -> SomeText] /\ config \in [Ranks -> Answers]
        /\ path \in [Ranks -> SomeText] /\ kept \in [Ranks -> SUBSET SomeText]
    BY LeftIs DEF TypeOK
  <2>2. desk.at = "install" /\ UNCHANGED <<running, late>>
    BY <1>8 DEF InstallBackup
  <2>3. /\ UNCHANGED <<path, opened>> /\ config[r] = "read"
        /\ \/ Answer(r, "failed") /\ kept' = kept
           \/ /\ kept' = [kept EXCEPT ![r] = @ \cup {opened[r]}]
              /\ config' = [config EXCEPT ![r] = "kept"] /\ desk' = desk
    BY <1>8 DEF InstallBackup
  <2>4. ASSUME NEW answer \in {"failed"}, Answer(r, answer), kept' = kept
        PROVE  Installs'
    <3>1. /\ config' = [config EXCEPT ![r] = answer] /\ desk'.text = desk.text
          /\ desk'.launch = desk.launch /\ desk'.at \in {"install", "complete"}
      BY <2>2, <2>4, AnswerIs DEF Answers, Pinned
    <3>2. \A s \in Ranks : config'[s] \in {"read", "kept"} => s # r /\ config'[s] = config[s]
      BY <2>1, <2>4, <3>1
    <3>3. QED
      BY <2>2, <2>3, <2>4, <3>1, <3>2 DEF Installs
  <2>5. ASSUME /\ kept' = [kept EXCEPT ![r] = @ \cup {opened[r]}]
               /\ config' = [config EXCEPT ![r] = "kept"] /\ desk' = desk
        PROVE  Installs'
    <3>1. /\ opened[r] \in kept'[r] /\ config'[r] = "kept"
          /\ \A s \in Ranks \ {r} : kept'[s] = kept[s] /\ config'[s] = config[s]
      BY <2>1, <2>5
    <3>2. QED
      BY <2>1, <2>2, <2>3, <2>5, <3>1 DEF Installs
  <2>6. QED
    BY <2>3, <2>4, <2>5
<1>9. CASE InstallReplace
  <2> DEFINE r == Min(desk.left)
  <2>1. r \in Ranks /\ opened \in [Ranks -> SomeText] /\ config \in [Ranks -> Answers]
        /\ path \in [Ranks -> SomeText] /\ kept \in [Ranks -> SUBSET SomeText]
    BY LeftIs DEF TypeOK
  <2>2. desk.at = "install" /\ UNCHANGED <<running, late>>
    BY <1>9 DEF InstallReplace
  <2>3. UNCHANGED <<kept, opened>> /\ path' = [path EXCEPT ![r] = desk.text]
    BY <1>9 DEF InstallReplace
  <2>4. ASSUME NEW answer \in {"written"}, Answer(r, answer)
        PROVE  Installs'
    <3>1. /\ config' = [config EXCEPT ![r] = answer] /\ desk'.text = desk.text
          /\ desk'.launch = desk.launch /\ desk'.at \in {"install", "complete"}
      BY <2>2, <2>4, AnswerIs DEF Answers, Pinned
    <3>2. \A s \in Ranks : config'[s] \in {"read", "kept"} => s # r /\ config'[s] = config[s]
      BY <2>1, <2>4, <3>1
    <3>3. \A s \in Ranks \ {r} : path'[s] = path[s]
      BY <2>1, <2>3
    <3>4. QED
      BY <2>2, <2>3, <2>4, <3>1, <3>2, <3>3 DEF Installs
  <2>5. QED
    BY <1>9, <2>4 DEF InstallReplace
<1>10. QED
    BY <1>1, <1>2, <1>3, <1>4, <1>5, <1>6, <1>7, <1>8, <1>9 DEF Act

\* What an install knows.
LEMMA InstallsStep == TypeOK /\ Installs /\ [Next]_vars => Installs'
<1> SUFFICES ASSUME TypeOK, Installs, [Next]_vars PROVE Installs'
    OBVIOUS
<1>1. CASE ReadDoes
  <2>1. \A r \in Ranks : config'[r] = "unsent"
    BY <1>1 DEF ReadDoes, Quiet, Installs
  <2>2. desk'.at # "install"
    BY <1>1 DEF ReadDoes
  <2>3. QED
    BY <2>1, <2>2 DEF Installs
<1>2. CASE CurrentDoes
  <2>1. \A r \in Ranks : config'[r] = "unsent"
    BY <1>2 DEF CurrentDoes, Quiet, Installs
  <2>2. desk'.at # "install"
    BY <1>2 DEF CurrentDoes
  <2>3. QED
    BY <2>1, <2>2 DEF Installs
<1>3. CASE \E look \in Looks : LookDoes(look, Min(desk.left))
  <2>1. PICK look \in Looks : LookDoes(look, Min(desk.left))
    BY <1>3
  <2>2. \A r \in Ranks : config'[r] = "unsent"
    BY <2>1 DEF LookDoes, Quiet, Installs, Looks
  <2>3. desk'.at # "install"
    BY <2>1 DEF LookDoes, After, Looks
  <2>4. QED
    BY <2>2, <2>3 DEF Installs
<1>4. CASE AgainDoes
  <2>1. \A r \in Ranks : config'[r] = "unsent"
    BY <1>4 DEF AgainDoes, Quiet, Installs
  <2>2. desk'.at # "install"
    BY <1>4 DEF AgainDoes
  <2>3. QED
    BY <2>1, <2>2 DEF Installs
<1>5. CASE Act /\ ActDoes /\ ActRuns
    BY <1>5, InstallsAct
<1>6. CASE World
  <2>1. PICK r \in Ranks : DiskMoves(r) \/ PathMoves(r) \/ RunMoves(r)
    BY <1>6, WorldDoes
  <2>2. UNCHANGED <<desk, opened, kept, config>>
    BY <1>6, WorldDoes
  <2>3. CASE DiskMoves(r)
    <3>1. running' = running /\ path' = path /\ late \subseteq late'
      BY <2>3 DEF DiskMoves
    <3>2. QED
      BY <2>2, <3>1 DEF Installs
  <2>4. CASE PathMoves(r)
    <3>1. running' = running
      BY <2>4 DEF PathMoves
    <3>2. ASSUME NEW s \in Ranks, config[s] \in {"read", "kept"}
          PROVE  opened[s] = path'[s] \/ <<s, "install">> \in late'
      <4>1. CASE s = r
        BY <2>4, <3>2, <4>1 DEF PathMoves
      <4>2. CASE s # r
        BY <2>4, <3>2, <4>2 DEF PathMoves, Installs
      <4>3. QED
        BY <4>1, <4>2
    <3>3. QED
      BY <2>2, <3>1, <3>2 DEF Installs
  <2>5. CASE RunMoves(r)
    <3>1. /\ path' = path /\ late' = late
          /\ \A s \in Ranks : running'[s] = running[s] \/ running'[s] = Idle
      BY <2>5 DEF RunMoves, TypeOK
    <3>2. QED
      BY <2>2, <3>1 DEF Installs
  <2>6. QED
    BY <2>1, <2>3, <2>4, <2>5
<1>7. CASE UNCHANGED vars
    BY <1>7 DEF vars, Installs
<1>8. QED
    BY StepDoes, <1>1, <1>2, <1>3, <1>4, <1>5, <1>6, <1>7

-----------------------------------------------------------------------------
(* The theorems.                                                           *)

\* The initial states satisfy the invariant.
LEMMA InitInv == Init => IInv
<1> SUFFICES ASSUME Init PROVE IInv
    OBVIOUS
<1>1. PICK marker \in {1, 2}, old \in [Ranks -> Texts], env \in BOOLEAN, up \in BOOLEAN :
        /\ disk = [r \in Ranks |-> [Fresh EXCEPT !.marker = marker]]
        /\ running = [r \in Ranks |->
             IF up THEN [launch |-> Freeze(old[r], env, 1), source |-> 1, weights |-> 1]
             ELSE Idle]
        /\ path = old
    BY DEF Init
<1>2. NoLaunch \in Launches /\ Idle \in Runs /\ Unseen \in Assets
    BY DEF NoLaunch, Idle, Unseen, Launches, Runs, Assets, SomeText
<1>3. disk \in [Ranks -> Disks]
    BY <1>1 DEF Fresh, Disks
<1>4. running \in [Ranks -> Runs]
  <2>1. \A text \in Texts : Freeze(text, env, 1) \in Launches
    BY DEF Freeze, Launches, SomeText
  <2>2. \A text \in Texts :
          [launch |-> Freeze(text, env, 1), source |-> 1, weights |-> 1] \in Runs
    BY <2>1 DEF Runs
  <2>3. QED
    BY <1>1, <1>2, <2>2
<1>5. /\ desk = [at |-> "read", left |-> Ranks, text |-> NoText, launch |-> NoLaunch,
                 old |-> [r \in Ranks |-> Idle], new |-> {}, stopped |-> {}, declined |-> {}]
      /\ seen = [look \in Looks |-> [r \in Ranks |-> Unseen]]
      /\ opened = [r \in Ranks |-> NoText] /\ kept = [r \in Ranks |-> {}]
      /\ config = [r \in Ranks |-> "unsent"] /\ changes = 0 /\ late = {}
    BY DEF Init
<1>6. desk \in Desks /\ desk.left # {}
    BY <1>2, <1>5, RanksAre DEF Desks, Stages0, SomeText
<1>7. TypeOK
    BY <1>1, <1>2, <1>3, <1>4, <1>5, <1>6 DEF TypeOK, SomeText, Answers
<1>8. LooksHold /\ RunsItsDisk /\ RecoveryIsReady
    BY <1>5 DEF LooksHold, RunsItsDisk, RecoveryIsReady, Unseen
<1>9. LooksPassed
    BY <1>5 DEF LooksPassed, Looks, Acting
<1>10. Begun
    BY <1>5 DEF Begun
<1>11. Installs
    BY <1>5 DEF Installs
<1>12. QED
    BY <1>7, <1>8, <1>9, <1>10, <1>11 DEF IInv

\* Every step keeps the invariant.
LEMMA StepInv == IInv /\ [Next]_vars => IInv'
  BY TypeStep, LooksHoldStep, LooksPassedStep, BegunStep, RunsItsDiskStep, InstallsStep,
     ReadyStep DEF IInv

\* The invariant holds in every state a launch can reach, whatever the disks do meanwhile.
THEOREM Inductive == Spec => []IInv
  BY InitInv, StepInv, PTL DEF Spec

\* Every variable keeps its type, and the coordinator always has a rank to attend to.
THEOREM TypeCorrect == Spec => []TypeOK
<1>1. IInv => TypeOK
    BY DEF IInv
<1>2. QED
    BY <1>1, Inductive, PTL

\* The containers of a launch (StartNew) run one profile, allocator and source on every rank,
\* and the shards that were looked at, unless a rank's disk changed after the second look.
THEOREM OneLaunch == Spec => []SameLaunch
<1>1. IInv => SameLaunch
  <2> SUFFICES ASSUME IInv, NEW r \in desk.new,
                      running[r].launch = desk.launch, <<r, "second">> \notin late
               PROVE  /\ Common(running[r]) = Common(seen["first"][0])
                      /\ running[r].weights = seen["first"][r].weights
      BY DEF SameLaunch
  <2>1. desk.at \in Acting /\ r \in Ranks
      BY DEF IInv, Begun, TypeOK, Desks
  <2>2. /\ seen["second"][r].good /\ seen["first"] = seen["second"]
        /\ ~Differ(seen["first"])
      BY <2>1 DEF IInv, LooksPassed, Passed
  <2>3. /\ running[r].source = disk[r].source /\ running[r].weights = disk[r].weights
      BY DEF IInv, RunsItsDisk
  <2>4. seen["second"][r].launch = LaunchOf("second", r) /\ StillSo("second", r)
      BY <2>1, <2>2 DEF IInv, LooksHold, Looks
  <2>5. Common(running[r]) = Common(seen["first"][r])
      BY <2>2, <2>3, <2>4 DEF Common, StillSo, LaunchOf, OfOld
  <2>6. Common(seen["first"][r]) = Common(seen["first"][0])
      BY <2>1, <2>2 DEF Differ
  <2>7. QED
      BY <2>2, <2>3, <2>4, <2>5, <2>6 DEF StillSo
<1>2. QED
    BY <1>1, Inductive, PTL

\* A recovery (Recover) is refused only where a disk changed after the second look at the old
\* launch or the memory has gone: no outage begins for a launch already past recovering.
THEOREM RecoveryReady == Spec => []RecoveryIsReady
<1>1. IInv => RecoveryIsReady
    BY DEF IInv
<1>2. QED
    BY <1>1, Inductive, PTL

\* Only the replacement writes the path.
LEMMA WrittenIs ==
    ASSUME IInv, [Next]_vars, NEW r \in Ranks, config'[r] = "written", config[r] # "written"
    PROVE  InstallReplace /\ r = Min(desk.left)
<1>0. config \in [Ranks -> Answers] /\ Min(desk.left) \in Ranks
    BY LeftIs DEF IInv, TypeOK
<1>1. config' # config
    OBVIOUS
<1>2. CASE InstallReplace
  <2>1. config' = [config EXCEPT ![Min(desk.left)] = "written"]
    BY <1>2 DEF InstallReplace, Answer
  <2>2. QED
    BY <1>0, <1>2, <2>1
<1>3. CASE InstallRead
    BY <1>0, <1>3 DEF InstallRead, Answer
<1>4. CASE \E clash \in BOOLEAN : InstallBackup(clash)
    BY <1>0, <1>4 DEF InstallBackup, Answer
<1>5. CASE World \/ UNCHANGED vars
    BY <1>1, <1>5, WorldDoes DEF vars, IInv
<1>6. QED
    BY <1>1, <1>2, <1>3, <1>4, <1>5 DEF Next, Coordinate, Read, Current, Look, Again, Stop,
       StartNew, Ready, Clean, Recover, Resume

\* What an install puts at the path (InstallReplace) is the text of the launch that was
\* completed, and the text it found there is then in a backup file.
THEOREM TextKept == Spec => InstallKeeps
<1> DEFINE Keeps(r) ==
      config'[r] = "written" /\ config[r] # "written" =>
        /\ running[r] # Idle => path'[r] = running[r].launch.text
        /\ path[r] \in kept[r] \/ <<r, "install">> \in late
<1>1. ASSUME IInv, [Next]_vars, NEW r \in Ranks,
             config'[r] = "written", config[r] # "written"
      PROVE  /\ running[r] # Idle => path'[r] = running[r].launch.text
             /\ path[r] \in kept[r] \/ <<r, "install">> \in late
  <2>1. InstallReplace /\ r = Min(desk.left)
    BY <1>1, WrittenIs
  <2>2. desk.at = "install" /\ config[r] = "kept" /\ path'[r] = desk.text
    BY <1>1, <2>1 DEF InstallReplace, IInv, TypeOK
  <2>3. /\ running[r] # Idle => running[r].launch = desk.launch
        /\ desk.text = desk.launch.text
        /\ opened[r] = path[r] \/ <<r, "install">> \in late
        /\ opened[r] \in kept[r]
    BY <1>1, <2>2 DEF IInv, Installs
  <2>4. QED
    BY <2>2, <2>3
<1>2. IInv /\ [Next]_vars => [\A r \in Ranks : Keeps(r)]_vars
    BY <1>1
<1> HIDE DEF Keeps
<1>3. Spec => [][\A r \in Ranks : Keeps(r)]_vars
    BY <1>2, Inductive, PTL DEF Spec
<1>4. QED
    BY <1>3 DEF InstallKeeps, Keeps

-----------------------------------------------------------------------------
(* The download of a checkpoint, of any pieces and by any downloaders.     *)

\* The invariant of Download holds before the first downloader comes.
LEMMA DownloadInit == ASSUME "free" \notin Downloaders PROVE Dl!Init => Dl!IInv
  BY DEF Dl!Init, Dl!IInv, Dl!HolderWorks, Dl!Working, Dl!CompleteIsSettled

\* A downloader's steps.  The one that writes "complete" held the lock, so no
\* other is fetching; the next one writes "downloading" before it fetches.
LEMMA DownloaderStep ==
  ASSUME "free" \notin Downloaders, Dl!IInv, NEW d \in Downloaders,
         \/ Dl!Enter(d) \/ Dl!Begin(d) \/ Dl!Inspect(d) \/ Dl!Finish(d) \/ Dl!Fail(d) \/ Dl!Kill(d) \/ Dl!Retry(d)
         \/ \E piece \in Pieces : Dl!Fetch(d, piece)
  PROVE  Dl!IInv'
<1> USE DEF Dl!IInv, Dl!HolderWorks, Dl!Working, Dl!CompleteIsSettled, Dl!Whole
<1>1. CASE Dl!Enter(d)
  BY <1>1 DEF Dl!Enter
<1>2. CASE Dl!Begin(d)
  BY <1>2 DEF Dl!Begin
<1>3. CASE Dl!Finish(d)
  BY <1>3 DEF Dl!Finish, Dl!Leave
<1>4. CASE Dl!Fail(d)
  BY <1>4 DEF Dl!Fail, Dl!Leave
<1>5. CASE Dl!Kill(d)
  BY <1>5 DEF Dl!Kill
<1>6. CASE Dl!Retry(d)
  BY <1>6 DEF Dl!Retry
<1>7. ASSUME NEW piece \in Pieces, Dl!Fetch(d, piece) PROVE Dl!IInv'
  BY <1>7 DEF Dl!Fetch
<1>8. CASE Dl!Inspect(d)
  BY <1>8 DEF Dl!Inspect, Dl!Leave
<1>9. QED
  BY <1>1, <1>2, <1>3, <1>4, <1>5, <1>6, <1>7, <1>8

\* Every step.  A piece that goes missing is counted, and the verifier only reads.
LEMMA DownloadStep == ASSUME "free" \notin Downloaders PROVE Dl!IInv /\ [Dl!Next]_Dl!vars => Dl!IInv'
<1> SUFFICES ASSUME Dl!IInv, [Dl!Next]_Dl!vars PROVE Dl!IInv'
  OBVIOUS
<1>1. ASSUME NEW piece \in Pieces, Dl!Damage(piece) PROVE Dl!IInv'
  <2>1. damages' > 0 /\ damages' \in Nat
    BY <1>1 DEF Dl!Damage, Dl!IInv
  <2>2. QED
    BY <1>1, <2>1 DEF Dl!Damage, Dl!IInv, Dl!HolderWorks, Dl!Working, Dl!CompleteIsSettled
<1>2. ASSUME NEW wait \in BOOLEAN, Dl!Verify(wait) PROVE Dl!IInv'
  BY <1>2 DEF Dl!Verify, Dl!IInv, Dl!HolderWorks, Dl!Working, Dl!CompleteIsSettled, Dl!Whole
<1>3. CASE Dl!Checksum
  BY <1>3 DEF Dl!Checksum, Dl!IInv, Dl!HolderWorks, Dl!Working, Dl!CompleteIsSettled, Dl!Whole
<1>4. CASE UNCHANGED Dl!vars
  BY <1>4 DEF Dl!vars, Dl!IInv, Dl!HolderWorks, Dl!Working, Dl!CompleteIsSettled, Dl!Whole
<1>5. QED
  BY <1>1, <1>2, <1>3, <1>4, DownloaderStep DEF Dl!Next

\* The invariant of Download always holds, provided no downloader is called as the free lock is.
THEOREM DownloadInductive == ASSUME "free" \notin Downloaders PROVE Dl!Spec => []Dl!IInv
  BY DownloadInit, DownloadStep, PTL DEF Dl!Spec

\* download-status.json says "complete" only while no downloader fetches, and of
\* a snapshot that was whole: whoever was refused by download.lock, killed under
\* it, or began again.
THEOREM DownloadSettled ==
  ASSUME "free" \notin Downloaders PROVE Dl!Spec => []Dl!CompleteIsSettled
<1>1. Dl!IInv => Dl!CompleteIsSettled
  BY DEF Dl!IInv
<1>2. QED
  BY <1>1, DownloadInductive, PTL

\* In the composition of the launch's parts every step of a download is one of Download,
\* and the other parts leave it alone.
LEMMA DownloadsOnly == MCNext => [Dl!Next]_Dl!vars
  BY DEF MCNext, Only, Dl!Next, downloadVars, Dl!vars

\* Next to the other parts, too, "complete" means a snapshot that was whole and that nobody
\* fetches into.
THEOREM CompleteSettled == MCSpec => []CompleteIsSettled
<1>1. MCInit => Dl!IInv
  BY DownloadInit, DownloadersAssumption DEF MCInit
<1>2. Dl!IInv /\ [MCNext]_<<vars, subject, p, fabricVars, downloadVars, patchesVars>> => Dl!IInv'
  BY DownloadsOnly, DownloadStep, DownloadersAssumption DEF downloadVars, Dl!vars
<1>3. Dl!IInv => CompleteIsSettled
  BY DEF Dl!IInv, CompleteIsSettled
<1>4. QED
  BY <1>1, <1>2, <1>3, PTL DEF MCSpec

-----------------------------------------------------------------------------
(* What the launcher makes of a profile it accepts: that every rank's      *)
(* server takes it.                                                        *)

\* The profiles there are: 2 to 8 nodes or 16, and any settings of the code's.
Profiles == [nodes : (2 .. 8) \cup {16}, on : SUBSET (Pf!Switches \cup Pf!Faults)]

\* What a profile makes of them.
Encoder(q) == IF "vision" \in q.on /\ 16 % Pf!TensorParallel(q) # 0 THEN "data" ELSE "weights"
Draft(q) == IF "mtp" \in q.on THEN Pf!Depth(q) ELSE 0
Captures(q) == IF Pf!DecodeGraphs(q)
               THEN {IF "mtp" \in q.on THEN 1 + Pf!Depth(q) ELSE 1} ELSE {}
Workers(q) == q.on \cap {"lpa", "component", "expert", "probe"}

\* The steps of serve_args leave on every rank what the profile asks for.
LEMMA ServeArgsAre ==
    ASSUME NEW q, NEW r
    PROVE  LET args == Pf!ServeArgs(q, r) IN
           /\ args.seqs = Pf!Sequences(q)
           /\ args.eager = (~Pf!DecodeGraphs(q))
           /\ "vision" \notin q.on => ~args.images
           /\ args.encoder = Encoder(q)
           /\ args.prefix = ("prefix" \in q.on)
           /\ args.draft = Draft(q)
           /\ args.captures = Captures(q)
           /\ args.workers = Workers(q)
           /\ args.ep = ("ep" \in q.on)
           /\ args.tp = Pf!TensorParallel(q)
           /\ args.pp = (IF "pp2" \in q.on THEN 2 ELSE 1)
<1> USE DEF Pf!ServeArgs, Pf!ServeTemplate, Pf!ApplyScalars, Pf!ApplyFlags, Pf!ApplyVision,
     Pf!ApplyCache, Pf!ApplySpeculation, Pf!ApplyDecodeGraphs, Pf!ApplyWorkerExtension,
     Pf!ApplyProfiling, Pf!ApplyParallelism, Pf!On
<1>1. Pf!ServeArgs(q, r).seqs = Pf!Sequences(q) OBVIOUS
<1>2. Pf!ServeArgs(q, r).eager = (~Pf!DecodeGraphs(q)) OBVIOUS
<1>3. "vision" \notin q.on => ~Pf!ServeArgs(q, r).images OBVIOUS
<1>4. Pf!ServeArgs(q, r).encoder = Encoder(q) BY DEF Encoder, Pf!VisionHeads
<1>5. Pf!ServeArgs(q, r).prefix = ("prefix" \in q.on) OBVIOUS
<1>6. Pf!ServeArgs(q, r).draft = Draft(q) BY DEF Draft
<1>7. Pf!ServeArgs(q, r).captures = Captures(q) BY DEF Captures
<1>8. Pf!ServeArgs(q, r).workers = Workers(q) BY DEF Workers
<1>9. Pf!ServeArgs(q, r).ep = ("ep" \in q.on) OBVIOUS
<1>10. Pf!ServeArgs(q, r).tp = Pf!TensorParallel(q) OBVIOUS
<1>11. Pf!ServeArgs(q, r).pp = (IF "pp2" \in q.on THEN 2 ELSE 1) OBVIOUS
<1>q. QED BY <1>1, <1>2, <1>3, <1>4, <1>5, <1>6, <1>7, <1>8, <1>9, <1>10, <1>11

\* No two worker extensions are accepted together.
LEMMA OneWorker ==
    ASSUME NEW q \in Profiles, Pf!Accepted(q)
    PROVE  Cardinality(q.on \cap {"lpa", "component", "expert", "probe"}) <= 1
<1> DEFINE W == q.on \cap {"lpa", "component", "expert", "probe"}
<1>1. \E x : W \subseteq {x}
  BY DEF Pf!Accepted, Pf!WorkerExclusivity, Pf!ExpertObserver, Pf!On
<1>2. PICK x : W \subseteq {x} BY <1>1
<1>3. IsFiniteSet({x}) /\ Cardinality({x}) = 1 BY FS_Singleton
<1>4. QED BY <1>2, <1>3, FS_Subset

\* What is left of an accepted profile's settings, each beside the ones it cannot have.
LEMMA AcceptedAre ==
    ASSUME NEW q, Pf!Accepted(q)
    PROVE  /\ "pp2" \in q.on => /\ q.nodes = 2 /\ q.on \cap {"ep", "lpa", "mtp", "prefix", "fused"} = {}
                                /\ ~Pf!DecodeGraphs(q) /\ Pf!Sequences(q) = 1
           /\ "ep" \in q.on => q.on \cap {"lpa", "mtp", "prefix", "fused"} = {}
           /\ "lpa" \in q.on => /\ q.nodes = 2 /\ Pf!Sequences(q) = 1 /\ ~Pf!DecodeGraphs(q)
                                /\ "mtp" \in q.on => Pf!Depth(q) \in {1, 2, 3}
           /\ "component" \in q.on => /\ q.on \cap {"lpa", "mtp", "prefix"} = {}
                                      /\ ~Pf!DecodeGraphs(q) /\ Pf!Sequences(q) = 1
           /\ Pf!DecodeGraphs(q) => "sync" \notin q.on
           /\ "bad_cut" \notin q.on /\ "bad_view" \notin q.on
<1> USE DEF Pf!Accepted, Pf!On
<1>1. Pf!Parallelism(q) /\ Pf!NodeCount(q) /\ Pf!WorkerExclusivity(q) /\ Pf!Lpa(q)
      /\ Pf!Speculation(q)
  OBVIOUS
<1> HIDE DEF Pf!Accepted
<1>2. "pp2" \in q.on => /\ q.nodes = 2 /\ q.on \cap {"ep", "lpa", "mtp", "prefix", "fused"} = {}
                        /\ ~Pf!DecodeGraphs(q) /\ Pf!Sequences(q) = 1
  BY <1>1 DEF Pf!Parallelism, Pf!NodeCount
<1>3. "ep" \in q.on => q.on \cap {"lpa", "mtp", "prefix", "fused"} = {}
  BY <1>1 DEF Pf!Parallelism
<1>4. "lpa" \in q.on => /\ q.nodes = 2 /\ Pf!Sequences(q) = 1 /\ ~Pf!DecodeGraphs(q)
                        /\ "mtp" \in q.on => Pf!Depth(q) \in {1, 2, 3}
  BY <1>1 DEF Pf!WorkerExclusivity, Pf!Lpa, Pf!LpaDepths, Pf!NodeCount
<1>5. "component" \in q.on => /\ q.on \cap {"lpa", "mtp", "prefix"} = {}
                              /\ ~Pf!DecodeGraphs(q) /\ Pf!Sequences(q) = 1
  BY <1>1 DEF Pf!WorkerExclusivity
<1>6. Pf!DecodeGraphs(q) => "sync" \notin q.on BY <1>1 DEF Pf!Parallelism
<1>7. "bad_cut" \notin q.on /\ "bad_view" \notin q.on BY <1>1 DEF Pf!Lpa, Pf!Speculation
<1>q. QED BY <1>2, <1>3, <1>4, <1>5, <1>6, <1>7

\* Profile counts as the rest of the project does.
LEMMA PfCardinality == \A S : Pf!Cardinality(S) = Cardinality(S)
BY Zenon DEF Pf!Cardinality, Cardinality

\* The engine, whatever the profile, is given what it takes.
LEMMA EngineServes ==
    ASSUME NEW q \in Profiles, NEW r, Pf!Accepted(q)
    PROVE  Pf!EngineTakes(Pf!ServeArgs(q, r), Pf!Environment(q))
<1> DEFINE args == Pf!ServeArgs(q, r)
<1>1. /\ args.workers = Workers(q) /\ args.eager = (~Pf!DecodeGraphs(q)) /\ args.captures = Captures(q)
      /\ args.draft = Draft(q) /\ args.encoder = Encoder(q) /\ args.tp = Pf!TensorParallel(q)
      /\ "vision" \notin q.on => ~args.images
  BY ServeArgsAre
<1>2. Pf!Environment(q).async = Pf!AsynchronousIndexChecks(q) BY DEF Pf!Environment
<1> HIDE DEF args
<1>3. Cardinality(args.workers) <= 1 BY <1>1, OneWorker DEF Workers
<1>4. ASSUME ~args.eager
      PROVE  (\E size \in args.captures : size % (args.draft + 1) = 0) /\ Pf!Environment(q).async
  <2>1. Pf!DecodeGraphs(q) BY <1>1, <1>4
  <2>2. Pf!Environment(q).async
    BY <1>2, <2>1, AcceptedAre DEF Pf!AsynchronousIndexChecks, Pf!On
  <2>3. Pf!Depth(q) \in {1, 3, 5} BY DEF Pf!Depth
  <2>4. CASE "mtp" \in q.on
    <3>1. args.captures = {1 + Pf!Depth(q)} /\ args.draft = Pf!Depth(q)
      BY <1>1, <2>1, <2>4 DEF Captures, Draft
    <3>2. (1 + Pf!Depth(q)) % (Pf!Depth(q) + 1) = 0 BY <2>3
    <3>q. QED BY <2>2, <3>1, <3>2
  <2>5. CASE "mtp" \notin q.on
    <3>1. args.captures = {1} /\ args.draft = 0
      BY <1>1, <2>1, <2>5 DEF Captures, Draft
    <3>q. QED BY <2>2, <3>1
  <2>q. QED BY <2>4, <2>5
<1>5. ASSUME args.images PROVE args.encoder = "data" \/ Pf!VisionHeads % args.tp = 0
  BY <1>1, <1>5 DEF Encoder, Pf!VisionHeads
<1>q. QED BY <1>3, <1>4, <1>5, PfCardinality DEF Pf!EngineTakes, args

\* The pipeline, the LPA workers and the component worker too.
LEMMA WorkersServe ==
    ASSUME NEW q \in Profiles, NEW r, Pf!Accepted(q)
    PROVE  LET args == Pf!ServeArgs(q, r) env == Pf!Environment(q) IN
           /\ Pf!PipelineTakes(args)
           /\ Pf!NativeLpa(q) => Pf!NativeLpaTakes(args, Pf!On(q, "mtp")) /\ env.dev
           /\ env.apc_lpa => Pf!ApcTakes(args) /\ Pf!SettingsTake(q)
           /\ "component" \in args.workers => Pf!ComponentTakes(args) /\ env.dev
<1> DEFINE args == Pf!ServeArgs(q, r)
<1>1. /\ args.seqs = Pf!Sequences(q) /\ args.eager = (~Pf!DecodeGraphs(q))
      /\ args.prefix = ("prefix" \in q.on) /\ args.draft = Draft(q) /\ args.workers = Workers(q)
      /\ args.ep = ("ep" \in q.on) /\ args.tp = Pf!TensorParallel(q)
      /\ args.pp = (IF "pp2" \in q.on THEN 2 ELSE 1)
  BY ServeArgsAre
<1>2. Pf!Environment(q).dev = Pf!DevMode(q) /\ Pf!Environment(q).apc_lpa = Pf!ApcLpa(q)
  BY DEF Pf!Environment
<1> HIDE DEF args
<1>3. Pf!PipelineTakes(args)
  BY <1>1, AcceptedAre DEF Pf!PipelineTakes, Pf!TensorParallel, Draft, Pf!On
<1>4. Pf!NativeLpa(q) => Pf!NativeLpaTakes(args, Pf!On(q, "mtp")) /\ Pf!Environment(q).dev
  BY <1>1, <1>2, AcceptedAre
  DEF Pf!NativeLpa, Pf!ApcLpa, Pf!NativeLpaTakes, Pf!DevMode, Draft, Pf!On, Pf!LpaDepths
<1>5. Pf!Environment(q).apc_lpa => Pf!ApcTakes(args) /\ Pf!SettingsTake(q)
  BY <1>1, <1>2, AcceptedAre
  DEF Pf!ApcLpa, Pf!ApcTakes, Pf!SettingsTake, Pf!TensorParallel, Draft, Pf!On, Pf!LpaDepths
<1>6. "component" \in args.workers => Pf!ComponentTakes(args) /\ Pf!Environment(q).dev
  BY <1>1, <1>2, AcceptedAre DEF Workers, Pf!ComponentTakes, Pf!DevMode, Draft, Pf!On
<1>q. QED BY <1>3, <1>4, <1>5, <1>6 DEF args

\* The least common multiple is the least multiple that is common.
LEMMA LcmOf ==
    ASSUME NEW a \in Nat \ {0}, NEW b \in Nat, NEW k \in 1 .. b, (a * k) % b = 0,
           \A j \in 1 .. k - 1 : (a * j) % b # 0
    PROVE  Pf!Lcm(a, b) = a * k
<1> DEFINE P(i) == (a * i) % b = 0 /\ \A j \in 1 .. i - 1 : (a * j) % b # 0
           c == CHOOSE i \in 1 .. b : P(i)
<1>1. c \in 1 .. b /\ P(c)
  <2>1. P(k) OBVIOUS
  <2> HIDE DEF P
  <2>q. QED BY <2>1, Zenon
<1>2. Pf!Lcm(a, b) = a * c BY Zenon DEF Pf!Lcm
<1> HIDE DEF c
<1>3. c = k
  <2>1. ~(c < k)
    <3>1. SUFFICES ASSUME c < k PROVE FALSE OBVIOUS
    <3>2. c \in 1 .. k - 1 BY <1>1, <3>1
    <3>q. QED BY <1>1, <3>2
  <2>2. ~(k < c)
    <3>1. SUFFICES ASSUME k < c PROVE FALSE OBVIOUS
    <3>2. k \in 1 .. c - 1 BY <1>1, <3>1
    <3>q. QED BY <1>1, <3>2
  <2>q. QED BY <1>1, <2>1, <2>2
<1>q. QED BY <1>2, <1>3

\* The shapes that many ranks share, and what each is before it is padded.
LEMMA ShapesAre ==
    /\ \A tp \in {1, 2, 4, 8, 16} :
         /\ Pf!RequiredMultiple(tp) = 1
         /\ Pf!Shapes(1) = {<<64, 64>>, <<2048, 2048>>, <<154880, 154880>>}
    /\ Pf!RequiredMultiple(3) = 3 /\ Pf!Shapes(3) = {<<64, 66>>, <<2048, 2112>>, <<154880, 154944>>}
    /\ Pf!RequiredMultiple(5) = 5 /\ Pf!Shapes(5) = {<<64, 65>>, <<2048, 2240>>, <<154880, 154880>>}
    /\ Pf!RequiredMultiple(6) = 6 /\ Pf!Shapes(6) = {<<64, 66>>, <<2048, 2304>>, <<154880, 154944>>}
    /\ Pf!RequiredMultiple(7) = 7 /\ Pf!Shapes(7) = {<<64, 70>>, <<2048, 2240>>, <<154880, 155008>>}
<1> USE DEF Pf!Heads, Pf!MoeWidth, Pf!Vocab, Pf!Align
<1>1. \A tp \in {1, 2, 4, 8, 16} : Pf!RequiredMultiple(tp) = 1
  BY DEF Pf!RequiredMultiple, Pf!RoundUp
<1>2. Pf!Shapes(1) = {<<64, 64>>, <<2048, 2048>>, <<154880, 154880>>}
  BY DEF Pf!Shapes, Pf!PaddedHeads, Pf!PaddedMoeWidth, Pf!PaddedVocab, Pf!RoundUp
<1>3. \A tp \in {3, 5, 6, 7} : Pf!RequiredMultiple(tp) = tp
  BY DEF Pf!RequiredMultiple, Pf!RoundUp
<1>4. Pf!Lcm(64, 3) = 192
  <2>1. (64 * 3) % 3 = 0 /\ \A j \in 1 .. 3 - 1 : (64 * j) % 3 # 0 OBVIOUS
  <2>2. 64 \in Nat \ {0} /\ 3 \in Nat \ {0} /\ 3 \in 1 .. 3 OBVIOUS
  <2>3. Pf!Lcm(64, 3) = 64 * 3 BY <2>1, <2>2, LcmOf, Zenon
  <2>q. QED BY <2>3
<1>5. Pf!Lcm(64, 5) = 320
  <2>1. (64 * 5) % 5 = 0 /\ \A j \in 1 .. 5 - 1 : (64 * j) % 5 # 0 OBVIOUS
  <2>2. 64 \in Nat \ {0} /\ 5 \in Nat \ {0} /\ 5 \in 1 .. 5 OBVIOUS
  <2>3. Pf!Lcm(64, 5) = 64 * 5 BY <2>1, <2>2, LcmOf, Zenon
  <2>q. QED BY <2>3
<1>6. Pf!Lcm(64, 6) = 192
  <2>1. (64 * 3) % 6 = 0 /\ \A j \in 1 .. 3 - 1 : (64 * j) % 6 # 0 OBVIOUS
  <2>2. 64 \in Nat \ {0} /\ 6 \in Nat \ {0} /\ 3 \in 1 .. 6 OBVIOUS
  <2>3. Pf!Lcm(64, 6) = 64 * 3 BY <2>1, <2>2, LcmOf, Zenon
  <2>q. QED BY <2>3
<1>7. Pf!Lcm(64, 7) = 448
  <2>1. (64 * 7) % 7 = 0 /\ \A j \in 1 .. 7 - 1 : (64 * j) % 7 # 0 OBVIOUS
  <2>2. 64 \in Nat \ {0} /\ 7 \in Nat \ {0} /\ 7 \in 1 .. 7 OBVIOUS
  <2>3. Pf!Lcm(64, 7) = 64 * 7 BY <2>1, <2>2, LcmOf, Zenon
  <2>q. QED BY <2>3
<1>8. Pf!Shapes(3) = {<<64, 66>>, <<2048, 2112>>, <<154880, 154944>>}
  BY <1>4 DEF Pf!Shapes, Pf!PaddedHeads, Pf!PaddedMoeWidth, Pf!PaddedVocab, Pf!RoundUp
<1>9. Pf!Shapes(5) = {<<64, 65>>, <<2048, 2240>>, <<154880, 154880>>}
  BY <1>5 DEF Pf!Shapes, Pf!PaddedHeads, Pf!PaddedMoeWidth, Pf!PaddedVocab, Pf!RoundUp
<1>10. Pf!Shapes(6) = {<<64, 66>>, <<2048, 2304>>, <<154880, 154944>>}
  BY <1>6 DEF Pf!Shapes, Pf!PaddedHeads, Pf!PaddedMoeWidth, Pf!PaddedVocab, Pf!RoundUp
<1>11. Pf!Shapes(7) = {<<64, 70>>, <<2048, 2240>>, <<154880, 155008>>}
  BY <1>7 DEF Pf!Shapes, Pf!PaddedHeads, Pf!PaddedMoeWidth, Pf!PaddedVocab, Pf!RoundUp
<1>q. QED BY <1>1, <1>2, <1>3, <1>8, <1>9, <1>10, <1>11


\* Every rank's share of every shape holds something of the checkpoint.
LEMMA SharesServe ==
    ASSUME NEW q \in Profiles, NEW r, Pf!Accepted(q)
    PROVE  Pf!SharesHold(Pf!ServeArgs(q, r), Pf!Environment(q))
<1> DEFINE tp == Pf!TensorParallel(q) m == Pf!RequiredMultiple(tp)
<1>1. Pf!ServeArgs(q, r).tp = tp /\ Pf!Environment(q).pad = m
  BY ServeArgsAre DEF Pf!Environment, Pf!Padding
<1>2. tp \in (1 .. 8) \cup {16} BY DEF Profiles, Pf!TensorParallel, Pf!On
<1> HIDE DEF tp, m
<1>3. SUFFICES \A shape \in Pf!Shapes(m) : \A i \in 0 .. tp - 1 :
                 LET share == shape[2] \div tp IN
                 shape[2] % tp = 0 /\ Pf!Narrows(shape[1], i * share, share, m)
  BY <1>1 DEF Pf!SharesHold
<1> USE ShapesAre DEF m, Pf!Narrows
<1>4. CASE tp = 1 BY <1>4
<1>5. CASE tp = 2 BY <1>5
<1>6. CASE tp = 3 BY <1>6
<1>7. CASE tp = 4 BY <1>7
<1>8. CASE tp = 5 BY <1>8
<1>9. CASE tp = 6 BY <1>9
<1>10. CASE tp = 7 BY <1>10
<1>11. CASE tp = 8 BY <1>11
<1>12. CASE tp = 16 BY <1>12
<1>q. QED BY <1>2, <1>4, <1>5, <1>6, <1>7, <1>8, <1>9, <1>10, <1>11, <1>12

\* The launched process uses no feature whose marker the launcher did not ask the image for.
LEMMA UsesRequired ==
    ASSUME NEW q \in Profiles, NEW r
    PROVE  Pf!Uses(Pf!ServeArgs(q, r), Pf!Environment(q)) \subseteq Pf!Required(q)
<1> DEFINE args == Pf!ServeArgs(q, r) env == Pf!Environment(q)
<1>1. /\ args.captures = Captures(q) /\ args.workers = Workers(q)
      /\ args.ep = ("ep" \in q.on) /\ args.pp = (IF "pp2" \in q.on THEN 2 ELSE 1)
  BY ServeArgsAre
<1>2. /\ env.fa2 = ("fa2" \in q.on) /\ env.moe_order = ("moe_order" \in q.on)
      /\ env.topk = ("topk" \in q.on) /\ env.dedup = ("dedup" \in q.on)
      /\ env.fused = ("fused" \in q.on) /\ env.async = Pf!AsynchronousIndexChecks(q)
      /\ env.apc_lpa = Pf!ApcLpa(q) /\ env.pad = Pf!Padding(q)
  BY DEF Pf!Environment, Pf!On
<1> HIDE DEF args, env
<1>3. ASSUME NEW marker \in Pf!Uses(args, env) PROVE Pf!Feature(marker, q)
  <2>0. marker \in Pf!Markers BY DEF Pf!Uses
  <2>1. CASE marker = "PIPELINE_API=1"
    BY <1>1, <2>1 DEF Pf!Uses, Pf!Feature, Pf!On
  <2>2. CASE marker = "EXPERT_PARALLEL_API=1"
    BY <1>1, <2>2 DEF Pf!Uses, Pf!Feature, Pf!On, Workers
  <2>3. CASE marker = "COMPONENT_API=1"
    BY <1>1, <2>3 DEF Pf!Uses, Pf!Feature, Pf!On, Workers
  <2>4. CASE marker = "FUSED_UNPACK_SUPPORTED=1"
    BY <1>2, <2>4 DEF Pf!Uses, Pf!Feature, Pf!On
  <2>5. CASE marker = "DECODE_GRAPH_API=1"
    BY <1>1, <2>5 DEF Pf!Uses, Pf!Feature, Captures
  <2>6. CASE marker = "ASYNC_INDEX_CHECK_API=1"
    BY <1>2, <2>6 DEF Pf!Uses, Pf!Feature
  <2>7. CASE marker = "LPA_API=2"
    BY <1>1, <2>7 DEF Pf!Uses, Pf!Feature, Pf!On, Workers
  <2>8. CASE marker = "APC_LPA_API=1"
    BY <1>2, <2>8 DEF Pf!Uses, Pf!Feature
  <2>9. CASE marker = "REFERENCE_ATTENTION=1"
    BY <2>9 DEF Pf!Feature
  <2>10. CASE marker = "MOE_ORDER_API=2"
    BY <1>2, <2>10 DEF Pf!Uses, Pf!Feature, Pf!On
  <2>11. CASE marker = "INDEXER_TOPK_API=1"
    BY <1>2, <2>11 DEF Pf!Uses, Pf!Feature, Pf!On
  <2>12. CASE marker = "PREFIX_DEDUP_API=1"
    BY <1>2, <2>12 DEF Pf!Uses, Pf!Feature, Pf!On
  <2>13. CASE marker = "FA2_ATTENTION_API=1"
    BY <1>2, <2>13 DEF Pf!Uses, Pf!Feature, Pf!On
  <2>14. CASE marker = "TP_PAD_API=1"
    BY <1>2, <2>14 DEF Pf!Uses, Pf!Feature
  <2>q. QED BY <2>0, <2>1, <2>2, <2>3, <2>4, <2>5, <2>6, <2>7, <2>8, <2>9, <2>10, <2>11, <2>12,
             <2>13, <2>14 DEF Pf!Markers
<1>q. QED BY <1>3 DEF Pf!Required, Pf!Uses, args, env

\* A profile that is accepted can be served on every rank.
LEMMA ProfileServed ==
    ASSUME NEW q \in Profiles, NEW r, Pf!Accepted(q)
    PROVE  Pf!Served(q, r)
<1>1. Pf!Mounted(q) BY AcceptedAre DEF Pf!Mounted, Pf!On
<1>q. QED BY <1>1, EngineServes, WorkersServe, SharesServe, UsesRequired DEF Pf!Served

\* The profile of a behaviour is one the code can be given.
ProfileTyped == subject = "profile" => p \in Profiles

\* A setting that is turned on is one of the profile's.
LEMMA ProfileTypedStep == ProfileTyped /\ MCNext => ProfileTyped'
<1> SUFFICES ASSUME ProfileTyped, MCNext, subject' = "profile" PROVE p' \in Profiles
  BY DEF ProfileTyped
<1>1. subject = "profile" BY DEF MCNext, Only
<1>2. p \in Profiles BY <1>1 DEF ProfileTyped
<1>3. CASE \E setting \in Pf!Switches \cup Pf!Faults : Only("profile") /\ Turn(setting)
  BY <1>2, <1>3 DEF Turn, Profiles
<1>4. CASE ~\E setting \in Pf!Switches \cup Pf!Faults : Only("profile") /\ Turn(setting)
  <2>1. UNCHANGED p BY <1>1, <1>4 DEF MCNext, Only
  <2>q. QED BY <1>2, <2>1
<1>q. QED BY <1>3, <1>4

\* Every behaviour of the launch has an accepted profile served on every rank.
THEOREM AcceptedServed == MCSpec => []AcceptedIsServed
<1>1. MCInit => ProfileTyped BY DEF MCInit, ProfileTyped, Profiles
<1>2. ProfileTyped /\ [MCNext]_<<vars, subject, p, fabricVars, downloadVars, patchesVars>>
      => ProfileTyped'
  <2>1. ProfileTyped /\ UNCHANGED <<vars, subject, p, fabricVars, downloadVars, patchesVars>>
        => ProfileTyped'
    BY DEF ProfileTyped
  <2>q. QED BY <2>1, ProfileTypedStep
<1>3. ProfileTyped => AcceptedIsServed
  BY ProfileServed DEF ProfileTyped, AcceptedIsServed
<1>q. QED BY <1>1, <1>2, <1>3, PTL DEF MCSpec

-----------------------------------------------------------------------------
(* The fabric.                                                             *)

\* Every string, those the model writes by name.
Strings == STRING \cup {"", "roce0", "roce1", "fabric0", "fabric1", "dummy0", "wlan"}

\* What the parser makes of a node, and what a host shows of itself.
Addrs == [net : Nat, host : Nat]
Links == [peer : Nat, hca : Strings, port : Nat, gid : Nat, interface : Strings,
          local : Addrs, peer_ip : Addrs]
OwnRails == [hca : Strings, port : Nat, interface : Strings, local : Addrs, gid : Nat,
             primary : BOOLEAN]
HostAddrs == [address : Addrs, interface : Strings, test : BOOLEAN]
Nodes == [links : SUBSET Links, rails : SUBSET OwnRails, host : HostAddrs]
Gids == [port : Strings \X Nat, index : Nat, address : Addrs, interface : Strings]
Hosts == [up : SUBSET Strings, active : SUBSET (Strings \X Nat),
          carries : SUBSET (Strings \X Addrs), gids : SUBSET Gids, rdma : BOOLEAN]

\* A node has links, finitely many, or one primary rail among its own.
OneForm(node) == /\ IsFiniteSet(node.links)
                 /\ node.links = {} => \E rail \in node.rails : \A other \in node.rails :
                                         other.primary <=> other = rail

\* A fabric of n ranks.
Fabric(ns, hs, n) == /\ ns \in [0 .. n - 1 -> Nodes] /\ hs \in [0 .. n - 1 -> Hosts]
                     /\ \A r \in 0 .. n - 1 : OneForm(ns[r])

\* Fabric counts as the rest of the project does.
LEMMA FbCardinality == \A S : Fb!Cardinality(S) = Cardinality(S)
BY Zenon DEF Fb!Cardinality, Cardinality

\* A valid list is of two ranks with rails of their own, or links every rank to every other.
LEMMA ValidForms ==
    ASSUME NEW n \in Nat \ {0}, NEW ns, NEW hs, Fabric(ns, hs, n), Fb!ValidNodes(ns)
    PROVE  \/ /\ n = 2 /\ \A r \in 0 .. n - 1 : ns[r].links = {} /\ ~Fb!HasHost(ns[r])
           \/ /\ \A r \in 0 .. n - 1 : ns[r].links # {} /\ Fb!ValidNode(ns, r)
              /\ \A r \in 0 .. n - 1 : \A link \in ns[r].links : Fb!ValidLink(ns, r, link)
              /\ Fb!ValidHosts(ns)
<1>0. DOMAIN ns = 0 .. n - 1 BY DEF Fabric
<1>1. CASE \A r \in DOMAIN ns : ~Fb!Linked(ns[r])
  <2>1. Cardinality(0 .. n - 1) = 2 /\ \A r \in DOMAIN ns : ~Fb!HasHost(ns[r])
    BY <1>0, <1>1, FbCardinality DEF Fb!ValidNodes
  <2>2. Cardinality(0 .. n - 1) = n BY FS_Interval
  <2>q. QED BY <1>0, <1>1, <2>1, <2>2 DEF Fb!Linked
<1>2. CASE ~\A r \in DOMAIN ns : ~Fb!Linked(ns[r])
  <2>1. /\ \A r \in DOMAIN ns : Fb!ValidNode(ns, r)
        /\ \A r \in DOMAIN ns : \A link \in ns[r].links : Fb!ValidLink(ns, r, link)
        /\ Fb!ValidHosts(ns)
    BY <1>2 DEF Fb!ValidNodes
  <2>2. \A r \in DOMAIN ns : {link.peer : link \in ns[r].links} = DOMAIN ns \ {r}
    BY <2>1 DEF Fb!ValidNode
  <2>3. PICK s \in DOMAIN ns : ns[s].links # {} BY <1>2 DEF Fb!Linked
  <2>4. PICK link \in ns[s].links : TRUE BY <2>3
  <2>5. link.peer \in DOMAIN ns /\ link.peer # s BY <2>2, <2>4
  <2>6. ASSUME NEW r \in DOMAIN ns PROVE ns[r].links # {}
    <3>1. PICK other \in DOMAIN ns : other # r BY <2>5
    <3>2. other \in {l.peer : l \in ns[r].links} BY <2>2, <3>1
    <3>q. QED BY <3>2
  <2>q. QED BY <1>0, <2>1, <2>6
<1>q. QED BY <1>1, <1>2

\* The link toward a rank is the one link there is to it.
LEMMA TowardIs ==
    ASSUME NEW n \in Nat \ {0}, NEW ns, NEW hs, Fabric(ns, hs, n),
           NEW r \in 0 .. n - 1, NEW s \in 0 .. n - 1, r # s,
           Fb!ValidNode(ns, r), \A link \in ns[r].links : Fb!ValidLink(ns, r, link)
    PROVE  /\ Fb!LinkToward(ns[r], s) \in ns[r].links /\ Fb!LinkToward(ns[r], s).peer = s
           /\ \A link \in ns[r].links : link.peer = s => link = Fb!LinkToward(ns[r], s)
<1>0. DOMAIN ns = 0 .. n - 1 BY DEF Fabric
<1>1. \E link \in ns[r].links : link.peer = s
  <2>1. s \in {link.peer : link \in ns[r].links} BY <1>0 DEF Fb!ValidNode
  <2>q. QED BY <2>1
<1> DEFINE l == Fb!LinkToward(ns[r], s)
<1>2. l \in ns[r].links /\ l.peer = s BY <1>1, Zenon DEF Fb!LinkToward
<1>3. ASSUME NEW link \in ns[r].links, link.peer = s PROVE link = l
  <2> HIDE DEF l
  <2>1. link.local = l.local
    BY <1>2, <1>3 DEF Fb!ValidLink
  <2>2. l \in Fb!Rails(ns[r]) /\ link \in Fb!Rails(ns[r])
    BY <1>2 DEF Fb!Rails, Fb!Linked
  <2>q. QED BY <2>1, <2>2 DEF Fb!ValidNode, Fb!ValidRails
<1>q. QED BY <1>2, <1>3

\* A link's two ends make one probe of it.
LEMMA ProbesAgree ==
    ASSUME NEW n \in Nat \ {0}, NEW ns, NEW hs, Fabric(ns, hs, n), Fb!ValidNodes(ns),
           NEW r \in 0 .. n - 1
    PROVE  Fb!ProbesPair(ns, r)
<1>0. DOMAIN ns = 0 .. n - 1 BY DEF Fabric
<1> SUFFICES ASSUME NEW link \in ns[r].links
             PROVE  LET mine == Fb!LinkProbe(ns, r, link)
                        theirs == Fb!LinkProbe(ns, link.peer, Fb!LinkToward(ns[link.peer], r))
                    IN  /\ {mine.rank, theirs.rank} = {0, 1} /\ mine.head = theirs.head
                        /\ mine.head = (IF mine.rank = 0 THEN mine ELSE theirs).local
  BY DEF Fb!ProbesPair
<1>1. /\ \A i \in 0 .. n - 1 : Fb!ValidNode(ns, i)
      /\ \A i \in 0 .. n - 1 : \A l \in ns[i].links : Fb!ValidLink(ns, i, l)
  BY ValidForms
<1> DEFINE s == link.peer back == Fb!LinkToward(ns[s], r)
<1>2. s \in 0 .. n - 1 /\ s # r BY <1>0, <1>1 DEF Fb!ValidNode
<1>3. back \in ns[s].links /\ back.peer = r BY <1>1, <1>2, TowardIs
<1>4. link.local = back.peer_ip /\ link.peer_ip = back.local
  BY <1>1 DEF Fb!ValidLink
<1> HIDE DEF back
<1>5. CASE r < s BY <1>2, <1>3, <1>4, <1>5 DEF Fb!LinkProbe, back
<1>6. CASE s < r BY <1>2, <1>3, <1>4, <1>6 DEF Fb!LinkProbe, back
<1>q. QED BY <1>2, <1>5, <1>6

\* What a rank's own check finds, of each rail, of its host address and of its devices.
LEMMA ChecksFind ==
    ASSUME NEW n \in Nat \ {0}, NEW ns, NEW hs, Fabric(ns, hs, n),
           NEW r \in 0 .. n - 1, Fb!Checks(ns, r, hs[r])
    PROVE  /\ \A rail \in Fb!Rails(ns[r]) : /\ Fb!Assigned(hs[r], rail.interface, rail.local)
                                            /\ Fb!RoceV2Gid(hs[r], rail.gid, rail)
           /\ Fb!HasHost(ns[r]) =>
                Fb!Assigned(hs[r], ns[r].host.interface, ns[r].host.address)
           /\ hs[r].rdma
BY DEF Fb!Checks

\* The primary rail is the one there is.
LEMMA PrimaryIs ==
    ASSUME NEW n \in Nat \ {0}, NEW ns, NEW hs, Fabric(ns, hs, n),
           NEW r \in 0 .. n - 1, ns[r].links = {}
    PROVE  /\ Fb!Primary(ns[r]) \in ns[r].rails
           /\ \A rail \in ns[r].rails : rail.primary <=> rail = Fb!Primary(ns[r])
<1>1. PICK one \in ns[r].rails : \A other \in ns[r].rails : other.primary <=> other = one
  BY DEF Fabric, OneForm
<1>2. one.primary BY <1>1
<1>3. Fb!Primary(ns[r]) \in ns[r].rails /\ Fb!Primary(ns[r]).primary
  BY <1>1, <1>2, Zenon DEF Fb!Primary
<1>q. QED BY <1>1, <1>3

\* The site of a rank that is linked, and of one that is not.
LEMMA SiteIs ==
    ASSUME NEW n \in Nat \ {0}, NEW ns, NEW hs, Fabric(ns, hs, n), NEW r \in 0 .. n - 1
    PROVE  LET site == Fb!Site(ns, r)
               first == Fb!LinkToward(ns[0], IF r = 0 THEN 1 ELSE r)
               end == Fb!LinkToward(ns[r], IF r = 0 THEN 1 ELSE 0)
           IN  /\ ns[r].links = {} =>
                    /\ site.head_ip = Fb!Primary(ns[0]).local
                    /\ site.local_ip = Fb!Primary(ns[r]).local
                    /\ site.interface = Fb!Primary(ns[r]).interface
               /\ ns[r].links # {} =>
                    /\ site.head_ip = IF Fb!HasHost(ns[0]) THEN ns[0].host.address ELSE first.local
                    /\ site.local_ip = IF Fb!HasHost(ns[r]) THEN ns[r].host.address ELSE end.local
                    /\ site.interface =
                         IF Fb!HasHost(ns[r]) THEN ns[r].host.interface ELSE end.interface
BY DEF Fb!Site, Fb!Linked, Fb!Addressing

\* A rank whose head's host passes meets it, over their own link when it is a link's.
LEMMA HeadMet ==
    ASSUME NEW n \in Nat \ {0}, NEW ns, NEW hs, Fabric(ns, hs, n), Fb!ValidNodes(ns),
           Fb!Checks(ns, 0, hs[0]), NEW r \in 0 .. n - 1
    PROVE  Fb!MeetsHead(ns, hs, r)
<1> DEFINE site == Fb!Site(ns, r)
<1>0. 0 \in 0 .. n - 1 /\ DOMAIN ns = 0 .. n - 1 BY DEF Fabric
<1>1. CASE n = 2 /\ \A i \in 0 .. n - 1 : ns[i].links = {} /\ ~Fb!HasHost(ns[i])
  <2>1. site.head_ip = Fb!Primary(ns[0]).local BY <1>1, SiteIs
  <2>2. Fb!Primary(ns[0]) \in Fb!Rails(ns[0])
    BY <1>0, <1>1, PrimaryIs DEF Fb!Rails, Fb!Linked
  <2>3. Fb!Assigned(hs[0], Fb!Primary(ns[0]).interface, site.head_ip)
    BY <1>0, <2>1, <2>2, ChecksFind
  <2>4. \E carried \in hs[0].carries : carried[2] = site.head_ip
    BY <2>3 DEF Fb!Assigned
  <2>q. QED BY <1>1, <2>4 DEF Fb!MeetsHead, Fb!Linked
<1>2. CASE /\ \A i \in 0 .. n - 1 : ns[i].links # {} /\ Fb!ValidNode(ns, i)
           /\ \A i \in 0 .. n - 1 : \A link \in ns[i].links : Fb!ValidLink(ns, i, link)
  <2> DEFINE s == IF r = 0 THEN 1 ELSE r  first == Fb!LinkToward(ns[0], s)
  <2>1. s \in 0 .. n - 1 /\ s # 0
    <3>1. PICK link \in ns[0].links : TRUE BY <1>0, <1>2
    <3>2. link.peer \in (0 .. n - 1) \ {0} BY <1>0, <1>2 DEF Fb!ValidNode
    <3>q. QED BY <3>2
  <2>2. first \in ns[0].links /\ first.peer = s BY <1>0, <1>2, <2>1, TowardIs
  <2>3. site.head_ip = IF Fb!HasHost(ns[0]) THEN ns[0].host.address ELSE first.local
    BY <1>2, SiteIs
  <2>4. first \in Fb!Rails(ns[0]) BY <1>0, <1>2, <2>2 DEF Fb!Rails, Fb!Linked
  <2> HIDE DEF first
  <2>5. \E i : Fb!Assigned(hs[0], i, site.head_ip) BY <1>0, <2>3, <2>4, ChecksFind
  <2>6. \E carried \in hs[0].carries : carried[2] = site.head_ip
    BY <2>5 DEF Fb!Assigned
  <2>7. ASSUME r # 0, ~Fb!HasHost(ns[0])
        PROVE  \E rail \in Fb!Rails(ns[r]) : Fb!OneSlash30(rail.local, site.head_ip)
    <3> DEFINE end == Fb!LinkToward(ns[r], 0)
    <3>1. end \in ns[r].links /\ end.peer = 0 BY <1>0, <1>2, <2>7, TowardIs
    <3>2. Fb!OneSlash30(end.local, end.peer_ip) /\ end.peer_ip = Fb!LinkToward(ns[end.peer], r).local
      BY <1>2, <3>1 DEF Fb!ValidLink
    <3>3. end.peer_ip = site.head_ip BY <2>3, <2>7, <3>1, <3>2 DEF first
    <3>4. end \in Fb!Rails(ns[r]) BY <1>2, <3>1 DEF Fb!Rails, Fb!Linked
    <3>q. QED BY <3>2, <3>3, <3>4
  <2>q. QED BY <2>6, <2>7 DEF Fb!MeetsHead
<1>q. QED BY <1>1, <1>2, ValidForms

\* What a rank tells NCCL and Gloo of its ports and its address is what its host has.
LEMMA PortsNamed ==
    ASSUME NEW n \in Nat \ {0}, NEW ns, NEW hs, Fabric(ns, hs, n), Fb!Valid(ns),
           NEW r \in 0 .. n - 1, Fb!Checks(ns, r, hs[r])
    PROVE  Fb!NamesItsPorts(ns, hs, r)
<1> DEFINE site == Fb!Site(ns, r) env == Fb!FabricEnv(ns, r)
           some == CHOOSE rail \in Fb!Rails(ns[r]) : TRUE
<1>0. 0 \in 0 .. n - 1 /\ DOMAIN ns = 0 .. n - 1 BY DEF Fabric
<1>1. /\ env.VLLM_HOST_IP = site.local_ip /\ env.SOCKET_IFNAME = site.interface
      /\ env.NCCL_IB_HCA = {<<rail.hca, rail.port>> : rail \in Fb!Rails(ns[r])}
      /\ env.NCCL_IB_GID_INDEX = some.gid
  BY DEF Fb!FabricEnv
<1>2. Fb!ValidNodes(ns) /\ Fb!ValidRails(ns[r])
  BY <1>0 DEF Fb!Valid, Fb!ValidSite
<1> HIDE DEF env
<1>3. Fb!Assigned(hs[r], env.SOCKET_IFNAME, env.VLLM_HOST_IP)
  <2>1. CASE n = 2 /\ \A i \in 0 .. n - 1 : ns[i].links = {} /\ ~Fb!HasHost(ns[i])
    <3>1. Fb!Primary(ns[r]) \in Fb!Rails(ns[r])
      BY <2>1, PrimaryIs DEF Fb!Rails, Fb!Linked
    <3>2. /\ site.local_ip = Fb!Primary(ns[r]).local
          /\ site.interface = Fb!Primary(ns[r]).interface
      BY <2>1, SiteIs
    <3>q. QED BY <1>1, <3>1, <3>2, ChecksFind
  <2>2. CASE /\ \A i \in 0 .. n - 1 : ns[i].links # {} /\ Fb!ValidNode(ns, i)
             /\ \A i \in 0 .. n - 1 : \A link \in ns[i].links : Fb!ValidLink(ns, i, link)
    <3> DEFINE s == IF r = 0 THEN 1 ELSE 0  end == Fb!LinkToward(ns[r], s)
    <3>1. s \in 0 .. n - 1 /\ s # r
      <4>1. PICK link \in ns[r].links : TRUE BY <2>2
      <4>2. link.peer \in (0 .. n - 1) \ {r} BY <1>0, <2>2 DEF Fb!ValidNode
      <4>q. QED BY <4>2
    <3>2. end \in ns[r].links BY <2>2, <3>1, TowardIs
    <3>3. /\ site.local_ip = IF Fb!HasHost(ns[r]) THEN ns[r].host.address ELSE end.local
          /\ site.interface = IF Fb!HasHost(ns[r]) THEN ns[r].host.interface ELSE end.interface
      BY <2>2, SiteIs
    <3>4. end \in Fb!Rails(ns[r]) BY <2>2, <3>2 DEF Fb!Rails, Fb!Linked
    <3> HIDE DEF end
    <3>q. QED BY <1>1, <3>3, <3>4, ChecksFind
  <2>q. QED BY <1>2, <2>1, <2>2, ValidForms
<1>4. ASSUME NEW port \in env.NCCL_IB_HCA
      PROVE  \E gid \in hs[r].gids : gid.port = port /\ gid.index = env.NCCL_IB_GID_INDEX
  <2>1. PICK rail \in Fb!Rails(ns[r]) : port = <<rail.hca, rail.port>> BY <1>1, <1>4
  <2>2. some \in Fb!Rails(ns[r]) BY <2>1, Zenon
  <2>3. rail.gid = some.gid BY <1>2, <2>1, <2>2 DEF Fb!ValidRails
  <2>4. Fb!RoceV2Gid(hs[r], rail.gid, rail) BY <2>1, ChecksFind
  <2>q. QED BY <1>1, <2>1, <2>3, <2>4 DEF Fb!RoceV2Gid
<1>5. hs[r].rdma BY ChecksFind
<1>q. QED BY <1>3, <1>4, <1>5 DEF Fb!NamesItsPorts, env

\* A rail at another GID index, and a fabric whose rank r is at that index.
At(rail, i) == [rail EXCEPT !.gid = i]
Regid(ns, r, i) == [ns EXCEPT ![r] = Fb!Regid(@, i)]

\* Only its index changes, and two rails at one index stay two.
LEMMA AtIs ==
    ASSUME NEW i \in Nat
    PROVE  /\ \A l \in Links : /\ At(l, i) \in Links /\ At(l, i).peer = l.peer /\ At(l, i).hca = l.hca
                               /\ At(l, i).port = l.port /\ At(l, i).gid = i
                               /\ At(l, i).interface = l.interface /\ At(l, i).local = l.local
                               /\ At(l, i).peer_ip = l.peer_ip
           /\ \A l \in OwnRails : /\ At(l, i) \in OwnRails /\ At(l, i).hca = l.hca
                                  /\ At(l, i).port = l.port /\ At(l, i).gid = i
                                  /\ At(l, i).interface = l.interface /\ At(l, i).local = l.local
                                  /\ At(l, i).primary = l.primary
           /\ \A l, k \in Links : l.gid = k.gid /\ At(l, i) = At(k, i) => l = k
<1>1. \A l \in Links : /\ At(l, i) \in Links /\ At(l, i).peer = l.peer /\ At(l, i).hca = l.hca
                       /\ At(l, i).port = l.port /\ At(l, i).gid = i
                       /\ At(l, i).interface = l.interface /\ At(l, i).local = l.local
                       /\ At(l, i).peer_ip = l.peer_ip
  BY DEF At, Links
<1>2. \A l \in OwnRails : /\ At(l, i) \in OwnRails /\ At(l, i).hca = l.hca
                          /\ At(l, i).port = l.port /\ At(l, i).gid = i
                          /\ At(l, i).interface = l.interface /\ At(l, i).local = l.local
                          /\ At(l, i).primary = l.primary
  BY DEF At, OwnRails
<1>3. ASSUME NEW l \in Links, NEW k \in Links, l.gid = k.gid, At(l, i) = At(k, i) PROVE l = k
  <2>1. /\ l.peer = k.peer /\ l.hca = k.hca /\ l.port = k.port /\ l.interface = k.interface
        /\ l.local = k.local /\ l.peer_ip = k.peer_ip
    BY <1>1, <1>3
  <2>q. QED BY <1>3, <2>1 DEF Links
<1>q. QED BY <1>1, <1>2, <1>3

\* Only rank r changes, and of it only the index of its rails.
LEMMA RegidIs ==
    ASSUME NEW n \in Nat \ {0}, NEW ns, NEW hs, Fabric(ns, hs, n), NEW r \in 0 .. n - 1, NEW i \in Nat
    PROVE  LET fixed == Regid(ns, r, i) IN
           /\ DOMAIN fixed = 0 .. n - 1
           /\ \A s \in 0 .. n - 1 : s # r => fixed[s] = ns[s]
           /\ \A s \in 0 .. n - 1 : fixed[s].host = ns[s].host
           /\ fixed[r].links = {At(l, i) : l \in ns[r].links}
           /\ fixed[r].rails = {At(l, i) : l \in ns[r].rails}
<1>1. ns \in [0 .. n - 1 -> Nodes] BY DEF Fabric
<1>2. Regid(ns, r, i)[r] = Fb!Regid(ns[r], i) /\ DOMAIN Regid(ns, r, i) = 0 .. n - 1
      /\ \A s \in 0 .. n - 1 : s # r => Regid(ns, r, i)[s] = ns[s]
  BY <1>1 DEF Regid
<1>3. ns[r] \in Nodes BY <1>1
<1>4. /\ Fb!Regid(ns[r], i).host = ns[r].host
      /\ Fb!Regid(ns[r], i).links = {At(l, i) : l \in ns[r].links}
      /\ Fb!Regid(ns[r], i).rails = {At(l, i) : l \in ns[r].rails}
  BY <1>3 DEF Fb!Regid, At, Nodes
<1>q. QED BY <1>2, <1>4

\* A rank has as many links at one index as it had.
LEMMA RegidCounts ==
    ASSUME NEW L \in SUBSET Links, IsFiniteSet(L), \A l, k \in L : l.gid = k.gid, NEW i \in Nat
    PROVE  LET M == {At(l, i) : l \in L} IN IsFiniteSet(M) /\ Cardinality(M) = Cardinality(L)
<1> DEFINE M == {At(l, i) : l \in L}
           f == [l \in L |-> At(l, i)]
<1>1. f \in Bijection(L, M)
  <2>1. f \in [L -> M] OBVIOUS
  <2>2. ASSUME NEW l \in L, NEW k \in L, f[l] = f[k] PROVE l = k
    <3>1. At(l, i) = At(k, i) BY <2>2
    <3>2. l \in Links /\ k \in Links /\ l.gid = k.gid OBVIOUS
    <3>q. QED BY <3>1, <3>2, AtIs
  <2>3. \A m \in M : \E l \in L : f[l] = m OBVIOUS
  <2>4. DOMAIN f = L OBVIOUS
  <2> HIDE DEF f, M
  <2>5. IsInjective(f) BY <2>2, <2>4 DEF IsInjective
  <2>q. QED BY <2>1, <2>3, <2>5 DEF Bijection, Injection, Surjection
<1>2. ExistsBijection(L, M) BY <1>1 DEF ExistsBijection
<1>q. QED BY <1>2, FS_Bijection

\* The rails of a rank at one index are valid beside each other, as they were.
LEMMA RailsStayValid ==
    ASSUME NEW n \in Nat \ {0}, NEW ns, NEW hs, Fabric(ns, hs, n), NEW r \in 0 .. n - 1,
           NEW i \in Nat, Fb!ValidRails(ns[r])
    PROVE  /\ Fb!Rails(Regid(ns, r, i)[r]) = {At(l, i) : l \in Fb!Rails(ns[r])}
           /\ \A rail \in Fb!Rails(ns[r]) :
                LET new == At(rail, i) IN
                /\ new.gid = i /\ new.hca = rail.hca /\ new.port = rail.port
                /\ new.interface = rail.interface /\ new.local = rail.local
           /\ Fb!ValidRails(Regid(ns, r, i)[r])
<1> DEFINE new == Regid(ns, r, i)[r]
<1>0. ns[r] \in Nodes BY DEF Fabric
<1>1. /\ new.links = {At(l, i) : l \in ns[r].links}
      /\ new.rails = {At(l, i) : l \in ns[r].rails}
  BY RegidIs
<1> HIDE DEF new
<1>2. Fb!Rails(new) = {At(l, i) : l \in Fb!Rails(ns[r])}
  <2>1. CASE ns[r].links = {} BY <1>1, <2>1 DEF Fb!Rails, Fb!Linked
  <2>2. CASE ns[r].links # {}
    <3>1. new.links # {} BY <1>1, <2>2
    <3>q. QED BY <1>1, <2>2, <3>1 DEF Fb!Rails, Fb!Linked
  <2>q. QED BY <2>1, <2>2
<1>3. \A rail \in Fb!Rails(ns[r]) : rail \in Links \/ rail \in OwnRails
  BY <1>0 DEF Fb!Rails, Nodes
<1>4. \A rail \in Fb!Rails(ns[r]) :
        /\ At(rail, i).gid = i /\ At(rail, i).hca = rail.hca /\ At(rail, i).port = rail.port
        /\ At(rail, i).interface = rail.interface /\ At(rail, i).local = rail.local
  BY <1>3, AtIs
<1>5. Fb!ValidRails(new)
  <2>1. \A rail \in Fb!Rails(new) : ~Fb!IsWifi(rail.interface) /\ Fb!IsFabric(rail.local)
    BY <1>2, <1>4 DEF Fb!ValidRails
  <2>2. ASSUME NEW one \in Fb!Rails(new), NEW other \in Fb!Rails(new)
        PROVE  /\ one.gid = other.gid
               /\ one # other => /\ <<one.hca, one.port>> # <<other.hca, other.port>>
                                 /\ one.interface # other.interface /\ one.local # other.local
    <3>1. PICK a \in Fb!Rails(ns[r]) : one = At(a, i) BY <1>2
    <3>2. PICK b \in Fb!Rails(ns[r]) : other = At(b, i) BY <1>2
    <3>3. one.gid = i /\ other.gid = i BY <1>4, <3>1, <3>2
    <3>4. a # b => /\ <<a.hca, a.port>> # <<b.hca, b.port>>
                   /\ a.interface # b.interface /\ a.local # b.local
      BY DEF Fb!ValidRails
    <3>q. QED BY <1>4, <3>1, <3>2, <3>3, <3>4
  <2>q. QED BY <2>1, <2>2 DEF Fb!ValidRails
<1>q. QED BY <1>2, <1>4, <1>5 DEF new

\* Two links that differ in nothing but their index and device.
Like(m, l) == /\ m.peer = l.peer /\ m.port = l.port /\ m.interface = l.interface
              /\ m.local = l.local /\ m.peer_ip = l.peer_ip

\* Every link of the fabric is like the one it was, and so is the link toward each rank.
LEMMA RegidLinks ==
    ASSUME NEW n \in Nat \ {0}, NEW ns, NEW hs, Fabric(ns, hs, n), NEW r \in 0 .. n - 1,
           NEW i \in Nat, NEW s \in 0 .. n - 1
    PROVE  LET fixed == Regid(ns, r, i) IN
           /\ \A m \in fixed[s].links : \E l \in ns[s].links : Like(m, l)
           /\ \A l \in ns[s].links : \E m \in fixed[s].links : Like(m, l)
           /\ (\A t \in 0 .. n - 1 : s # t =>
                 /\ Fb!LinkToward(ns[s], t) \in ns[s].links /\ Fb!LinkToward(ns[s], t).peer = t
                 /\ \A l \in ns[s].links : l.peer = t => l = Fb!LinkToward(ns[s], t))
              => \A t \in 0 .. n - 1 : s # t =>
                   Like(Fb!LinkToward(fixed[s], t), Fb!LinkToward(ns[s], t))
<1> DEFINE fixed == Regid(ns, r, i)
<1>0. ns[s].links \subseteq Links BY DEF Fabric, Nodes
<1>1. CASE s # r
  <2>1. fixed[s] = ns[s] BY <1>1, RegidIs
  <2>q. QED BY <2>1 DEF Like
<1>2. CASE s = r
  <2>1. fixed[s].links = {At(l, i) : l \in ns[s].links} BY <1>2, RegidIs
  <2> HIDE DEF fixed
  <2>2. \A l \in ns[s].links : Like(At(l, i), l) BY <1>0, AtIs DEF Like
  <2>3. ASSUME \A t \in 0 .. n - 1 : s # t =>
                 /\ Fb!LinkToward(ns[s], t) \in ns[s].links /\ Fb!LinkToward(ns[s], t).peer = t
                 /\ \A l \in ns[s].links : l.peer = t => l = Fb!LinkToward(ns[s], t),
               NEW t \in 0 .. n - 1, s # t
        PROVE  Like(Fb!LinkToward(fixed[s], t), Fb!LinkToward(ns[s], t))
    <3> DEFINE new == Fb!LinkToward(fixed[s], t) old == Fb!LinkToward(ns[s], t)
    <3>1. old \in ns[s].links /\ old.peer = t /\ \A l \in ns[s].links : l.peer = t => l = old
      BY <2>3
    <3> HIDE DEF old
    <3>2. At(old, i) \in fixed[s].links /\ At(old, i).peer = t
      BY <2>1, <2>2, <3>1 DEF Like
    <3>3. new \in fixed[s].links /\ new.peer = t
      BY <3>2, Zenon DEF Fb!LinkToward
    <3> HIDE DEF new
    <3>4. PICK l \in ns[s].links : new = At(l, i) BY <2>1, <3>3
    <3>5. Like(new, l) BY <2>2, <3>4
    <3>6. l = old BY <3>1, <3>3, <3>5 DEF Like
    <3>q. QED BY <3>5, <3>6 DEF old, new
  <2>q. QED BY <2>1, <2>2, <2>3 DEF fixed
<1>q. QED BY <1>1, <1>2

\* A fabric whose rank r is at another index is a fabric.
LEMMA RegidFabric ==
    ASSUME NEW n \in Nat \ {0}, NEW ns, NEW hs, Fabric(ns, hs, n), NEW r \in 0 .. n - 1,
           NEW i \in Nat, Fb!ValidRails(ns[r])
    PROVE  /\ Fabric(Regid(ns, r, i), hs, n)
           /\ \A s \in 0 .. n - 1 :
                /\ Cardinality(Regid(ns, r, i)[s].links) = Cardinality(ns[s].links)
                /\ (Regid(ns, r, i)[s].links = {}) <=> (ns[s].links = {})
<1> DEFINE fixed == Regid(ns, r, i)
<1>0. ns \in [0 .. n - 1 -> Nodes] /\ OneForm(ns[r]) BY DEF Fabric
<1>1. /\ fixed[r].links = {At(l, i) : l \in ns[r].links}
      /\ fixed[r].rails = {At(l, i) : l \in ns[r].rails}
      /\ fixed[r].host = ns[r].host
      /\ DOMAIN fixed = 0 .. n - 1
      /\ \A s \in 0 .. n - 1 : s # r => fixed[s] = ns[s]
  <2> HIDE DEF fixed
  <2>1. /\ DOMAIN fixed = 0 .. n - 1
        /\ \A s \in 0 .. n - 1 : s # r => fixed[s] = ns[s]
        /\ \A s \in 0 .. n - 1 : fixed[s].host = ns[s].host
        /\ fixed[r].links = {At(l, i) : l \in ns[r].links}
        /\ fixed[r].rails = {At(l, i) : l \in ns[r].rails}
    BY RegidIs DEF fixed
  <2>q. QED BY <2>1
<1>2. fixed[r] \in Nodes
  <2>1. fixed[r] = [ns[r] EXCEPT !.links = {At(l, i) : l \in @},
                                 !.rails = {At(l, i) : l \in @}]
    BY <1>0 DEF Regid, Fb!Regid, At
  <2>2. {At(l, i) : l \in ns[r].links} \in SUBSET Links
    BY <1>0, AtIs DEF Nodes
  <2>3. {At(l, i) : l \in ns[r].rails} \in SUBSET OwnRails
    BY <1>0, AtIs DEF Nodes
  <2> HIDE DEF fixed
  <2>q. QED BY <1>0, <2>1, <2>2, <2>3 DEF Nodes
<1>3. fixed \in [0 .. n - 1 -> Nodes]
  <2>1. fixed \in [0 .. n - 1 -> Nodes]
    BY <1>0, <1>2 DEF Regid
  <2>q. QED BY <2>1
<1> HIDE DEF fixed
<1>4. IsFiniteSet(fixed[r].links) /\ Cardinality(fixed[r].links) = Cardinality(ns[r].links)
  <2>1. ns[r].links \in SUBSET Links /\ IsFiniteSet(ns[r].links)
    BY <1>0 DEF Nodes, OneForm
  <2>2. \A l, k \in ns[r].links : l.gid = k.gid
    BY DEF Fb!ValidRails, Fb!Rails, Fb!Linked
  <2>q. QED BY <1>1, <2>1, <2>2, RegidCounts
<1>5. (fixed[r].links = {}) <=> (ns[r].links = {}) BY <1>1
<1>6. OneForm(fixed[r])
  <2>1. CASE ns[r].links # {} BY <1>4, <1>5, <2>1 DEF OneForm
  <2>2. CASE ns[r].links = {}
    <3>1. PICK one \in ns[r].rails : \A other \in ns[r].rails : other.primary <=> other = one
      BY <1>0, <2>2 DEF OneForm
    <3>2. \A rail \in ns[r].rails : At(rail, i).primary = rail.primary
      BY <1>0, AtIs DEF Nodes
    <3>3. At(one, i) \in fixed[r].rails BY <1>1
    <3>4. ASSUME NEW new \in fixed[r].rails PROVE new.primary <=> new = At(one, i)
      <4>1. PICK rail \in ns[r].rails : new = At(rail, i) BY <1>1
      <4>2. new.primary = rail.primary BY <3>2, <4>1
      <4>3. CASE rail.primary BY <3>1, <4>1, <4>2, <4>3
      <4>4. CASE ~rail.primary
        <5>1. At(one, i).primary BY <3>1, <3>2
        <5>q. QED BY <4>2, <4>4, <5>1
      <4>q. QED BY <4>3, <4>4
    <3>q. QED BY <1>4, <3>3, <3>4 DEF OneForm
  <2>q. QED BY <2>1, <2>2
<1>7. Fabric(fixed, hs, n) BY <1>1, <1>3, <1>6 DEF Fabric
<1>q. QED BY <1>1, <1>4, <1>5, <1>7 DEF fixed

\* A linked list of nodes stays valid when one rank's rails move to another index.
LEMMA RegidNodes ==
    ASSUME NEW n \in Nat \ {0}, NEW ns, NEW hs, Fabric(ns, hs, n), NEW r \in 0 .. n - 1,
           NEW i \in Nat, Fb!ValidRails(ns[r]), Fb!ValidNodes(ns)
    PROVE  Fb!ValidNodes(Regid(ns, r, i))
<1> DEFINE fixed == Regid(ns, r, i)
<1>0. DOMAIN ns = 0 .. n - 1 BY DEF Fabric
<1>1. /\ DOMAIN fixed = 0 .. n - 1
      /\ \A s \in 0 .. n - 1 : s # r => fixed[s] = ns[s]
      /\ \A s \in 0 .. n - 1 : fixed[s].host = ns[s].host
  BY RegidIs
<1>2. \A s \in 0 .. n - 1 : /\ Cardinality(fixed[s].links) = Cardinality(ns[s].links)
                            /\ (fixed[s].links = {}) <=> (ns[s].links = {})
  BY RegidFabric
<1>3. \A s \in 0 .. n - 1 : /\ \A m \in fixed[s].links : \E l \in ns[s].links : Like(m, l)
                            /\ \A l \in ns[s].links : \E m \in fixed[s].links : Like(m, l)
  BY RegidLinks
<1>4. Fb!ValidRails(fixed[r]) BY RailsStayValid
<1>5. CASE n = 2 /\ \A s \in 0 .. n - 1 : ns[s].links = {} /\ ~Fb!HasHost(ns[s])
  <2> HIDE DEF fixed
  <2>1. Cardinality(0 .. n - 1) = n BY FS_Interval
  <2>2. Fb!Cardinality(DOMAIN fixed) = 2 BY <1>1, <1>5, <2>1, FbCardinality
  <2>3. \A s \in DOMAIN fixed : ~Fb!Linked(fixed[s]) /\ ~Fb!HasHost(fixed[s])
    BY <1>1, <1>2, <1>5 DEF Fb!Linked, Fb!HasHost
  <2>q. QED BY <2>2, <2>3 DEF Fb!ValidNodes, fixed
<1>6. CASE /\ \A s \in 0 .. n - 1 : ns[s].links # {} /\ Fb!ValidNode(ns, s)
           /\ \A s \in 0 .. n - 1 : \A l \in ns[s].links : Fb!ValidLink(ns, s, l)
           /\ Fb!ValidHosts(ns)
  <2>0. \A s, t \in 0 .. n - 1 : s # t => Like(Fb!LinkToward(fixed[s], t), Fb!LinkToward(ns[s], t))
    BY <1>6, RegidLinks, TowardIs
  <2> HIDE DEF fixed
  <2>1. ASSUME NEW s \in 0 .. n - 1 PROVE Fb!ValidNode(fixed, s)
    <3>0. Fb!ValidNode(ns, s) BY <1>6
    <3>1. {l.peer : l \in fixed[s].links} = {l.peer : l \in ns[s].links}
      BY <1>3 DEF Like
    <3>2. {l.peer : l \in fixed[s].links} = DOMAIN fixed \ {s}
      BY <1>0, <1>1, <3>0, <3>1 DEF Fb!ValidNode
    <3>3. Fb!Cardinality(fixed[s].links) = Fb!Cardinality(DOMAIN fixed) - 1
      BY <1>0, <1>1, <1>2, <3>0, FbCardinality DEF Fb!ValidNode
    <3>4. \A m \in fixed[s].links : Fb!IsFabric(m.peer_ip) /\ m.port = 1
      BY <1>3, <3>0 DEF Fb!ValidNode, Like
    <3>5. Fb!ValidRails(fixed[s])
      <4>1. Fb!ValidRails(ns[s]) BY <3>0 DEF Fb!ValidNode
      <4>q. QED BY <1>1, <1>4, <4>1
    <3>6. Fb!IsWifi(fixed[s].host.interface) => fixed[s].host.test
      BY <1>1, <3>0 DEF Fb!ValidNode
    <3>q. QED BY <3>2, <3>3, <3>4, <3>5, <3>6 DEF Fb!ValidNode
  <2>2. ASSUME NEW s \in 0 .. n - 1, NEW m \in fixed[s].links PROVE Fb!ValidLink(fixed, s, m)
    <3>1. PICK l \in ns[s].links : Like(m, l) BY <1>3
    <3>2. l.peer \in 0 .. n - 1 /\ l.peer # s BY <1>0, <1>6 DEF Fb!ValidNode
    <3>3. Fb!ValidLink(ns, s, l) BY <1>6
    <3>4. Like(Fb!LinkToward(fixed[l.peer], s), Fb!LinkToward(ns[l.peer], s))
      BY <2>0, <3>2
    <3>5. m.peer = l.peer BY <3>1 DEF Like
    <3>q. QED BY <3>1, <3>3, <3>4, <3>5 DEF Fb!ValidLink, Like
  <2>3. Fb!ValidHosts(fixed)
    <3>1. \A s \in 0 .. n - 1 : Fb!HasHost(fixed[s]) <=> Fb!HasHost(ns[s])
      BY <1>1 DEF Fb!HasHost
    <3>2. {s \in DOMAIN fixed : Fb!HasHost(fixed[s])} = {s \in DOMAIN ns : Fb!HasHost(ns[s])}
      BY <1>0, <1>1, <3>1
    <3>3. ASSUME NEW a \in 0 .. n - 1, Fb!HasHost(ns[a]), NEW s \in 0 .. n - 1,
                 NEW m \in fixed[s].links
          PROVE  fixed[a].host.address # m.local
      <4>1. PICK l \in ns[s].links : Like(m, l) BY <1>3
      <4>2. ns[a].host.address # l.local BY <1>0, <1>6, <3>3 DEF Fb!ValidHosts
      <4>q. QED BY <1>1, <4>1, <4>2 DEF Like
    <3>4. \A a \in {s \in DOMAIN ns : Fb!HasHost(ns[s])} : Fb!IsFabric(fixed[a].host.address)
      BY <1>0, <1>1, <1>6 DEF Fb!ValidHosts
    <3>5. \A a, b \in {s \in DOMAIN ns : Fb!HasHost(ns[s])} :
            a # b => fixed[a].host.address # fixed[b].host.address
      BY <1>0, <1>1, <1>6 DEF Fb!ValidHosts
    <3>q. QED BY <1>0, <1>1, <3>2, <3>3, <3>4, <3>5 DEF Fb!ValidHosts
  <2>4. ~\A s \in DOMAIN fixed : ~Fb!Linked(fixed[s])
    BY <1>1, <1>2, <1>6 DEF Fb!Linked
  <2>q. QED BY <1>1, <2>1, <2>2, <2>3, <2>4 DEF Fb!ValidNodes, fixed
<1>q. QED BY <1>5, <1>6, ValidForms

\* And so does the site each of its ranks makes of it.
LEMMA RegidSites ==
    ASSUME NEW n \in Nat \ {0}, NEW ns, NEW hs, Fabric(ns, hs, n), NEW r \in 0 .. n - 1,
           NEW i \in Nat, Fb!ValidRails(ns[r]), Fb!ValidNodes(ns), NEW s \in 0 .. n - 1
    PROVE  LET new == Fb!Site(Regid(ns, r, i), s)  old == Fb!Site(ns, s) IN
           /\ new.head_ip = old.head_ip /\ new.local_ip = old.local_ip
           /\ new.interface = old.interface
<1> DEFINE fixed == Regid(ns, r, i)
<1>0. 0 \in 0 .. n - 1 /\ DOMAIN ns = 0 .. n - 1 BY DEF Fabric
<1>1. Fabric(fixed, hs, n) BY RegidFabric
<1>2. \A t \in 0 .. n - 1 : fixed[t].host = ns[t].host BY RegidIs
<1>3. \A t \in 0 .. n - 1 : (fixed[t].links = {}) <=> (ns[t].links = {}) BY SMTT(20), RegidFabric
<1>6. fixed[r].rails = {At(l, i) : l \in ns[r].rails}
  <2> HIDE DEF fixed
  <2>1. fixed = Regid(ns, r, i) BY DEF fixed
  <2>2. Regid(ns, r, i)[r].rails = {At(l, i) : l \in ns[r].rails} BY RegidIs
  <2>q. QED BY <2>1, <2>2
<1>4. CASE \A t \in 0 .. n - 1 : ns[t].links = {}
  <2>1. ASSUME NEW t \in 0 .. n - 1
        PROVE  /\ Fb!Primary(fixed[t]).local = Fb!Primary(ns[t]).local
               /\ Fb!Primary(fixed[t]).interface = Fb!Primary(ns[t]).interface
    <3>1. CASE t # r BY <3>1, RegidIs
    <3>2. CASE t = r
      <4>1. fixed[r].rails = {At(l, i) : l \in ns[r].rails} BY <1>6
      <4>2. ns[t].rails \subseteq OwnRails BY DEF Fabric, Nodes
      <4> DEFINE old == Fb!Primary(ns[t])
      <4>3. old \in ns[t].rails /\ \A rail \in ns[t].rails : rail.primary <=> rail = old
        BY <1>4, PrimaryIs
      <4>4. \A rail \in fixed[t].rails : rail.primary <=> rail = Fb!Primary(fixed[t])
        BY <1>1, <1>3, <1>4, PrimaryIs
      <4> HIDE DEF old
      <4>5. At(old, i) \in fixed[t].rails /\ At(old, i).primary = old.primary
            /\ At(old, i).local = old.local /\ At(old, i).interface = old.interface
        BY <3>2, <4>1, <4>2, <4>3, AtIs
      <4>6. At(old, i) = Fb!Primary(fixed[t]) BY <4>3, <4>4, <4>5
      <4>q. QED BY <4>5, <4>6 DEF old
    <3>q. QED BY <3>1, <3>2
  <2>2. LET site == Fb!Site(ns, s) IN
        /\ site.head_ip = Fb!Primary(ns[0]).local /\ site.local_ip = Fb!Primary(ns[s]).local
        /\ site.interface = Fb!Primary(ns[s]).interface
    BY <1>4, SiteIs
  <2>3. LET site == Fb!Site(fixed, s) IN
        /\ site.head_ip = Fb!Primary(fixed[0]).local /\ site.local_ip = Fb!Primary(fixed[s]).local
        /\ site.interface = Fb!Primary(fixed[s]).interface
    BY <1>1, <1>3, <1>4, SiteIs
  <2>q. QED BY <1>0, <2>1, <2>2, <2>3
<1>5. CASE /\ \A t \in 0 .. n - 1 : ns[t].links # {} /\ Fb!ValidNode(ns, t)
           /\ \A t \in 0 .. n - 1 : \A link \in ns[t].links : Fb!ValidLink(ns, t, link)
  <2> DEFINE a == IF s = 0 THEN 1 ELSE s  b == IF s = 0 THEN 1 ELSE 0
  <2>1. a \in 0 .. n - 1 /\ a # 0 /\ b \in 0 .. n - 1 /\ b # s
    <3>1. PICK link \in ns[0].links : TRUE BY <1>0, <1>5
    <3>2. link.peer \in (0 .. n - 1) \ {0} BY <1>0, <1>5 DEF Fb!ValidNode
    <3>3. 1 \in 0 .. n - 1 BY <3>2
    <3>4. CASE s = 0 BY <3>3, <3>4
    <3>5. CASE s # 0 BY <1>0, <3>5
    <3>q. QED BY <3>4, <3>5
  <2>2. ASSUME NEW u \in 0 .. n - 1, NEW t \in 0 .. n - 1, u # t
        PROVE  Like(Fb!LinkToward(fixed[u], t), Fb!LinkToward(ns[u], t))
    <3>1. \A v \in 0 .. n - 1 : u # v =>
            /\ Fb!LinkToward(ns[u], v) \in ns[u].links /\ Fb!LinkToward(ns[u], v).peer = v
            /\ \A l \in ns[u].links : l.peer = v => l = Fb!LinkToward(ns[u], v)
      BY <1>5, TowardIs
    <3>q. QED BY <2>2, <3>1, RegidLinks
  <2>3. LET site == Fb!Site(ns, s) IN
        /\ site.head_ip = IF Fb!HasHost(ns[0]) THEN ns[0].host.address
                          ELSE Fb!LinkToward(ns[0], a).local
        /\ site.local_ip = IF Fb!HasHost(ns[s]) THEN ns[s].host.address
                           ELSE Fb!LinkToward(ns[s], b).local
        /\ site.interface = IF Fb!HasHost(ns[s]) THEN ns[s].host.interface
                            ELSE Fb!LinkToward(ns[s], b).interface
    BY <1>5, SiteIs
  <2>4. LET site == Fb!Site(fixed, s) IN
        /\ site.head_ip = IF Fb!HasHost(fixed[0]) THEN fixed[0].host.address
                          ELSE Fb!LinkToward(fixed[0], a).local
        /\ site.local_ip = IF Fb!HasHost(fixed[s]) THEN fixed[s].host.address
                           ELSE Fb!LinkToward(fixed[s], b).local
        /\ site.interface = IF Fb!HasHost(fixed[s]) THEN fixed[s].host.interface
                            ELSE Fb!LinkToward(fixed[s], b).interface
    BY <1>1, <1>3, <1>5, SiteIs
  <2> HIDE DEF fixed, a, b
  <2>5. Like(Fb!LinkToward(fixed[0], a), Fb!LinkToward(ns[0], a))
        /\ Like(Fb!LinkToward(fixed[s], b), Fb!LinkToward(ns[s], b))
    BY <1>0, <2>1, <2>2
  <2>6. Fb!HasHost(fixed[0]) <=> Fb!HasHost(ns[0]) BY <1>0, <1>2 DEF Fb!HasHost
  <2>7. Fb!HasHost(fixed[s]) <=> Fb!HasHost(ns[s]) BY <1>2 DEF Fb!HasHost
  <2>q. QED BY <1>0, <1>2, <2>3, <2>4, <2>5, <2>6, <2>7 DEF Like, fixed
<1>q. QED BY <1>4, <1>5, ValidForms

\* An index the hint of a refusal offers puts the rank's profile right, and nothing else wrong.
LEMMA HintsHelp ==
    ASSUME NEW n \in Nat \ {0}, NEW ns, NEW hs, Fabric(ns, hs, n), NEW r \in 0 .. n - 1,
           Fb!Valid(ns)
    PROVE  Fb!HintHelps(ns, hs, r)
<1> DEFINE hints == Fb!GidHints(ns, r, hs[r])
           holding(rail) == IF rail \in DOMAIN hints THEN hints[rail] ELSE {rail.gid}
<1>0. DOMAIN ns = 0 .. n - 1 /\ ns[r] \in Nodes /\ hs[r] \in Hosts BY DEF Fabric
<1>1. Fb!ValidNodes(ns) /\ \A s \in 0 .. n - 1 : Fb!ValidSite(ns, s)
  BY <1>0 DEF Fb!Valid
<1>2. Fb!ValidRails(ns[r]) BY <1>1 DEF Fb!ValidSite
<1>3. SUFFICES ASSUME NEW i \in Fb!GidFix(ns, r, hs[r])
               PROVE  /\ Fb!Valid(Regid(ns, r, i))
                      /\ \A rail \in Fb!Rails(Regid(ns, r, i)[r]) : Fb!RoceV2Gid(hs[r], i, rail)
  BY DEF Fb!HintHelps, Regid
<1> DEFINE fixed == Regid(ns, r, i)
<1>4. /\ \E rail \in Fb!Rails(ns[r]) : i \in holding(rail)
      /\ \A rail \in Fb!Rails(ns[r]) : i \in holding(rail)
  <2>1. i \in {j \in UNION {holding(rail) : rail \in Fb!Rails(ns[r])} :
                 \A rail \in Fb!Rails(ns[r]) : j \in holding(rail)}
    BY <1>3 DEF Fb!GidFix
  <2>q. QED BY <2>1
<1>5. ASSUME NEW rail \in Fb!Rails(ns[r])
      PROVE  /\ i \in Nat
             /\ \E gid \in hs[r].gids : /\ gid.port = <<rail.hca, rail.port>> /\ gid.index = i
                                        /\ gid.address = rail.local
                                        /\ gid.interface = rail.interface
  <2>0. rail.gid \in Nat BY <1>0 DEF Fb!Rails, Nodes, Links, OwnRails
  <2>1. CASE ~Fb!RoceV2Gid(hs[r], rail.gid, rail)
    <3>1. rail \in DOMAIN hints /\ hints[rail] =
            {gid.index : gid \in {g \in hs[r].gids : /\ g.port = <<rail.hca, rail.port>>
                                                     /\ g.address = rail.local
                                                     /\ g.interface = rail.interface}}
      BY <2>1 DEF Fb!GidHints
    <3>2. i \in hints[rail] BY <1>4, <3>1
    <3>3. PICK gid \in hs[r].gids : /\ gid.port = <<rail.hca, rail.port>> /\ gid.index = i
                                    /\ gid.address = rail.local
                                    /\ gid.interface = rail.interface
      BY <3>1, <3>2
    <3>4. gid.index \in Nat BY <1>0 DEF Hosts, Gids
    <3>q. QED BY <3>3, <3>4
  <2>2. CASE Fb!RoceV2Gid(hs[r], rail.gid, rail)
    <3>1. rail \notin DOMAIN hints BY <2>2 DEF Fb!GidHints
    <3>2. i = rail.gid BY <1>4, <3>1
    <3>q. QED BY <2>0, <2>2, <3>2 DEF Fb!RoceV2Gid
  <2>q. QED BY <2>1, <2>2
<1>6. i \in Nat BY <1>4, <1>5
<1>7. /\ Fb!Rails(fixed[r]) = {At(l, i) : l \in Fb!Rails(ns[r])}
      /\ \A rail \in Fb!Rails(ns[r]) : LET new == At(rail, i) IN
           /\ new.gid = i /\ new.hca = rail.hca /\ new.port = rail.port
           /\ new.interface = rail.interface /\ new.local = rail.local
      /\ Fb!ValidRails(fixed[r])
  BY <1>2, <1>6, RailsStayValid
<1>8. ASSUME NEW new \in Fb!Rails(fixed[r]) PROVE Fb!RoceV2Gid(hs[r], i, new)
  <2>1. PICK rail \in Fb!Rails(ns[r]) : new = At(rail, i) BY <1>7
  <2>2. PICK gid \in hs[r].gids : /\ gid.port = <<rail.hca, rail.port>> /\ gid.index = i
                                  /\ gid.address = rail.local
                                  /\ gid.interface = rail.interface
    BY <1>5
  <2>3. gid \in Gids BY <1>0 DEF Hosts
  <2>4. new.hca = rail.hca /\ new.port = rail.port /\ new.local = rail.local
        /\ new.interface = rail.interface
    BY <1>7, <2>1
  <2>5. gid = [port |-> <<new.hca, new.port>>, index |-> i, address |-> new.local,
               interface |-> new.interface]
    BY <2>2, <2>3, <2>4 DEF Gids
  <2>q. QED BY <2>5 DEF Fb!RoceV2Gid
<1>9. Fb!ValidNodes(fixed) BY <1>1, <1>2, <1>6, RegidNodes
<1>10. ASSUME NEW s \in 0 .. n - 1 PROVE Fb!ValidSite(fixed, s)
  <2> DEFINE new == Fb!Site(fixed, s)  old == Fb!Site(ns, s)
  <2>1. new.head_ip = old.head_ip /\ new.local_ip = old.local_ip /\ new.interface = old.interface
    BY <1>1, <1>2, <1>6, RegidSites
  <2>2. /\ Fb!IsFabric(old.head_ip) /\ Fb!IsFabric(old.local_ip)
        /\ (s = 0) = (old.head_ip = old.local_ip)
        /\ Fb!IsWifi(old.interface) => ns[s].host.test
        /\ Fb!ValidRails(ns[s])
    BY <1>1 DEF Fb!ValidSite
  <2>3. fixed[s].host = ns[s].host BY <1>6, RegidIs
  <2>4. Fb!ValidRails(fixed[s])
    <3>1. CASE s = r BY <1>7, <3>1
    <3>2. CASE s # r
      <4>1. fixed[s] = ns[s] BY <1>6, <3>2, RegidIs
      <4>q. QED BY <2>2, <4>1
    <3>q. QED BY <3>1, <3>2
  <2> HIDE DEF fixed, new, old
  <2>q. QED BY <2>1, <2>2, <2>3, <2>4 DEF Fb!ValidSite, new, old
<1>11. DOMAIN fixed = 0 .. n - 1 BY <1>6, RegidIs
<1>12. Fb!Valid(fixed) BY <1>9, <1>10, <1>11 DEF Fb!Valid
<1>q. QED BY <1>8, <1>12

\* Ranks whose fabric is valid and whose hosts pass agree, however many there are.
THEOREM RanksAgree ==
    ASSUME NEW n \in Nat \ {0}, NEW ns, NEW hs, Fabric(ns, hs, n)
    PROVE  Fb!Agrees(ns, hs)
<1>0. DOMAIN ns = 0 .. n - 1 /\ 0 \in 0 .. n - 1 BY DEF Fabric
<1>1. SUFFICES ASSUME Fb!Valid(ns)
               PROVE  /\ \A r \in 0 .. n - 1 : Fb!ProbesPair(ns, r) /\ Fb!HintHelps(ns, hs, r)
                      /\ (\A r \in 0 .. n - 1 : Fb!Checks(ns, r, hs[r])) =>
                           \A r \in 0 .. n - 1 : /\ Fb!MeetsHead(ns, hs, r)
                                                 /\ Fb!NamesItsPorts(ns, hs, r)
  BY <1>0 DEF Fb!Agrees
<1>2. Fb!ValidNodes(ns) BY <1>1 DEF Fb!Valid
<1>3. \A r \in 0 .. n - 1 : Fb!ProbesPair(ns, r) BY <1>2, ProbesAgree
<1>4. \A r \in 0 .. n - 1 : Fb!HintHelps(ns, hs, r) BY <1>1, HintsHelp
<1>5. ASSUME \A r \in 0 .. n - 1 : Fb!Checks(ns, r, hs[r]), NEW r \in 0 .. n - 1
      PROVE  Fb!MeetsHead(ns, hs, r) /\ Fb!NamesItsPorts(ns, hs, r)
  BY <1>0, <1>1, <1>2, <1>5, HeadMet, PortsNamed
<1>q. QED BY <1>3, <1>4, <1>5

-----------------------------------------------------------------------------
\* The node list and the hosts of a behaviour are a fabric.
FabricTyped == subject = "fabric" => \E n \in Nat \ {0} : Fabric(nodes, hosts, n)

\* What the edits put in is what a profile may hold.
LEMMA EditsTyped ==
    /\ Addresses \subseteq Addrs
    /\ \A link \in Links : ChangedLink(link) \subseteq Links
    /\ \A rail \in OwnRails : Changed(rail) \subseteq OwnRails
    /\ \A rail \in OwnRails : \A new \in Changed(rail) : new.primary = rail.primary
    /\ \A r \in Nat : ChangedHost(r) \subseteq HostAddrs
<1>0. \A m, h \in Nat : A(m, h) \in Addrs BY DEF A, Addrs
<1>1. Addresses \subseteq Addrs
  <2>1. \A a \in Addresses : \E m \in 0 .. 3, h \in 1 .. 2 : a = A(m, h)
    BY DEF Addresses
  <2>q. QED BY <1>0, <2>1
<1>2. \A link \in Links : Changed(link) \subseteq Links
  <2> SUFFICES ASSUME NEW link \in Links, NEW new \in Changed(link) PROVE new \in Links
    OBVIOUS
  <2>1. CASE new \in {[link EXCEPT !.local = a] : a \in Addresses}
    BY <1>1, <2>1 DEF Links
  <2>2. CASE new \in {[link EXCEPT !.gid = 4]} BY <2>2 DEF Links
  <2>3. CASE new \in {[link EXCEPT !.interface = i] : i \in {"fabric0", "fabric1", "wlan"}}
    BY <2>3 DEF Links, Strings
  <2>4. CASE new \in {[link EXCEPT !.hca = h] : h \in {"roce0", "roce1"}}
    BY <2>4 DEF Links, Strings
  <2>q. QED BY <2>1, <2>2, <2>3, <2>4 DEF Changed
<1>3. \A link \in Links : ChangedLink(link) \subseteq Links
  BY <1>1, <1>2 DEF ChangedLink, Links
<1>4. \A rail \in OwnRails : Changed(rail) \subseteq OwnRails
  <2> SUFFICES ASSUME NEW rail \in OwnRails, NEW new \in Changed(rail) PROVE new \in OwnRails
    OBVIOUS
  <2>1. CASE new \in {[rail EXCEPT !.local = a] : a \in Addresses}
    BY <1>1, <2>1 DEF OwnRails
  <2>2. CASE new \in {[rail EXCEPT !.gid = 4]} BY <2>2 DEF OwnRails
  <2>3. CASE new \in {[rail EXCEPT !.interface = i] : i \in {"fabric0", "fabric1", "wlan"}}
    BY <2>3 DEF OwnRails, Strings
  <2>4. CASE new \in {[rail EXCEPT !.hca = h] : h \in {"roce0", "roce1"}} BY <2>4 DEF OwnRails, Strings
  <2>q. QED BY <2>1, <2>2, <2>3, <2>4 DEF Changed
<1>5. \A rail \in OwnRails : \A new \in Changed(rail) : new.primary = rail.primary
  BY <1>1 DEF Changed, OwnRails, Strings
<1>6. ASSUME NEW r \in Nat PROVE ChangedHost(r) \subseteq HostAddrs
  <2>1. ASSUME NEW s \in Nat PROVE Dummy(s) \in HostAddrs
    <3>1. A(9, s) \in Addrs BY <1>0
    <3>q. QED BY <3>1 DEF Dummy, HostAddrs, Strings
  <2>2. \A s, t \in Nat : End(s, t) \in Addrs BY <1>0 DEF End, Net
  <2>3. A(9, r) \in Addrs /\ End(r, (r + 1) % 2) \in Addrs BY <1>0, <2>2
  <2>4. Fb!NoHost \in HostAddrs BY DEF Fb!NoHost, HostAddrs, Addrs, Strings
  <2>5. [Dummy(r) EXCEPT !.interface = "wlan"] \in HostAddrs BY <2>1 DEF HostAddrs, Strings
  <2>6. [address |-> A(9, r), interface |-> "wlan", test |-> TRUE] \in HostAddrs
    BY <2>3 DEF HostAddrs, Strings
  <2>7. [Dummy(r) EXCEPT !.address = End(r, (r + 1) % 2)] \in HostAddrs
    BY <2>1, <2>3 DEF HostAddrs, Strings
  <2>q. QED BY <2>1, <2>4, <2>5, <2>6, <2>7 DEF ChangedHost
<1>q. QED BY <1>1, <1>3, <1>4, <1>5, <1>6

\* A host set up the way its node says is a host.
LEMMA HostTyped == ASSUME NEW node \in Nodes PROVE HostOf(node) \in Hosts
<1>1. \A rail \in Fb!Rails(node) : /\ rail.interface \in Strings /\ rail.hca \in Strings
                                   /\ rail.port \in Nat /\ rail.gid \in Nat /\ rail.local \in Addrs
  BY DEF Fb!Rails, Nodes, Links, OwnRails
<1>2. node.host.interface \in Strings /\ node.host.address \in Addrs BY DEF Nodes, HostAddrs
<1>3. {rail.interface : rail \in Fb!Rails(node)} \in SUBSET Strings BY <1>1
<1>4. {<<rail.hca, rail.port>> : rail \in Fb!Rails(node)} \in SUBSET (Strings \X Nat) BY <1>1
<1>5. {<<rail.interface, rail.local>> : rail \in Fb!Rails(node)} \cup
        (IF Fb!HasHost(node) THEN {<<node.host.interface, node.host.address>>} ELSE {})
      \in SUBSET (Strings \X Addrs)
  BY <1>1, <1>2
<1>6. {[port |-> <<rail.hca, rail.port>>, index |-> rail.gid, address |-> rail.local,
        interface |-> rail.interface] : rail \in Fb!Rails(node)} \in SUBSET Gids
  BY <1>1 DEF Gids
<1>q. QED BY <1>3, <1>4, <1>5, <1>6 DEF HostOf, Hosts

\* A fabric with one node, or one host, changed for another of its kind is a fabric.
LEMMA FabricChanged ==
    ASSUME NEW n \in Nat \ {0}, NEW ns, NEW hs, Fabric(ns, hs, n), NEW r \in 0 .. n - 1
    PROVE  /\ \A node \in Nodes : OneForm(node) => Fabric([ns EXCEPT ![r] = node], hs, n)
           /\ \A host \in Hosts : Fabric(ns, [hs EXCEPT ![r] = host], n)
BY DEF Fabric

\* Each edit leaves a fabric behind.
LEMMA FabricTypedStep == FabricTyped /\ MCNext => FabricTyped'
<1> SUFFICES ASSUME FabricTyped, MCNext, subject' = "fabric"
             PROVE  \E n \in Nat \ {0} : Fabric(nodes', hosts', n)
  BY DEF FabricTyped
<1>1. subject = "fabric" BY DEF MCNext, Only
<1>2. PICK n \in Nat \ {0} : Fabric(nodes, hosts, n) BY <1>1 DEF FabricTyped
<1>3. DOMAIN nodes = 0 .. n - 1 BY <1>2 DEF Fabric
<1>4. CASE \E r \in DOMAIN nodes : \/ EditLink(r) \/ EditRail(r) \/ EditHost(r) \/ MoveGid(r)
                                   \/ Unplug(r) \/ Readdress(r) \/ Unload(r) \/ Follow(r)
  <2>1. PICK r \in 0 .. n - 1 : \/ EditLink(r) \/ EditRail(r) \/ EditHost(r) \/ MoveGid(r)
                                \/ Unplug(r) \/ Readdress(r) \/ Unload(r) \/ Follow(r)
    BY <1>3, <1>4
  <2>2. nodes[r] \in Nodes /\ hosts[r] \in Hosts /\ OneForm(nodes[r]) /\ r \in Nat
    BY <1>2 DEF Fabric
  <2>3. CASE EditLink(r)
    <3>0. PICK old \in nodes[r].links : \E new \in ChangedLink(old) :
            nodes' = [nodes EXCEPT ![r] = [nodes[r] EXCEPT !.links = (@ \ {old}) \cup {new}]]
      BY <2>3 DEF EditLink
    <3>1. PICK new \in ChangedLink(old) :
            nodes' = [nodes EXCEPT ![r] = [nodes[r] EXCEPT !.links = (@ \ {old}) \cup {new}]]
      BY <3>0
    <3>2. new \in Links BY <2>2, EditsTyped DEF Nodes
    <3> DEFINE links == (nodes[r].links \ {old}) \cup {new}
               node == [nodes[r] EXCEPT !.links = links]
    <3>3. nodes' = [nodes EXCEPT ![r] = node] BY <3>1
    <3>4. links \in SUBSET Links BY <2>2, <3>2 DEF Nodes
    <3>5. IsFiniteSet(links)
      <4>1. IsFiniteSet(nodes[r].links) BY <2>2 DEF OneForm
      <4>2. IsFiniteSet(nodes[r].links \ {old}) BY <4>1, FS_Subset
      <4>q. QED BY <4>2, FS_AddElement
    <3>6. links # {} OBVIOUS
    <3> HIDE DEF links
    <3>7. node \in Nodes /\ node.links = links BY <2>2, <3>4 DEF Nodes
    <3>8. OneForm(node) BY <3>5, <3>6, <3>7 DEF OneForm
    <3> HIDE DEF node
    <3>9. Fabric([nodes EXCEPT ![r] = node], hosts, n) BY <1>2, <3>7, <3>8, FabricChanged
    <3>q. QED BY <2>3, <3>3, <3>9 DEF EditLink
  <2>4. CASE EditRail(r)
    <3>0. PICK old \in nodes[r].rails : \E new \in Changed(old) :
            nodes' = [nodes EXCEPT ![r] = [nodes[r] EXCEPT !.rails = (@ \ {old}) \cup {new}]]
      BY <2>4 DEF EditRail
    <3>1. PICK new \in Changed(old) :
            nodes' = [nodes EXCEPT ![r] = [nodes[r] EXCEPT !.rails = (@ \ {old}) \cup {new}]]
      BY <3>0
    <3>2. old \in OwnRails /\ nodes[r].rails \in SUBSET OwnRails BY <2>2 DEF Nodes
    <3>3. new \in OwnRails /\ new.primary = old.primary BY <3>2, EditsTyped
    <3> DEFINE rails == (nodes[r].rails \ {old}) \cup {new}
               node == [nodes[r] EXCEPT !.rails = rails]
    <3>4. nodes' = [nodes EXCEPT ![r] = node] BY <3>1
    <3>5. node \in Nodes /\ node.rails = rails /\ node.links = nodes[r].links
      BY <2>2, <3>2, <3>3 DEF Nodes
    <3>6. OneForm(node)
      <4>1. CASE nodes[r].links # {} BY <2>2, <3>5, <4>1 DEF OneForm
      <4>2. CASE nodes[r].links = {}
        <5>1. PICK one \in nodes[r].rails : \A other \in nodes[r].rails : other.primary <=> other = one
          BY <2>2, <4>2 DEF OneForm
        <5>2. CASE old = one
          <6>1. \A other \in rails : other.primary <=> other = new
            BY <3>3, <5>1, <5>2
          <6>q. QED BY <2>2, <3>5, <6>1 DEF OneForm
        <5>3. CASE old # one
          <6>1. \A other \in rails : other.primary <=> other = one
            BY <3>3, <5>1, <5>3
          <6>2. one \in rails BY <5>1, <5>3
          <6>q. QED BY <2>2, <3>5, <6>1, <6>2 DEF OneForm
        <5>q. QED BY <5>2, <5>3
      <4>q. QED BY <4>1, <4>2
    <3> HIDE DEF node
    <3>7. Fabric([nodes EXCEPT ![r] = node], hosts, n) BY <1>2, <3>5, <3>6, FabricChanged
    <3>q. QED BY <2>4, <3>4, <3>7 DEF EditRail
  <2>5. CASE EditHost(r)
    <3>1. PICK new \in ChangedHost(r) : nodes' = [nodes EXCEPT ![r] = [nodes[r] EXCEPT !.host = new]]
      BY <2>5 DEF EditHost
    <3> DEFINE node == [nodes[r] EXCEPT !.host = new]
    <3>2. new \in HostAddrs BY <2>2, EditsTyped
    <3>3. node \in Nodes /\ node.links = nodes[r].links /\ node.rails = nodes[r].rails
      BY <2>2, <3>2 DEF Nodes
    <3>4. OneForm(node) BY <2>2, <3>3 DEF OneForm
    <3>5. nodes' = [nodes EXCEPT ![r] = node] BY <3>1
    <3> HIDE DEF node
    <3>6. Fabric([nodes EXCEPT ![r] = node], hosts, n) BY <1>2, <3>3, <3>4, FabricChanged
    <3>q. QED BY <2>5, <3>5, <3>6 DEF EditHost
  <2>6. CASE MoveGid(r)
    <3>1. PICK gid \in hosts[r].gids : hosts' = [hosts EXCEPT ![r] =
            [hosts[r] EXCEPT !.gids = (@ \ {gid}) \cup {[gid EXCEPT !.index = 4]}]]
      BY <2>6 DEF MoveGid
    <3> DEFINE gids == (hosts[r].gids \ {gid}) \cup {[gid EXCEPT !.index = 4]}
               host == [hosts[r] EXCEPT !.gids = gids]
    <3>2. [gid EXCEPT !.index = 4] \in Gids BY <2>2 DEF Hosts, Gids
    <3>3. gids \in SUBSET Gids BY <2>2, <3>2 DEF Hosts
    <3>4. hosts' = [hosts EXCEPT ![r] = host] BY <3>1
    <3> HIDE DEF gids
    <3>5. host \in Hosts BY <2>2, <3>3 DEF Hosts
    <3> HIDE DEF host
    <3>6. Fabric(nodes, [hosts EXCEPT ![r] = host], n) BY <1>2, <3>5, FabricChanged
    <3>q. QED BY <2>6, <3>4, <3>6 DEF MoveGid
  <2>7. CASE Unplug(r)
    <3>1. PICK i \in hosts[r].up : hosts' = [hosts EXCEPT ![r] = [hosts[r] EXCEPT !.up = @ \ {i}]]
      BY <2>7 DEF Unplug
    <3> DEFINE host == [hosts[r] EXCEPT !.up = hosts[r].up \ {i}]
    <3>2. hosts' = [hosts EXCEPT ![r] = host] BY <3>1
    <3>3. hosts[r].up \ {i} \in SUBSET Strings BY <2>2 DEF Hosts
    <3>4. host \in Hosts BY <2>2, <3>3 DEF Hosts
    <3> HIDE DEF host
    <3>5. Fabric(nodes, [hosts EXCEPT ![r] = host], n) BY <1>2, <3>4, FabricChanged
    <3>q. QED BY <2>7, <3>2, <3>5 DEF Unplug
  <2>8. CASE Readdress(r)
    <3>1. PICK c \in hosts[r].carries, a \in Addresses : hosts' = [hosts EXCEPT ![r] =
            [hosts[r] EXCEPT !.carries = (@ \ {c}) \cup {<<c[1], a>>}]]
      BY <2>8 DEF Readdress
    <3> DEFINE carries == (hosts[r].carries \ {c}) \cup {<<c[1], a>>}
               host == [hosts[r] EXCEPT !.carries = carries]
    <3>2. a \in Addrs BY EditsTyped
    <3>3. carries \in SUBSET (Strings \X Addrs) BY <2>2, <3>2 DEF Hosts
    <3>4. hosts' = [hosts EXCEPT ![r] = host] BY <3>1
    <3> HIDE DEF carries
    <3>5. host \in Hosts BY <2>2, <3>3 DEF Hosts
    <3> HIDE DEF host
    <3>6. Fabric(nodes, [hosts EXCEPT ![r] = host], n) BY <1>2, <3>5, FabricChanged
    <3>q. QED BY <2>8, <3>4, <3>6 DEF Readdress
  <2>9. CASE Unload(r)
    <3> DEFINE host == [hosts[r] EXCEPT !.rdma = FALSE]
    <3>1. hosts' = [hosts EXCEPT ![r] = host] BY <2>9 DEF Unload
    <3>2. host \in Hosts BY <2>2 DEF Hosts
    <3> HIDE DEF host
    <3>3. Fabric(nodes, [hosts EXCEPT ![r] = host], n) BY <1>2, <3>2, FabricChanged
    <3>q. QED BY <2>9, <3>1, <3>3 DEF Unload
  <2>10. CASE Follow(r)
    <3>1. HostOf(nodes[r]) \in Hosts BY <2>2, HostTyped
    <3>2. Fabric(nodes, [hosts EXCEPT ![r] = HostOf(nodes[r])], n) BY <1>2, <3>1, FabricChanged
    <3>q. QED BY <2>10, <3>1, <3>2 DEF Follow
  <2>q. QED BY <2>1, <2>3, <2>4, <2>5, <2>6, <2>7, <2>8, <2>9, <2>10
<1>5. CASE ~\E r \in DOMAIN nodes : \/ EditLink(r) \/ EditRail(r) \/ EditHost(r) \/ MoveGid(r)
                                    \/ Unplug(r) \/ Readdress(r) \/ Unload(r) \/ Follow(r)
  <2>1. UNCHANGED <<nodes, hosts>> BY <1>1, <1>5 DEF MCNext, Only, fabricVars
  <2>q. QED BY <1>2, <2>1
<1>q. QED BY <1>4, <1>5

\* Where a fabric begins: rails of two nodes' own, or a ring of two or three.
LEMMA FabricInit == MCInit => FabricTyped
<1> SUFFICES ASSUME MCInit, subject = "fabric" PROVE \E n \in Nat \ {0} : Fabric(nodes, hosts, n)
  BY DEF FabricTyped
<1>1. /\ nodes \in {Pair, Ring(2, {})} \cup {Ring(3, h) : h \in {{}, {0}, {1, 2}, 0 .. 2}}
      /\ hosts = [r \in DOMAIN nodes |-> HostOf(nodes[r])]
  BY DEF MCInit
<1>0. \A m, h \in Nat : A(m, h) \in Addrs BY DEF A, Addrs
<1>e. \A s, t \in Nat : End(s, t) \in Addrs BY <1>0 DEF End, Net
<1>h. Fb!NoHost \in HostAddrs BY DEF Fb!NoHost, HostAddrs, Addrs, Strings
<1>2. ASSUME NEW n \in {2, 3}, NEW r \in 0 .. n - 1
      PROVE  Cable(n, r) \in SUBSET Links /\ IsFiniteSet(Cable(n, r)) /\ Cable(n, r) # {}
  <2> DEFINE S == (0 .. n - 1) \ {r}
             link(s) == LET right == s = (r + 1) % n IN
               [peer |-> s, hca |-> IF right THEN "roce0" ELSE "roce1", port |-> 1, gid |-> 3,
                interface |-> IF right THEN "fabric0" ELSE "fabric1",
                local |-> End(r, s), peer_ip |-> End(s, r)]
             f == [s \in S |-> link(s)]
             T == {link(s) : s \in S}
  <2>1. Cable(n, r) = T BY DEF Cable
  <2>2. \A s \in S : link(s) \in Links BY <1>e DEF Links, Strings
  <2> HIDE DEF link
  <2>3. IsFiniteSet(S)
    <3>1. IsFiniteSet(0 .. n - 1) BY FS_Interval
    <3>q. QED BY <3>1, FS_RemoveElement
  <2>4. S # {}
    <3>1. CASE r = 0 BY <3>1
    <3>2. CASE r # 0 BY <3>2
    <3>q. QED BY <3>1, <3>2
  <2> HIDE DEF S
  <2>5. f \in Surjection(S, T) BY DEF Surjection
  <2>6. IsFiniteSet(T) BY <2>3, <2>5, FS_Surjection
  <2>q. QED BY <2>1, <2>2, <2>4, <2>6
<1>3. ASSUME NEW n \in {2, 3}, NEW hosted
      PROVE  /\ Ring(n, hosted) \in [0 .. n - 1 -> Nodes]
             /\ \A r \in 0 .. n - 1 : OneForm(Ring(n, hosted)[r])
  <2>1. ASSUME NEW r \in 0 .. n - 1
        PROVE  /\ Ring(n, hosted)[r] = [links |-> Cable(n, r), rails |-> {},
                    host |-> IF r \in hosted THEN Dummy(r) ELSE Fb!NoHost]
               /\ Ring(n, hosted)[r] \in Nodes /\ OneForm(Ring(n, hosted)[r])
    <3>1. Ring(n, hosted)[r] = [links |-> Cable(n, r), rails |-> {},
                    host |-> IF r \in hosted THEN Dummy(r) ELSE Fb!NoHost]
      BY DEF Ring
    <3>2. Dummy(r) \in HostAddrs
      <4>1. A(9, r) \in Addrs BY <1>0
      <4>q. QED BY <4>1 DEF Dummy, HostAddrs, Strings
    <3>3. (IF r \in hosted THEN Dummy(r) ELSE Fb!NoHost) \in HostAddrs BY <1>h, <3>2
    <3>q. QED BY <1>2, <3>1, <3>3 DEF Nodes, OneForm
  <2>q. QED BY <2>1 DEF Ring
<1>4. Pair \in [0 .. 1 -> Nodes] /\ \A r \in 0 .. 1 : OneForm(Pair[r])
  <2>1. ASSUME NEW r \in 0 .. 1 PROVE Pair[r] \in Nodes /\ OneForm(Pair[r])
    <3> DEFINE one == Rail("roce0", "fabric0", End(r, 1 - r), TRUE)
               two == Rail("roce1", "fabric1", A(5, r + 1), FALSE)
    <3>1. Pair[r] = [links |-> {}, host |-> Fb!NoHost, rails |-> {one, two}] BY DEF Pair
    <3>2. one \in OwnRails /\ one.primary = TRUE
      <4>1. End(r, 1 - r) \in Addrs BY <1>e
      <4>q. QED BY <4>1 DEF Rail, OwnRails, Strings
    <3>3. two \in OwnRails /\ two.primary = FALSE
      <4>1. A(5, r + 1) \in Addrs BY <1>0
      <4>q. QED BY <4>1 DEF Rail, OwnRails, Strings
    <3> HIDE DEF one, two
    <3>4. Pair[r] \in Nodes BY <1>h, <3>1, <3>2, <3>3 DEF Nodes
    <3>5. Pair[r].links = {} /\ Pair[r].rails = {one, two} BY <3>1
    <3>6. \A other \in {one, two} : other.primary <=> other = one BY <3>2, <3>3
    <3>q. QED BY <3>4, <3>5, <3>6, FS_EmptySet DEF OneForm
  <2>q. QED BY <2>1 DEF Pair
<1>5. \E n \in {2, 3} : nodes \in [0 .. n - 1 -> Nodes] /\ \A r \in 0 .. n - 1 : OneForm(nodes[r])
  <2>1. CASE nodes = Pair BY <1>4, <2>1
  <2>2. CASE \E n \in {2, 3} : \E h : nodes = Ring(n, h) BY <1>3, <2>2
  <2>q. QED BY <1>1, <2>1, <2>2
<1>6. PICK n \in {2, 3} : nodes \in [0 .. n - 1 -> Nodes] /\ \A r \in 0 .. n - 1 : OneForm(nodes[r])
  BY <1>5
<1>7. hosts \in [0 .. n - 1 -> Hosts] BY <1>1, <1>6, HostTyped
<1>8. n \in Nat \ {0} OBVIOUS
<1>q. QED BY <1>6, <1>7, <1>8 DEF Fabric

\* In every behaviour, ranks whose own checks pass agree.
THEOREM FabricAgreed == MCSpec => []FabricAgrees
<1>1. FabricTyped /\ [MCNext]_<<vars, subject, p, fabricVars, downloadVars, patchesVars>>
      => FabricTyped'
  <2>1. FabricTyped /\ UNCHANGED <<vars, subject, p, fabricVars, downloadVars, patchesVars>>
        => FabricTyped'
    BY DEF FabricTyped, fabricVars
  <2>q. QED BY <2>1, FabricTypedStep
<1>2. FabricTyped => FabricAgrees
  BY RanksAgree DEF FabricTyped, FabricAgrees
<1>q. QED BY <1>1, <1>2, FabricInit, PTL DEF MCSpec

-----------------------------------------------------------------------------
(* The patches of the package: what the recursive UpTo computes.  The chain   *)
(* is CHOSEn, so that there is one has to be shown: Grown writes it out.      *)

\* What line k of the Dockerfile adds to a file's text.
Put(f, k, text) == IF f \in DOMAIN Pa!Sources[Pa!Dockerfile[k]]
                   THEN Append(text, Pa!Dockerfile[k]) ELSE text

\* The text after each line, line by line.
Grown1(f) == Put(f, 1, <<>>)
Grown2(f) == Put(f, 2, Grown1(f))
Grown3(f) == Put(f, 3, Grown2(f))
Grown4(f) == Put(f, 4, Grown3(f))
Grown5(f) == Put(f, 5, Grown4(f))
Grown6(f) == Put(f, 6, Grown5(f))
Grown7(f) == Put(f, 7, Grown6(f))
Grown8(f) == Put(f, 8, Grown7(f))
Grown9(f) == Put(f, 9, Grown8(f))
Grown10(f) == Put(f, 10, Grown9(f))
Grown11(f) == Put(f, 11, Grown10(f))
Grown12(f) == Put(f, 12, Grown11(f))
Grown(f) == [k \in 0 .. 12 |->
  CASE k = 0 -> <<>> [] k = 1 -> Grown1(f) [] k = 2 -> Grown2(f) [] k = 3 -> Grown3(f)
    [] k = 4 -> Grown4(f) [] k = 5 -> Grown5(f) [] k = 6 -> Grown6(f) [] k = 7 -> Grown7(f)
    [] k = 8 -> Grown8(f) [] k = 9 -> Grown9(f) [] k = 10 -> Grown10(f) [] k = 11 -> Grown11(f)
    [] OTHER -> Grown12(f)]

\* There are twelve lines.
LEMMA TwelveLines == Len(Pa!Dockerfile) = 12
BY DEF Pa!Dockerfile

\* What holds of line 0, and of a line when of the one before, holds of all.
LEMMA LineByLine ==
    ASSUME NEW D, 0 \in D, \A k \in 1 .. 12 : k - 1 \in D => k \in D
    PROVE  \A k \in 0 .. 12 : k \in D
<1>1. 1 \in D /\ 2 \in D /\ 3 \in D /\ 4 \in D
  <2>1. 1 \in D BY 1 \in 1 .. 12, 1 - 1 = 0
  <2>2. 2 \in D BY <2>1, 2 \in 1 .. 12, 2 - 1 = 1
  <2>3. 3 \in D BY <2>2, 3 \in 1 .. 12, 3 - 1 = 2
  <2>4. 4 \in D BY <2>3, 4 \in 1 .. 12, 4 - 1 = 3
  <2> QED BY <2>1, <2>2, <2>3, <2>4
<1>2. 5 \in D /\ 6 \in D /\ 7 \in D /\ 8 \in D
  <2>1. 5 \in D BY <1>1, 5 \in 1 .. 12, 5 - 1 = 4
  <2>2. 6 \in D BY <2>1, 6 \in 1 .. 12, 6 - 1 = 5
  <2>3. 7 \in D BY <2>2, 7 \in 1 .. 12, 7 - 1 = 6
  <2>4. 8 \in D BY <2>3, 8 \in 1 .. 12, 8 - 1 = 7
  <2> QED BY <2>1, <2>2, <2>3, <2>4
<1>3. 9 \in D /\ 10 \in D /\ 11 \in D /\ 12 \in D
  <2>1. 9 \in D BY <1>2, 9 \in 1 .. 12, 9 - 1 = 8
  <2>2. 10 \in D BY <2>1, 10 \in 1 .. 12, 10 - 1 = 9
  <2>3. 11 \in D BY <2>2, 11 \in 1 .. 12, 11 - 1 = 10
  <2>4. 12 \in D BY <2>3, 12 \in 1 .. 12, 12 - 1 = 11
  <2> QED BY <2>1, <2>2, <2>3, <2>4
<1> QED BY <1>1, <1>2, <1>3

\* UpTo satisfies its own equation.
LEMMA UpToIs ==
    ASSUME NEW f
    PROVE  /\ Pa!UpTo(f)[0] = <<>>
           /\ \A k \in 1 .. 12 : Pa!UpTo(f)[k] = Put(f, k, Pa!UpTo(f)[k - 1])
<1> DEFINE Is(g) == g = [k \in 0 .. Len(Pa!Dockerfile) |->
             IF k = 0 THEN <<>>
             ELSE IF f \in DOMAIN Pa!Sources[Pa!Dockerfile[k]]
                  THEN Append(g[k - 1], Pa!Dockerfile[k])
             ELSE g[k - 1]]
           Steps(g) == [k \in 0 .. 12 |-> IF k = 0 THEN <<>> ELSE Put(f, k, g[k - 1])]
<1>1. ASSUME NEW g PROVE Is(g) <=> g = Steps(g)
  BY TwelveLines DEF Put
<1>2. Pa!UpTo(f) = CHOOSE g : Is(g)
  BY DEF Pa!UpTo
<1>3. Grown(f) = Steps(Grown(f))
  <2>1. ASSUME NEW k \in 1 .. 12 PROVE Grown(f)[k] = Put(f, k, Grown(f)[k - 1])
    <3>1. k \in 1 .. 4 => Grown(f)[k] = Put(f, k, Grown(f)[k - 1])
      BY DEF Grown, Grown1, Grown2, Grown3, Grown4
    <3>2. k \in 5 .. 8 => Grown(f)[k] = Put(f, k, Grown(f)[k - 1])
      BY DEF Grown, Grown5, Grown6, Grown7, Grown8
    <3>3. k \in 9 .. 12 => Grown(f)[k] = Put(f, k, Grown(f)[k - 1])
      BY DEF Grown, Grown9, Grown10, Grown11, Grown12
    <3> QED BY <3>1, <3>2, <3>3
  <2>2. Grown(f)[0] = <<>>
    BY DEF Grown
  <2>3. Grown(f) = [k \in 0 .. 12 |-> Grown(f)[k]]
    BY DEF Grown
  <2>4. ASSUME NEW k \in 0 .. 12
        PROVE  Grown(f)[k] = IF k = 0 THEN <<>> ELSE Put(f, k, Grown(f)[k - 1])
    BY <2>1, <2>2
  <2> QED BY <2>3, <2>4
<1>4. Is(Grown(f))
  BY <1>1, <1>3
<1> HIDE DEF Is
<1>5. Is(Pa!UpTo(f))
  BY <1>2, <1>4
<1>6. Pa!UpTo(f) = Steps(Pa!UpTo(f))
  BY <1>1, <1>5
<1> QED BY <1>6

\* A text stays over lines that do not touch its file.
LEMMA StaysOver ==
    ASSUME NEW f, NEW j \in 0 .. 12, NEW k \in 0 .. 12, j <= k,
           \A i \in 1 .. 12 : j < i /\ i <= k => f \notin DOMAIN Pa!Sources[Pa!Dockerfile[i]]
    PROVE  Pa!UpTo(f)[k] = Pa!UpTo(f)[j]
<1> DEFINE D == {n \in 0 .. 12 : j <= n /\ n <= k => Pa!UpTo(f)[n] = Pa!UpTo(f)[j]}
<1>1. 0 \in D
  OBVIOUS
<1>2. ASSUME NEW n \in 1 .. 12, n - 1 \in D PROVE n \in D
  <2>1. CASE n <= j BY <2>1
  <2>2. CASE n > k BY <2>2
  <2>3. CASE j < n /\ n <= k
    <3>1. f \notin DOMAIN Pa!Sources[Pa!Dockerfile[n]]
      BY <2>3
    <3>2. Pa!UpTo(f)[n] = Pa!UpTo(f)[n - 1]
      BY <3>1, UpToIs DEF Put
    <3> QED BY <1>2, <2>3, <3>2
  <2> QED BY <2>1, <2>2, <2>3
<1> HIDE DEF D
<1>3. k \in D
  BY <1>1, <1>2, LineByLine
<1> QED BY <1>3 DEF D

\* The files each line touches.
Touched == <<
  {"mla", "flashinfer_mla_sparse_sm120"}, {"model"},
  {"kv_cache_manager", "block_pool", "gpu_worker", "input_processor"},
  {"marlin_moe"}, {"sparse_attn_indexer_kpool"}, {"block_table"}, {"block_pool"}, {"kpool_compress"},
  {"attention", "kpool_compress"}, {"weight_utils"},
  {"glm5_next", "parameter", "vocab_parallel_embedding", "routed_experts", "weight_utils"},
  {"gumbel", "rejection_sampler_utils"}>>

\* The table says what the patches' own do.
LEMMA TouchedIs ==
    \A k \in 1 .. 12 : DOMAIN Pa!Sources[Pa!Dockerfile[k]] = Touched[k]
<1> USE DEF Pa!Dockerfile, Pa!Sources, Touched
<1>1. DOMAIN Pa!Sources[Pa!Dockerfile[1]] = Touched[1] BY DEF Pa!reference
<1>2. DOMAIN Pa!Sources[Pa!Dockerfile[2]] = Touched[2] BY DEF Pa!pipeline
<1>3. DOMAIN Pa!Sources[Pa!Dockerfile[3]] = Touched[3] BY DEF Pa!apc_lpa
<1>4. DOMAIN Pa!Sources[Pa!Dockerfile[4]] = Touched[4] BY DEF Pa!moe_order
<1>5. DOMAIN Pa!Sources[Pa!Dockerfile[5]] = Touched[5] BY DEF Pa!indexer_topk
<1>6. DOMAIN Pa!Sources[Pa!Dockerfile[6]] = Touched[6] BY DEF Pa!slot_mapping
<1>7. DOMAIN Pa!Sources[Pa!Dockerfile[7]] = Touched[7] BY DEF Pa!prefix_dedup
<1>8. DOMAIN Pa!Sources[Pa!Dockerfile[8]] = Touched[8] BY DEF Pa!kpool_seed
<1>9. DOMAIN Pa!Sources[Pa!Dockerfile[9]] = Touched[9] BY DEF Pa!kpool_ring
<1>10. DOMAIN Pa!Sources[Pa!Dockerfile[10]] = Touched[10] BY DEF Pa!load_clone
<1>11. DOMAIN Pa!Sources[Pa!Dockerfile[11]] = Touched[11] BY DEF Pa!tp_padding
<1>12. DOMAIN Pa!Sources[Pa!Dockerfile[12]] = Touched[12] BY DEF Pa!sampler_nonfinite
<1> HIDE DEF Pa!Dockerfile, Pa!Sources, Touched
<1> QED BY <1>1, <1>2, <1>3, <1>4, <1>5, <1>6, <1>7, <1>8, <1>9, <1>10, <1>11, <1>12

\* What a line asks of a file it touches: nothing before it, but for the three
\* files that two lines touch.
Before(k, f) == IF k = 7 THEN <<"apc_lpa">>
                ELSE IF k = 9 /\ f = "kpool_compress" THEN <<"kpool_seed">>
                ELSE IF k = 11 /\ f = "weight_utils" THEN <<"load_clone">> ELSE <<>>

\* What each patch is pinned by is that.
LEMMA BeforeIs ==
    \A k \in 1 .. 12 : \A f \in Touched[k] : Pa!Sources[Pa!Dockerfile[k]][f] = Before(k, f)
<1> USE DEF Pa!Dockerfile, Pa!Sources, Touched, Before
<1> DEFINE Is(k) == \A f \in Touched[k] : Pa!Sources[Pa!Dockerfile[k]][f] = Before(k, f)
<1>1. Is(1) BY DEF Pa!reference
<1>2. Is(2) BY DEF Pa!pipeline
<1>3. Is(3) BY DEF Pa!apc_lpa
<1>4. Is(4) BY DEF Pa!moe_order
<1>5. Is(5) BY DEF Pa!indexer_topk
<1>6. Is(6) BY DEF Pa!slot_mapping
<1>7. Is(7) BY DEF Pa!prefix_dedup
<1>8. Is(8) BY DEF Pa!kpool_seed
<1>9. Is(9) BY DEF Pa!kpool_ring
<1>10. Is(10) BY DEF Pa!load_clone
<1>11. Is(11) BY DEF Pa!tp_padding
<1>12. Is(12) BY DEF Pa!sampler_nonfinite
<1> HIDE DEF Is, Pa!Dockerfile, Pa!Sources, Touched, Before
<1>13. \A k \in 1 .. 12 : Is(k)
  BY <1>1, <1>2, <1>3, <1>4, <1>5, <1>6, <1>7, <1>8, <1>9, <1>10, <1>11, <1>12
<1> QED BY <1>13 DEF Is

\* Each line asks for what the lines before it leave: the hashes that the
\* patches are pinned by fit the order they are run in.
LEMMA LinesFit ==
    ASSUME NEW k \in 1 .. 12, NEW f \in DOMAIN Pa!Sources[Pa!Dockerfile[k]]
    PROVE  /\ Pa!Sources[Pa!Dockerfile[k]][f] = Pa!UpTo(f)[k - 1]
           /\ Append(Pa!Sources[Pa!Dockerfile[k]][f], Pa!Dockerfile[k]) = Pa!UpTo(f)[k]
<1>0. f \in Touched[k] /\ Pa!Sources[Pa!Dockerfile[k]][f] = Before(k, f)
  BY TouchedIs, BeforeIs
<1>1. Before(k, f) = Pa!UpTo(f)[k - 1]
  <2> DEFINE Alone(j, m) == \A i \in 1 .. 12 : j < i /\ i <= m => f \notin Touched[i]
  <2>1. ASSUME NEW j \in 0 .. 12, NEW m \in 0 .. 12, j <= m, Alone(j, m)
        PROVE  Pa!UpTo(f)[m] = Pa!UpTo(f)[j]
    <3>1. \A i \in 1 .. 12 : j < i /\ i <= m => f \notin DOMAIN Pa!Sources[Pa!Dockerfile[i]]
      <4> HIDE DEF Pa!Dockerfile, Pa!Sources, Touched
      <4> QED BY Zenon, <2>1, TouchedIs
    <3> HIDE DEF Alone
    <3> QED BY Zenon, <2>1, <3>1, StaysOver
  <2>2. Pa!UpTo(f)[0] = <<>>
    BY UpToIs
  <2>3. ASSUME NEW j \in 1 .. 12, f \in Touched[j], Alone(0, j - 1)
        PROVE  Pa!UpTo(f)[j] = <<Pa!Dockerfile[j]>>
    <3>1. Pa!UpTo(f)[j - 1] = <<>>
      BY <2>1, <2>2, <2>3
    <3>2. f \in DOMAIN Pa!Sources[Pa!Dockerfile[j]]
      BY <2>3, TouchedIs
    <3>3. Pa!UpTo(f)[j] = Append(<<>>, Pa!Dockerfile[j])
      BY <3>1, <3>2, UpToIs DEF Put
    <3>4. Append(<<>>, Pa!Dockerfile[j]) = <<Pa!Dockerfile[j]>>
      OBVIOUS
    <3> QED BY <3>3, <3>4
  <2>4. CASE k = 7
    <3>1. f \in Touched[3] /\ Alone(0, 2) /\ Alone(3, 6)
      BY <1>0, <2>4 DEF Touched
    <3> HIDE DEF Alone
    <3>2. Pa!UpTo(f)[3] = <<Pa!Dockerfile[3]>> /\ Pa!UpTo(f)[6] = Pa!UpTo(f)[3]
      BY <2>1, <2>3, <3>1
    <3>3. Pa!Dockerfile[3] = "apc_lpa"
      BY DEF Pa!Dockerfile
    <3> QED BY <2>4, <3>2, <3>3 DEF Before
  <2>5. CASE k = 9 /\ f = "kpool_compress"
    <3>1. f \in Touched[8] /\ Alone(0, 7)
      BY <2>5 DEF Touched
    <3> HIDE DEF Alone
    <3>2. Pa!UpTo(f)[8] = <<Pa!Dockerfile[8]>>
      BY <2>3, <3>1
    <3>3. Pa!Dockerfile[8] = "kpool_seed"
      BY DEF Pa!Dockerfile
    <3> QED BY <2>5, <3>2, <3>3 DEF Before
  <2>6. CASE k = 11 /\ f = "weight_utils"
    <3>1. f \in Touched[10] /\ Alone(0, 9)
      BY <2>6 DEF Touched
    <3> HIDE DEF Alone
    <3>2. Pa!UpTo(f)[10] = <<Pa!Dockerfile[10]>>
      BY <2>3, <3>1
    <3>3. Pa!Dockerfile[10] = "load_clone"
      BY DEF Pa!Dockerfile
    <3> QED BY <2>6, <3>2, <3>3 DEF Before
  <2>7. CASE k # 7 /\ ~(k = 9 /\ f = "kpool_compress") /\ ~(k = 11 /\ f = "weight_utils")
    <3>1. Alone(0, k - 1)
      BY <1>0, <2>7 DEF Touched
    <3> HIDE DEF Alone
    <3>2. Pa!UpTo(f)[k - 1] = <<>>
      BY <2>1, <2>2, <3>1
    <3> QED BY <2>7, <3>2 DEF Before
  <2> QED BY <2>4, <2>5, <2>6, <2>7
<1>2. Pa!UpTo(f)[k] = Append(Pa!UpTo(f)[k - 1], Pa!Dockerfile[k])
  BY UpToIs DEF Put
<1> QED BY <1>0, <1>1, <1>2

\* Every patch is one line's, and every line is a patch of a name.
LEMMA LinesAre ==
    /\ \A k \in 1 .. 12 : Pa!Dockerfile[k] \in Pa!Names
    /\ \A name \in Pa!Names : \E k \in 1 .. 12 : Pa!Dockerfile[k] = name
    /\ \A j, k \in 1 .. 12 : Pa!Dockerfile[j] = Pa!Dockerfile[k] => j = k
    /\ "none" \notin Pa!Names
<1>1. Pa!Names = {"reference", "pipeline", "apc_lpa", "moe_order", "indexer_topk",
                 "slot_mapping", "prefix_dedup", "kpool_seed", "kpool_ring", "load_clone",
                 "tp_padding", "sampler_nonfinite"}
  BY DEF Pa!Names, Pa!Sources
<1>2. \A k \in 1 .. 12 : Pa!Dockerfile[k] \in Pa!Names
  BY <1>1 DEF Pa!Dockerfile
<1>3. \A name \in Pa!Names : \E k \in 1 .. 12 : Pa!Dockerfile[k] = name
  <2> DEFINE Line(name) == \E k \in 1 .. 12 : Pa!Dockerfile[k] = name
  <2>1. Line("reference") /\ Line("pipeline") /\ Line("apc_lpa") /\ Line("moe_order")
    BY 1 \in 1 .. 12, 2 \in 1 .. 12, 3 \in 1 .. 12, 4 \in 1 .. 12 DEF Pa!Dockerfile
  <2>2. Line("indexer_topk") /\ Line("slot_mapping") /\ Line("prefix_dedup")
        /\ Line("kpool_seed")
    BY 5 \in 1 .. 12, 6 \in 1 .. 12, 7 \in 1 .. 12, 8 \in 1 .. 12 DEF Pa!Dockerfile
  <2>3. Line("kpool_ring") /\ Line("load_clone") /\ Line("tp_padding")
        /\ Line("sampler_nonfinite")
    BY 9 \in 1 .. 12, 10 \in 1 .. 12, 11 \in 1 .. 12, 12 \in 1 .. 12 DEF Pa!Dockerfile
  <2> HIDE DEF Line
  <2>4. \A name \in Pa!Names : Line(name)
    BY <1>1, <2>1, <2>2, <2>3
  <2> QED BY <2>4 DEF Line
<1>4. \A j, k \in 1 .. 12 : Pa!Dockerfile[j] = Pa!Dockerfile[k] => j = k
  <2> DEFINE Number(name) ==
    CASE name = "reference" -> 1 [] name = "pipeline" -> 2 [] name = "apc_lpa" -> 3
      [] name = "moe_order" -> 4 [] name = "indexer_topk" -> 5 [] name = "slot_mapping" -> 6
      [] name = "prefix_dedup" -> 7 [] name = "kpool_seed" -> 8 [] name = "kpool_ring" -> 9
      [] name = "load_clone" -> 10 [] name = "tp_padding" -> 11 [] OTHER -> 12
  <2>1. \A k \in 1 .. 12 : Number(Pa!Dockerfile[k]) = k
    BY DEF Pa!Dockerfile
  <2> HIDE DEF Number
  <2> QED BY <2>1
<1>5. "none" \notin Pa!Names
  BY <1>1
<1> QED BY <1>2, <1>3, <1>4, <1>5

\* A text is of names of patches.
LEMMA TextsAre ==
    ASSUME NEW f, NEW k \in 0 .. 12
    PROVE  Pa!UpTo(f)[k] \in Seq(Pa!Names)
<1> DEFINE Typed(n) == Pa!UpTo(f)[n] \in Seq(Pa!Names)
           D == {n \in 0 .. 12 : Typed(n)}
<1>1. Typed(0)
  <2>1. <<>> \in Seq(Pa!Names)
    OBVIOUS
  <2>2. Pa!UpTo(f)[0] = <<>>
    BY UpToIs
  <2> QED BY Zenon, <2>1, <2>2
<1>2. ASSUME NEW n \in 1 .. 12, Typed(n - 1) PROVE Typed(n)
  <2>1. Pa!UpTo(f)[n - 1] \in Seq(Pa!Names) /\ Pa!Dockerfile[n] \in Pa!Names
    BY <1>2, LinesAre
  <2>2. Append(Pa!UpTo(f)[n - 1], Pa!Dockerfile[n]) \in Seq(Pa!Names)
    BY <2>1
  <2>3. Pa!UpTo(f)[n] = Pa!UpTo(f)[n - 1]
        \/ Pa!UpTo(f)[n] = Append(Pa!UpTo(f)[n - 1], Pa!Dockerfile[n])
    BY UpToIs DEF Put
  <2> QED BY Zenon, <2>1, <2>2, <2>3
<1> HIDE DEF Typed
<1>3. 0 \in D /\ \A n \in 1 .. 12 : n - 1 \in D => n \in D
  BY <1>1, <1>2
<1> HIDE DEF D
<1>4. k \in D
  BY <1>3, LineByLine
<1> QED BY <1>4 DEF D, Typed

\* What the start of a sequence is, item by item.
Begins(s, t) == Len(s) <= Len(t) /\ \A i \in 1 .. Len(s) : s[i] = t[i]

\* The text after some lines begins the text after all.
LEMMA TextsGrow ==
    ASSUME NEW f, NEW k \in 0 .. 12
    PROVE  Pa!IsPrefix(Pa!UpTo(f)[k], Pa!Chain(f))
<1> DEFINE T(n) == Pa!UpTo(f)[n]
           D == {n \in 0 .. 12 : k <= n => Begins(T(k), T(n))}
<1>0. ASSUME NEW n \in 0 .. 12 PROVE T(n) \in Seq(Pa!Names)
  BY Zenon, TextsAre
<1>1. \A n \in 1 .. 12 : T(n) = T(n - 1) \/ T(n) = Append(T(n - 1), Pa!Dockerfile[n])
  BY UpToIs DEF Put
<1>2. Pa!Chain(f) = T(12)
  BY TwelveLines DEF Pa!Chain
<1> HIDE DEF T
<1> USE DEF Begins
<1>3. 0 \in D
  <2>1. CASE k = 0
    <3>1. T(k) \in Seq(Pa!Names)
      BY Zenon, <1>0
    <3> QED BY <2>1, <3>1
  <2> QED BY <2>1
<1>4. ASSUME NEW n \in 1 .. 12, n - 1 \in D PROVE n \in D
  <2>1. CASE k > n BY <2>1
  <2>2. CASE k = n
    <3>1. T(k) \in Seq(Pa!Names)
      BY Zenon, <1>0
    <3> QED BY <2>2, <3>1
  <2>3. CASE k < n
    <3>0. n - 1 \in 0 .. 12
      OBVIOUS
    <3>1. T(n - 1) \in Seq(Pa!Names) /\ T(k) \in Seq(Pa!Names)
      BY Zenon, <1>0, <3>0
    <3>5. Begins(T(k), T(n - 1))
      BY <1>4, <2>3 DEF D
    <3>2. T(n) = T(n - 1) \/ T(n) = Append(T(n - 1), Pa!Dockerfile[n])
      BY <1>1
    <3>3. Pa!Dockerfile[n] \in Pa!Names
      BY LinesAre
    <3>4. Begins(T(k), T(n))
      BY <3>1, <3>2, <3>3, <3>5
    <3> QED BY <3>4
  <2> QED BY <2>1, <2>2, <2>3
<1> HIDE DEF D
<1>5. 12 \in D
  BY <1>3, <1>4, LineByLine
<1>6. Begins(T(k), T(12)) /\ T(k) \in Seq(Pa!Names) /\ T(12) \in Seq(Pa!Names)
  <2>1. Begins(T(k), T(12))
    BY <1>5 DEF D
  <2>2. 12 \in 0 .. 12
    OBVIOUS
  <2>3. T(k) \in Seq(Pa!Names) /\ T(12) \in Seq(Pa!Names)
    BY Zenon, <1>0, <2>2
  <2> QED BY Zenon, <2>1, <2>3
<1>7. Pa!IsPrefix(T(k), T(12))
  <2>1. SubSeq(T(k), 1, Len(T(k))) = SubSeq(T(12), 1, Len(T(k)))
    BY <1>6
  <2> QED BY <1>6, <2>1 DEF Pa!IsPrefix
<1> QED BY <1>2, <1>7 DEF T

\* A patch that writes a file it asked for, of a package that is in order,
\* leaves the package in order.
LEMMA WholeWrites ==
    ASSUME NEW fs, NEW rs, Pa!Whole(fs, rs), NEW k \in 1 .. 12,
           NEW f \in DOMAIN Pa!Sources[Pa!Dockerfile[k]],
           fs[f] = Pa!Sources[Pa!Dockerfile[k]][f]
    PROVE  Pa!Whole([fs EXCEPT ![f] = Append(@, Pa!Dockerfile[k])], rs)
<1> DEFINE text == Append(fs[f], Pa!Dockerfile[k])
           new == [fs EXCEPT ![f] = text]
<1>1. f \in Pa!Files
  BY LinesAre DEF Pa!Files
<1>2. DOMAIN new = Pa!Files /\ rs \subseteq Pa!Records
  BY DEF Pa!Whole
<1>3. new[f] = text /\ \A g \in Pa!Files \ {f} : new[g] = fs[g]
  BY <1>1 DEF Pa!Whole
<1>4. text = Pa!UpTo(f)[k]
  BY LinesFit
<1>5. fs[f] \in Seq(Pa!Names) /\ Pa!Dockerfile[k] \in Pa!Names
  <2>1. fs[f] = Pa!UpTo(f)[k - 1] /\ k - 1 \in 0 .. 12
    BY SMTT(20), LinesFit
  <2>2. Pa!UpTo(f)[k - 1] \in Seq(Pa!Names)
    BY Zenon, TextsAre, <2>1
  <2> QED BY Zenon, <2>1, <2>2, LinesAre
<1>6. \A i \in DOMAIN fs[f] : i \in DOMAIN text /\ text[i] = fs[f][i]
  BY <1>5
<1> HIDE DEF new, text
<1>7. ASSUME NEW g \in Pa!Files
      PROVE  new[g] = Pa!Drifted \/ \E n \in 0 .. Len(Pa!Dockerfile) : new[g] = Pa!UpTo(g)[n]
  <2>1. CASE g = f
    <3>1. k \in 0 .. Len(Pa!Dockerfile)
      BY TwelveLines
    <3> QED BY <1>3, <1>4, <2>1, <3>1
  <2>2. CASE g # f
    BY <1>3, <2>2 DEF Pa!Whole
  <2> QED BY <2>1, <2>2
<1>8. ASSUME NEW name \in rs, NEW g \in DOMAIN Pa!Sources[name]
      PROVE  \E i \in DOMAIN new[g] : new[g][i] = name
  <2>1. PICK i \in DOMAIN fs[g] : fs[g][i] = name
    BY DEF Pa!Whole
  <2>2. name \in Pa!Names
    BY <1>2 DEF Pa!Records
  <2>3. g \in Pa!Files
    BY <2>2 DEF Pa!Files
  <2>4. CASE g = f
    BY <1>3, <1>6, <2>1, <2>4
  <2>5. CASE g # f
    BY <1>3, <2>1, <2>3, <2>5
  <2> QED BY <2>4, <2>5
<1>9. Pa!Whole(new, rs)
  BY <1>2, <1>7, <1>8 DEF Pa!Whole
<1> QED BY <1>9 DEF new, text

\* The package as pinned, of another vLLM or of an image is in order.
LEMMA PatchesInit == Pa!Init => Pa!IInv
<1> SUFFICES ASSUME Pa!Init PROVE Pa!IInv
  OBVIOUS
<1>1. 0 \in 0 .. Len(Pa!Dockerfile) /\ Len(Pa!Dockerfile) \in 0 .. Len(Pa!Dockerfile)
  BY TwelveLines
<1>2. \A f : Pa!UpTo(f)[0] = <<>>
  BY UpToIs
<1>3. DOMAIN files = Pa!Files
      /\ \A f \in Pa!Files : files[f] = <<>> \/ files[f] = Pa!Drifted \/ files[f] = Pa!Chain(f)
  BY DEF Pa!Init
<1>4. \A f \in Pa!Files : files[f] = Pa!Drifted
                          \/ \E k \in 0 .. Len(Pa!Dockerfile) : files[f] = Pa!UpTo(f)[k]
  BY <1>1, <1>2, <1>3 DEF Pa!Chain
<1>5. Pa!Whole(files, {})
  BY <1>3, <1>4 DEF Pa!Whole
<1>6. records = {} /\ layer.files = files /\ layer.records = {} /\ patching = Pa!Idle
      /\ image = "none" /\ turn = 1
  BY DEF Pa!Init
<1>7. Pa!Building
  BY <1>6, TwelveLines DEF Pa!Building
<1> QED BY <1>5, <1>6, <1>7 DEF Pa!IInv

\* Only a patch that writes is of a name.
LEMMA IdleIsNot == Pa!Writing => patching # Pa!Idle /\ patching.patch \in Pa!Names
BY LinesAre DEF Pa!Writing, Pa!Idle

\* A run that is refused changes no file; a build that refuses is over.
LEMMA RefuseStep == ASSUME Pa!IInv, NEW name, Pa!Refuse(name) PROVE Pa!IInv'
<1>1. UNCHANGED <<how, files, records, layer, turn, patching>> /\ patching = Pa!Idle
      /\ image' = (IF how = "build" THEN "failed" ELSE image)
  BY DEF Pa!Refuse, Pa!MayRun
<1>2. Pa!Whole(files, records)' /\ Pa!Whole(layer.files, layer.records)'
  BY <1>1 DEF Pa!IInv, Pa!Whole
<1>3. (how = "build" /\ image # "failed" => Pa!Building)'
  BY <1>1
<1> QED BY <1>1, <1>2, <1>3 DEF Pa!IInv

\* A run begins with every file as its patch asks for.
LEMMA BeginStep == ASSUME Pa!IInv, NEW name \in Pa!Names, Pa!Begin(name) PROVE Pa!IInv'
<1>1. /\ UNCHANGED <<how, files, records, turn, image>> /\ patching = Pa!Idle
      /\ patching' = [patch |-> name, left |-> DOMAIN Pa!Sources[name], check |-> FALSE]
      /\ layer' = (IF how = "build" THEN [files |-> files, records |-> records] ELSE layer)
      /\ how = "build" => image = "none" /\ turn <= Len(Pa!Dockerfile)
                          /\ name = Pa!Dockerfile[turn]
  BY DEF Pa!Begin, Pa!MayRun
<1>2. Pa!Whole(files, records)' /\ Pa!Whole(layer.files, layer.records)'
  BY <1>1 DEF Pa!IInv, Pa!Whole
<1>3. DOMAIN Pa!Sources[name] \subseteq Pa!Files
  BY DEF Pa!Files
<1>4. \A f \in DOMAIN Pa!Sources[name] : files[f] = Pa!Sources[name][f]
  BY DEF Pa!Begin, Pa!Accepted
<1>5. Pa!Writing'
  BY <1>1, <1>3, <1>4 DEF Pa!Writing
<1>6. ASSUME how = "build" PROVE Pa!Building'
  BY <1>1, <1>6 DEF Pa!IInv, Pa!Building
<1>7. image = "none"
  BY <1>1 DEF Pa!IInv
<1> QED BY <1>1, <1>2, <1>5, <1>6, <1>7 DEF Pa!IInv

\* A run that only checks has nothing to write.
LEMMA CheckStep == ASSUME Pa!IInv, NEW name \in Pa!Names, Pa!Check(name) PROVE Pa!IInv'
<1>1. /\ UNCHANGED <<how, files, records, layer, turn, image>> /\ how = "hand"
      /\ patching' = [patch |-> name, left |-> {}, check |-> TRUE]
  BY DEF Pa!Check
<1>2. Pa!Whole(files, records)' /\ Pa!Whole(layer.files, layer.records)'
  BY <1>1 DEF Pa!IInv, Pa!Whole
<1>3. Pa!Writing'
  BY <1>1 DEF Pa!Writing
<1> QED BY <1>1, <1>2, <1>3 DEF Pa!IInv

\* A write puts the next patch of the chain into a file.
LEMMA WriteFileStep == ASSUME Pa!IInv, Pa!WriteFile PROVE Pa!IInv'
<1> DEFINE f == CHOOSE g \in patching.left : TRUE
           name == patching.patch
<1>1. /\ patching.left # {} /\ UNCHANGED <<how, records, layer, turn, image>>
      /\ files' = [files EXCEPT ![f] = Append(@, name)]
      /\ patching' = [patching EXCEPT !.left = @ \ {f}]
  BY DEF Pa!WriteFile
<1>2. f \in patching.left
  BY <1>1
<1> HIDE DEF f
<1>3. patching # Pa!Idle
  BY <1>1 DEF Pa!Idle
<1>4. Pa!Writing
  BY <1>3 DEF Pa!IInv
<1>5. name \in Pa!Names /\ f \in DOMAIN Pa!Sources[name] /\ ~patching.check
      /\ files[f] = Pa!Sources[name][f] /\ f \in Pa!Files
  BY <1>2, <1>4 DEF Pa!Writing
<1>6. /\ patching' \in [patch : Pa!Names, left : SUBSET Pa!Files, check : BOOLEAN]
      /\ patching'.patch = name /\ patching'.left = patching.left \ {f} /\ ~patching'.check
  BY <1>1, <1>4, <1>5 DEF Pa!Writing
<1>7. PICK k \in 1 .. 12 : Pa!Dockerfile[k] = name
  BY <1>5, LinesAre
<1>8. Pa!Whole(files, records) /\ Pa!Whole(layer.files, layer.records)
  BY DEF Pa!IInv
<1>9. Pa!Whole(files', records)
  <2>1. f \in DOMAIN Pa!Sources[Pa!Dockerfile[k]]
        /\ files[f] = Pa!Sources[Pa!Dockerfile[k]][f]
    BY <1>5, <1>7
  <2>2. Pa!Whole([files EXCEPT ![f] = Append(@, Pa!Dockerfile[k])], records)
    BY <1>8, <2>1, WholeWrites
  <2> QED BY <1>1, <1>7, <2>2
<1>10. files'[f] = Append(files[f], name) /\ \A g \in Pa!Files : g # f => files'[g] = files[g]
  BY <1>1, <1>5, <1>8 DEF Pa!Whole
<1>11. Pa!Whole(files, records)' /\ Pa!Whole(layer.files, layer.records)'
  BY <1>1, <1>8, <1>9 DEF Pa!Whole
<1>12. DOMAIN Pa!Sources[name] \subseteq Pa!Files
  BY <1>5 DEF Pa!Files
<1>13. Pa!Writing'
  <2>1. ASSUME NEW g \in DOMAIN Pa!Sources[name]
        PROVE  files'[g] = IF g \in patching'.left THEN Pa!Sources[name][g]
                           ELSE Append(Pa!Sources[name][g], name)
    <3>1. files[g] = IF g \in patching.left THEN Pa!Sources[name][g]
                     ELSE Append(Pa!Sources[name][g], name)
      BY <1>4, <1>5 DEF Pa!Writing
    <3>2. CASE g = f
      BY <1>5, <1>6, <1>10, <3>2
    <3>3. CASE g # f
      <4>1. files'[g] = files[g] /\ (g \in patching'.left <=> g \in patching.left)
        BY <1>6, <1>10, <1>12, <3>3
      <4> QED BY <3>1, <4>1
    <3> QED BY <3>2, <3>3
  <2>2. patching'.left \subseteq DOMAIN Pa!Sources[name]
    BY <1>4, <1>6 DEF Pa!Writing
  <2> QED BY <1>6, <2>1, <2>2 DEF Pa!Writing
<1>14. patching' # Pa!Idle
  BY <1>5, <1>6, LinesAre DEF Pa!Idle
<1>15. image = "none"
  BY <1>3 DEF Pa!IInv
<1>16. ASSUME how = "build" PROVE Pa!Building'
  <2>1. Pa!Building
    BY <1>15, <1>16 DEF Pa!IInv
  <2>2. ASSUME NEW j \in 1 .. turn - 1, NEW g \in DOMAIN Pa!Sources[Pa!Dockerfile[j]]
        PROVE  files'[g] = Pa!UpTo(g)[turn - 1] \/ g \in DOMAIN Pa!Sources[name]
    <3>1. j \in 1 .. 12
      BY <2>1, TwelveLines DEF Pa!Building
    <3>2. g \in Pa!Files
      BY <3>1, LinesAre DEF Pa!Files
    <3>3. files[g] = Pa!UpTo(g)[turn - 1] \/ g \in DOMAIN Pa!Sources[name]
      BY <2>1 DEF Pa!Building
    <3> QED BY <1>5, <1>10, <3>2, <3>3
  <2> QED BY <1>1, <1>3, <1>6, <1>14, <2>1, <2>2 DEF Pa!Building
<1> QED BY <1>1, <1>11, <1>13, <1>15, <1>16 DEF Pa!IInv

\* The record goes in once the patch is in all its files, and the build goes on
\* to its next line.
LEMMA WriteRecordStep == ASSUME Pa!IInv, Pa!WriteRecord PROVE Pa!IInv'
<1> DEFINE name == patching.patch
<1>1. /\ patching # Pa!Idle /\ patching.left = {} /\ UNCHANGED <<how, files, layer, image>>
      /\ records' = (IF patching.check THEN records ELSE records \cup ({name} \cap Pa!Records))
      /\ patching' = Pa!Idle /\ turn' = turn + 1
  BY DEF Pa!WriteRecord
<1>2. Pa!Writing /\ image = "none"
  BY <1>1 DEF Pa!IInv
<1>3. Pa!Whole(files, records) /\ Pa!Whole(layer.files, layer.records)
  BY DEF Pa!IInv
<1>4. name \in Pa!Names
  BY <1>2 DEF Pa!Writing
<1>5. PICK k \in 1 .. 12 : Pa!Dockerfile[k] = name
  BY <1>4, LinesAre
<1>6. ASSUME ~patching.check, NEW f \in DOMAIN Pa!Sources[name]
      PROVE  files[f] = Pa!UpTo(f)[k] /\ \E i \in DOMAIN files[f] : files[f][i] = name
  <2>1. files[f] = Append(Pa!Sources[name][f], name)
    BY <1>1, <1>2, <1>6 DEF Pa!Writing
  <2>2. Pa!Sources[name][f] = Pa!UpTo(f)[k - 1] /\ files[f] = Pa!UpTo(f)[k] /\ k - 1 \in 0 .. 12
    <3>1. f \in DOMAIN Pa!Sources[Pa!Dockerfile[k]]
      BY <1>5
    <3>2. Pa!Sources[Pa!Dockerfile[k]][f] = Pa!UpTo(f)[k - 1]
          /\ Append(Pa!Sources[Pa!Dockerfile[k]][f], Pa!Dockerfile[k]) = Pa!UpTo(f)[k]
      BY <3>1, LinesFit
    <3> QED BY <1>5, <2>1, <3>2
  <2>3. Pa!UpTo(f)[k - 1] \in Seq(Pa!Names)
    BY Zenon, TextsAre, <2>2
  <2>4. Len(files[f]) \in DOMAIN files[f] /\ files[f][Len(files[f])] = name
    BY <2>1, <2>2, <2>3
  <2> QED BY <2>2, <2>4
<1>7. records' \subseteq Pa!Records
  BY <1>1, <1>3 DEF Pa!Whole
<1>8. ASSUME NEW q \in records', NEW f \in DOMAIN Pa!Sources[q]
      PROVE  \E i \in DOMAIN files[f] : files[f][i] = q
  <2>1. CASE q \in records
    BY <1>3, <2>1 DEF Pa!Whole
  <2>2. CASE q = name /\ ~patching.check
    BY <1>6, <2>2
  <2> QED BY <1>1, <2>1, <2>2
<1>9. Pa!Whole(files, records)' /\ Pa!Whole(layer.files, layer.records)'
  BY <1>1, <1>3, <1>7, <1>8 DEF Pa!Whole
<1>10. ASSUME how = "build" PROVE Pa!Building'
  <2>1. Pa!Building /\ turn \in 1 .. 12 /\ name = Pa!Dockerfile[turn] /\ ~patching.check
    BY <1>1, <1>2, <1>10, TwelveLines DEF Pa!IInv, Pa!Building
  <2>2. k = turn
    BY <1>5, <2>1, LinesAre
  <2>3. records' = Pa!Records \cap {Pa!Dockerfile[j] : j \in 1 .. turn}
    <3>1. {Pa!Dockerfile[j] : j \in 1 .. turn} = {Pa!Dockerfile[j] : j \in 1 .. turn - 1} \cup {name}
      BY <2>1
    <3>2. records = Pa!Records \cap {Pa!Dockerfile[j] : j \in 1 .. turn - 1}
      BY <2>1 DEF Pa!Building
    <3> QED BY <1>1, <2>1, <3>1, <3>2
  <2>4. ASSUME NEW j \in 1 .. turn, NEW f \in DOMAIN Pa!Sources[Pa!Dockerfile[j]]
        PROVE  files[f] = Pa!UpTo(f)[turn]
    <3>1. CASE f \in DOMAIN Pa!Sources[name]
      BY <1>6, <2>1, <2>2, <3>1
    <3>2. CASE f \notin DOMAIN Pa!Sources[name]
      <4>1. j \in 1 .. turn - 1
        BY <2>1, <3>2
      <4>2. files[f] = Pa!UpTo(f)[turn - 1]
        BY <2>1, <3>2, <4>1 DEF Pa!Building
      <4>3. Pa!UpTo(f)[turn] = Pa!UpTo(f)[turn - 1]
        BY <2>1, <3>2, UpToIs DEF Put
      <4> QED BY <4>2, <4>3
    <3> QED BY <3>1, <3>2
  <2>5. turn' - 1 = turn /\ turn' \in 1 .. Len(Pa!Dockerfile) + 1
    BY <1>1, <2>1, TwelveLines
  <2> QED BY <1>1, <2>3, <2>4, <2>5 DEF Pa!Building
<1> QED BY <1>1, <1>2, <1>9, <1>10 DEF Pa!IInv

\* A run that is killed by hand leaves what it wrote; a build drops its layer.
LEMMA KillPatchStep == ASSUME Pa!IInv, Pa!Kill PROVE Pa!IInv'
<1>1. /\ patching # Pa!Idle /\ patching' = Pa!Idle /\ UNCHANGED <<how, layer>>
      /\ IF how = "build"
         THEN image' = "failed" /\ files' = layer.files /\ records' = layer.records
         ELSE UNCHANGED <<image, files, records>>
  BY DEF Pa!Kill
<1>2. Pa!Whole(files, records) /\ Pa!Whole(layer.files, layer.records) /\ image = "none"
  BY <1>1 DEF Pa!IInv
<1>3. Pa!Whole(files, records)' /\ Pa!Whole(layer.files, layer.records)'
  BY <1>1, <1>2 DEF Pa!Whole
<1> QED BY <1>1, <1>2, <1>3 DEF Pa!IInv

\* The image is marked after the last line.
LEMMA MarkStep == ASSUME Pa!IInv, Pa!Mark PROVE Pa!IInv'
<1>1. /\ how = "build" /\ image = "none" /\ patching = Pa!Idle /\ turn > Len(Pa!Dockerfile)
      /\ image' = "built" /\ UNCHANGED <<how, files, records, layer, turn, patching>>
  BY DEF Pa!Mark
<1>2. Pa!Whole(files, records)' /\ Pa!Whole(layer.files, layer.records)'
  BY <1>1 DEF Pa!IInv, Pa!Whole
<1>3. Pa!Building
  BY <1>1 DEF Pa!IInv
<1>4. turn = Len(Pa!Dockerfile) + 1
  BY <1>1, <1>3, TwelveLines DEF Pa!Building
<1>5. Pa!Building'
  BY <1>1, <1>3 DEF Pa!Building
<1> QED BY <1>1, <1>2, <1>4, <1>5 DEF Pa!IInv

\* Of a package in order, what the records and the markers tell is so.
LEMMA PatchesTold == Pa!IInv => Pa!PatchedAsRecorded
<1> SUFFICES ASSUME Pa!IInv PROVE Pa!PatchedAsRecorded
  OBVIOUS
<1>1. Pa!Whole(files, records)
  BY DEF Pa!IInv
<1>2. ASSUME NEW f \in DOMAIN files, files[f] \notin {<<>>, Pa!Drifted}
      PROVE  Pa!IsPrefix(files[f], Pa!Chain(f))
  <2>1. PICK k \in 0 .. 12 : files[f] = Pa!UpTo(f)[k]
    BY <1>1, <1>2, TwelveLines DEF Pa!Whole
  <2>2. Pa!IsPrefix(Pa!UpTo(f)[k], Pa!Chain(f))
    BY TextsGrow
  <2> QED BY <2>1, <2>2
<1>3. \A q \in records : \A f \in DOMAIN Pa!Sources[q] : \E i \in DOMAIN files[f] : files[f][i] = q
  BY <1>1 DEF Pa!Whole
<1>4. ASSUME image = "built"
      PROVE  records = Pa!Records /\ \A f \in DOMAIN files : files[f] = Pa!Chain(f)
  <2>1. Pa!Building /\ patching = Pa!Idle /\ turn = 13
    BY <1>4, TwelveLines DEF Pa!IInv
  <2>2. {Pa!Dockerfile[j] : j \in 1 .. 12} = Pa!Names
    BY LinesAre
  <2>3. records = Pa!Records
    BY <2>1, <2>2 DEF Pa!Building, Pa!Records
  <2>4. ASSUME NEW f \in DOMAIN files PROVE files[f] = Pa!Chain(f)
    <3>1. PICK name \in Pa!Names : f \in DOMAIN Pa!Sources[name]
      BY <1>1 DEF Pa!Whole, Pa!Files
    <3>2. PICK j \in 1 .. 12 : Pa!Dockerfile[j] = name
      BY LinesAre
    <3>3. files[f] = Pa!UpTo(f)[12]
      BY <2>1, <3>1, <3>2 DEF Pa!Building
    <3> QED BY <3>3, TwelveLines DEF Pa!Chain
  <2> QED BY <2>3, <2>4
<1> QED BY <1>2, <1>3, <1>4 DEF Pa!PatchedAsRecorded

\* A step of a behaviour about patches is one of Patches, and keeps the invariant.
LEMMA PatchesStep ==
    ASSUME Pa!IInv, subject = "patches", [MCNext]_<<vars, subject, p, fabricVars, downloadVars, patchesVars>>
    PROVE  Pa!IInv'
<1>1. [Pa!Next]_Pa!vars
  BY DEF MCNext, Only, Pa!Next, patchesVars, Pa!vars
<1>2. CASE UNCHANGED Pa!vars
  BY <1>2 DEF Pa!vars, Pa!IInv, Pa!Whole, Pa!Writing, Pa!Building
<1>3. CASE Pa!Next
  BY <1>3, RefuseStep, BeginStep, CheckStep, WriteFileStep, WriteRecordStep, KillPatchStep,
     MarkStep DEF Pa!Next
<1> QED BY <1>1, <1>2, <1>3

\* Patches go into the package in the Dockerfile's order and never twice, and a record or the
\* image's markers are there only with the patches they tell of, however the runs are ordered
\* and whenever one is killed.
THEOREM PatchedRecorded == MCSpec => []PatchedAsRecorded
<1> DEFINE Inv == subject = "patches" => Pa!IInv
<1>1. MCInit => Inv
  BY PatchesInit DEF MCInit
<1>2. Inv /\ [MCNext]_<<vars, subject, p, fabricVars, downloadVars, patchesVars>> => Inv'
  <2> SUFFICES ASSUME Inv, [MCNext]_<<vars, subject, p, fabricVars, downloadVars, patchesVars>>,
                      subject' = "patches"
               PROVE  Pa!IInv'
    OBVIOUS
  <2>1. subject = "patches"
    BY DEF MCNext, Only
  <2> QED BY <2>1, PatchesStep
<1>3. Inv => PatchedAsRecorded
  BY PatchesTold DEF PatchedAsRecorded
<1> QED BY <1>1, <1>2, <1>3, PTL DEF MCSpec
=============================================================================
