-------------------------------- MODULE Launch --------------------------------
(***************************************************************************)
(* What a switch launches: the profile text the coordinator reads once,    *)
(* the manifest it freezes, the assets every rank prepares from it twice,  *)
(* what a rank starts from them minutes later, and the text written back.  *)
(* The coordinator's control (answers lost, crashes, cleanup) is           *)
(* Switch.tla; here every answer arrives, and it is the ranks' disks that  *)
(* change under it: a checkout or lock updated, a shard replaced, a        *)
(* download begun again, memory taken, the profile file edited.            *)
(*                                                                         *)
(* A text is a profile; "env" is the allocator of the launching process,   *)
(* frozen over the text's own.  Versions only grow: what a digest or a     *)
(* stat compares is the version.                                           *)
(***************************************************************************)
EXTENDS Naturals, FiniteSetsExt

CONSTANTS Ranks,     \* 0 .. n - 1, the head is 0
          Texts,     \* the profiles a text may hold
          Explicit,  \* those that name an allocator of their own
          Ordered,   \* those that order the MoE's sum, a feature with two markers
          MaxChanges \* how often the world changes

ASSUME RanksAssumption ==
  IsFiniteSet(Ranks) /\ Cardinality(Ranks) >= 2 /\ Ranks = 0 .. Cardinality(Ranks) - 1
ASSUME TextsAssumption == Explicit \subseteq Texts /\ Ordered \subseteq Texts

VARIABLES disk,     \* per rank: source, lock, weights, whole, memory, marker
          path,     \* per rank: the text at the recorded configuration path
          running,  \* per rank: what its container was started from, or Idle
          desk,     \* the coordinator: its stage, the ranks it has left there, ...
          seen,     \* per look and rank: the assets the look found there
          opened,   \* per rank: what an install has read of the path
          kept,     \* per rank: the texts in backup files
          config,   \* per rank: what its install answered
          changes,  \* how often the world has changed
          late      \* the looks and installs, by rank, that a change came after

vars == <<disk, path, running, desk, seen, opened, kept, config, changes, late>>

Looks == {"first", "oldFirst", "second", "oldSecond"}
NoText == "no text"
NoLaunch == [text |-> NoText, allocator |-> "none", lock |-> 0]
Idle == [launch |-> NoLaunch, source |-> 0, weights |-> 0]
Unseen == [launch |-> NoLaunch, source |-> 0, weights |-> 0, good |-> FALSE]

(* freeze: the launching process's allocator, when set, is frozen over the   *)
(* text's own; the fingerprint also covers the lock of the checkout.         *)
Freeze(text, env, lock) ==
  [text |-> text, lock |-> lock,
   allocator |-> IF env THEN "env" ELSE IF text \in Explicit THEN "own" ELSE "none"]

(* thaw: a manifest is good only where the lock is the one it was frozen at. *)
Thaws(launch, r) == launch.lock = disk[r].lock

(* A fault: a recovering start is held to the marker of the day. *)
PreflightToday(r, text, memory, recovery) ==
  /\ disk[r].whole /\ (text \in Ordered => disk[r].marker = 2 \/ (recovery /\ ~memory))
  /\ memory => disk[r].memory

(* preflight: the download is whole, the image has the marker of the order   *)
(* the profile asks for (a recovery accepts the older one); a start also     *)
(* wants memory.                                                             *)
Preflight(r, text, memory, recovery) ==
  /\ disk[r].whole /\ (text \in Ordered => disk[r].marker = 2 \/ recovery)
  /\ memory => disk[r].memory

(* inspect: what the ranks must have in common, and the shards of this one.  *)
Asset(r, launch, recovery) ==
  [launch |-> launch, source |-> disk[r].source, weights |-> disk[r].weights,
   good |-> Thaws(launch, r) /\ Preflight(r, launch.text, FALSE, recovery)]
Common(asset) == <<asset.launch, asset.source>>
Differ(assets) == \E r \in Ranks : Common(assets[r]) # Common(assets[0])

Fresh == [source |-> 1, lock |-> 1, weights |-> 1,
          whole |-> TRUE, memory |-> TRUE, marker |-> 2]
Init ==
  /\ \E marker \in {1, 2}, old \in [Ranks -> Texts], env, up \in BOOLEAN :
       /\ disk = [r \in Ranks |-> [Fresh EXCEPT !.marker = marker]]
       /\ running = [r \in Ranks |->
            IF up THEN [launch |-> Freeze(old[r], env, 1), source |-> 1, weights |-> 1]
            ELSE Idle]
       /\ path = old
  /\ desk = [at |-> "read", left |-> Ranks, text |-> NoText, launch |-> NoLaunch,
             old |-> [r \in Ranks |-> Idle], new |-> {}, stopped |-> {}, declined |-> {}]
  /\ seen = [look \in Looks |-> [r \in Ranks |-> Unseen]]
  /\ opened = [r \in Ranks |-> NoText] /\ kept = [r \in Ranks |-> {}]
  /\ config = [r \in Ranks |-> "unsent"] /\ changes = 0 /\ late = {}

------------------------------------------------------------------------------
(* The coordinator. *)

To(stage) == desk' = [desk EXCEPT !.at = stage, !.left = Ranks]

(* The ranks are visited upwards to look and stop, downwards to start. *)
Visited(r, next, now) == [now EXCEPT
  !.at = IF desk.left = {r} THEN next ELSE @,
  !.left = IF desk.left = {r} THEN Ranks ELSE desk.left \ {r}]

(* act_switch: the text is read once, parsed, and frozen. *)
Read(text, env) ==
  /\ desk.at = "read"
  /\ desk' = [desk EXCEPT !.at = "current", !.text = text, !.launch = Freeze(text, env, 1)]
  /\ UNCHANGED <<disk, path, running, seen, opened, kept, config, changes, late>>

(* current on every rank: a running container's launch must still thaw. *)
Standing == {r \in Ranks : running[r] # Idle}
Current ==
  /\ desk.at = "current"
  /\ IF Standing \in {{}, Ranks} /\ \A r \in Standing : Thaws(running[r].launch, r)
     THEN desk' = [desk EXCEPT !.at = "first", !.old = running]
     ELSE To("refused")
  /\ UNCHANGED <<disk, path, running, seen, opened, kept, config, changes, late>>

Live == desk.old # [r \in Ranks |-> Idle]
OfOld(look) == look \in {"oldFirst", "oldSecond"}
After(look) == CASE look = "first" -> IF Live THEN "oldFirst" ELSE "second"
                 [] look = "oldFirst" -> "second"
                 [] look = "second" -> IF Live THEN "oldSecond" ELSE "again"
                 [] look = "oldSecond" -> "again"

(* prepare, on one rank of one look; the first look at each launch ends by    *)
(* comparing what its ranks share.                                            *)
Look(look) ==
  /\ desk.at = look
  /\ LET r == Min(desk.left)
         launch == IF OfOld(look) THEN desk.old[r].launch ELSE desk.launch
         asset == Asset(r, launch, OfOld(look))
         differ == desk.left = {r} /\ look \in {"first", "oldFirst"} /\ Differ(seen'[look])
     IN  /\ seen' = [seen EXCEPT ![look][r] = asset]
         /\ IF ~asset.good \/ differ THEN To("refused")
            ELSE desk' = Visited(r, After(look), desk)
  /\ UNCHANGED <<disk, path, running, opened, kept, config, changes, late>>

(* Both looks must have found the same, and the same containers be running. *)
(* A fault: the second look is taken, and not held against the first. *)
SameContainers == desk.old = running

Unchanged == /\ seen["first"] = seen["second"] /\ seen["oldFirst"] = seen["oldSecond"]
             /\ desk.old = running
Again ==
  /\ desk.at = "again"
  /\ To(IF ~Unchanged THEN "refused" ELSE IF Live THEN "stop" ELSE "start")
  /\ UNCHANGED <<disk, path, running, seen, opened, kept, config, changes, late>>

Stop ==
  /\ desk.at = "stop"
  /\ LET r == Min(desk.left) IN
     /\ running' = [running EXCEPT ![r] = Idle]
     /\ desk' = Visited(r, "start", [desk EXCEPT !.stopped = @ \cup {r}])
  /\ UNCHANGED <<disk, path, seen, opened, kept, config, changes, late>>

(* The rank's own start: main thaws the manifest, preflight looks again with  *)
(* the memory, and docker run takes the checkout and the shards as they are.  *)
Starts(r, launch, recovery) == Thaws(launch, r) /\ Preflight(r, launch.text, TRUE, recovery)
Started(r, launch) ==
  [launch |-> launch, source |-> disk[r].source, weights |-> disk[r].weights]

StartNew ==
  /\ desk.at = "start"
  /\ LET r == Max(desk.left) IN
     IF Starts(r, desk.launch, FALSE)
     THEN /\ running' = [running EXCEPT ![r] = Started(r, desk.launch)]
          /\ desk' = Visited(r, "ready", [desk EXCEPT !.new = @ \cup {r}])
     ELSE To("clean") /\ UNCHANGED running
  /\ UNCHANGED <<disk, path, seen, opened, kept, config, changes, late>>

(* ready and the ladder: complete, failed, or an observation that was lost. *)
Ready(verdict) ==
  /\ desk.at = "ready" /\ verdict \in {"install", "clean", "unconfirmed"}
  /\ verdict = "install" => \A r \in Ranks : running[r].launch = desk.launch
  /\ To(verdict)
  /\ UNCHANGED <<disk, path, running, seen, opened, kept, config, changes, late>>

Clean ==
  /\ desk.at = "clean"
  /\ running' = [r \in Ranks |-> IF r \in desk.new THEN Idle ELSE running[r]]
  /\ To(IF desk.stopped = {} THEN "failed" ELSE "recover")
  /\ UNCHANGED <<disk, path, seen, opened, kept, config, changes, late>>

Recover ==
  /\ desk.at = "recover"
  /\ LET r == Max(desk.left) old == desk.old[r].launch starts == Starts(r, old, TRUE) IN
     /\ running' = [running EXCEPT ![r] = IF starts THEN Started(r, old) ELSE Idle]
     /\ desk' = Visited(r, "failed",
                  IF starts THEN desk
                  ELSE [desk EXCEPT !.declined = @ \cup {<<r, disk[r].memory>>}])
  /\ UNCHANGED <<disk, path, seen, opened, kept, config, changes, late>>

(* resume: the operator hands the text again, edited or not; every rank's     *)
(* container and assets must still be those of the record.                    *)
Resume(text) ==
  /\ desk.at = "unconfirmed"
  /\ \A r \in Ranks : running[r].launch = desk.launch
                      /\ Asset(r, desk.launch, FALSE) = seen["first"][r]
  /\ desk' = [desk EXCEPT !.at = "install", !.text = text, !.left = Ranks]
  /\ UNCHANGED <<disk, path, running, seen, opened, kept, config, changes, late>>

------------------------------------------------------------------------------
(* install, on one rank after the other. *)

(* The text must be the running profile; one that names no allocator is given *)
(* the frozen one, one that names its own keeps it.                           *)
(* A fault: any text handed to resume is installed. *)
IsNamed(text, launch) == launch.allocator = "env" => text \notin Explicit

IsRunning(text, launch) ==
  /\ text = launch.text
  /\ launch.allocator = "env" => text \notin Explicit

Answer(r, answer) ==
  /\ config' = [config EXCEPT ![r] = answer]
  /\ IF answer = "failed" THEN To("complete")
     ELSE desk' = Visited(r, "complete", desk)

InstallRead ==
  /\ desk.at = "install"
  /\ LET r == Min(desk.left) IN
     /\ config[r] = "unsent"
     /\ IF ~Thaws(desk.launch, r) \/ ~IsRunning(desk.text, desk.launch)
        THEN Answer(r, "failed") /\ UNCHANGED opened
        ELSE IF path[r] = desk.text THEN Answer(r, "unchanged") /\ UNCHANGED opened
        ELSE /\ opened' = [opened EXCEPT ![r] = path[r]]
             /\ config' = [config EXCEPT ![r] = "read"] /\ UNCHANGED desk
  /\ UNCHANGED <<disk, path, running, seen, kept, changes, late>>

(* The backup is named for the second and the profile, and never overwritten. *)
InstallBackup(clash) ==
  /\ desk.at = "install"
  /\ LET r == Min(desk.left) IN
     /\ config[r] = "read"
     /\ IF clash THEN Answer(r, "failed") /\ UNCHANGED kept
        ELSE /\ kept' = [kept EXCEPT ![r] = @ \cup {opened[r]}]
             /\ config' = [config EXCEPT ![r] = "kept"] /\ UNCHANGED desk
  /\ UNCHANGED <<disk, path, running, seen, opened, changes, late>>

InstallReplace ==
  /\ desk.at = "install"
  /\ LET r == Min(desk.left) IN
     /\ config[r] = "kept"
     /\ path' = [path EXCEPT ![r] = desk.text] /\ Answer(r, "written")
  /\ UNCHANGED <<disk, running, seen, opened, kept, changes, late>>

------------------------------------------------------------------------------
(* The world. *)

Stages(r) == {look \in Looks : seen[look][r] # Unseen}
Change(r, field, value) ==
  /\ changes < MaxChanges /\ changes' = changes + 1
  /\ disk[r][field] # value /\ disk' = [disk EXCEPT ![r][field] = value]
  /\ late' = late \cup ({r} \X Stages(r))
  /\ UNCHANGED <<path, running, desk, seen, opened, kept, config>>

Checkout(r) == Change(r, "source", disk[r].source + 1)
Relock(r) == Change(r, "lock", disk[r].lock + 1)
Replace(r) == Change(r, "weights", disk[r].weights + 1)
Download(r, whole) == Change(r, "whole", whole)
Memory(r, enough) == Change(r, "memory", enough)
Edit(r, text) ==
  /\ changes < MaxChanges /\ changes' = changes + 1
  /\ path[r] # text /\ path' = [path EXCEPT ![r] = text]
  /\ late' = IF config[r] \in {"read", "kept"} THEN late \cup {<<r, "install">>} ELSE late
  /\ UNCHANGED <<disk, running, desk, seen, opened, kept, config>>
Exit(r) ==
  /\ changes < MaxChanges /\ changes' = changes + 1
  /\ running[r] # Idle /\ running' = [running EXCEPT ![r] = Idle]
  /\ UNCHANGED <<disk, path, desk, seen, opened, kept, config, late>>

Coordinate ==
  \/ \E text \in Texts, env \in BOOLEAN : Read(text, env)
  \/ Current \/ (\E look \in Looks : Look(look)) \/ Again
  \/ Stop \/ StartNew \/ (\E v \in {"install", "clean", "unconfirmed"} : Ready(v))
  \/ Clean \/ Recover \/ (\E text \in Texts : Resume(text))
  \/ InstallRead \/ (\E clash \in BOOLEAN : InstallBackup(clash)) \/ InstallReplace
World == \E r \in Ranks :
  \/ Checkout(r) \/ Relock(r) \/ Replace(r) \/ Exit(r)
  \/ \E b \in BOOLEAN : Download(r, b) \/ Memory(r, b)
  \/ \E text \in Texts : Edit(r, text)
Next == Coordinate \/ World
Spec == Init /\ [][Next]_vars

------------------------------------------------------------------------------
(* The ranks of a launch run one profile, allocator and source, what both     *)
(* looks saw, unless a rank's disk changed after the second look at it:       *)
(* nothing is copied to the ranks, each starts what its own checkout holds.   *)
SameLaunch == \A r \in desk.new :
  running[r].launch = desk.launch /\ <<r, "second">> \notin late =>
    /\ Common(running[r]) = Common(seen["first"][0])
    /\ running[r].weights = seen["first"][r].weights

(* A recovery is refused only on a rank whose disk changed after the second   *)
(* look at its old launch, or whose memory has gone: an outage is not begun   *)
(* for an old launch that was already past recovering.                        *)
RecoveryIsReady == \A rank \in Ranks, memory \in BOOLEAN :
  <<rank, memory>> \in desk.declined => <<rank, "oldSecond">> \in late \/ ~memory

(* What an install puts at the path is the text of the launch that was        *)
(* completed, and the text it found there is then in a backup file.           *)
InstallKeeps == [][\A r \in Ranks :
  config'[r] = "written" /\ config[r] # "written" =>
    /\ running[r] # Idle => path'[r] = running[r].launch.text
    /\ path[r] \in kept[r] \/ <<r, "install">> \in late]_vars
=============================================================================
