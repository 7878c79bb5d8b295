------------------------------- MODULE MCLaunch -------------------------------
(***************************************************************************)
(* What a launch is made of, for TLC.  A behaviour has one subject: a      *)
(* profile that settings are added to, a node list and its hosts that are  *)
(* edited, a checkpoint that is downloaded, the vLLM package of the image  *)
(* that is patched, or a switch over a changing world (Launch).  They      *)
(* share no state here: Launch takes a text as accepted and a download as  *)
(* there or not.                                                           *)
(***************************************************************************)
EXTENDS Launch

CONSTANTS Downloaders, Pieces, Damages
\* Whoever downloads is no "free" lock.
ASSUME DownloadersAssumption == "free" \notin Downloaders

VARIABLES subject, p, nodes, hosts, edits, lock, at, status, snapshot, checksum, damages,
          how, files, records, layer, turn, patching, image, killed

Pf == INSTANCE Profile
Fb == INSTANCE Fabric
Dl == INSTANCE Download
Pa == INSTANCE Patches WITH Runs <- 2, Kills <- 1, step <- turn, running <- patching

fabricVars == <<nodes, hosts, edits>>
downloadVars == <<lock, at, status, snapshot, checksum, damages>>
patchesVars == <<how, files, records, layer, turn, patching, image, killed>>

Only(it) == /\ subject = it /\ UNCHANGED subject
            /\ it # "profile" => UNCHANGED p
            /\ it # "fabric" => UNCHANGED fabricVars
            /\ it # "download" => UNCHANGED downloadVars
            /\ it # "patches" => UNCHANGED patchesVars
            /\ it # "switch" => UNCHANGED vars

------------------------------------------------------------------------------
(* A profile of 2 to 8 nodes, or of 16, to which settings are added. *)
MaxOn(n) == IF n = 2 THEN 3 ELSE 2
Turn(setting) ==
  /\ setting \notin p.on /\ Cardinality(p.on) < MaxOn(p.nodes)
  /\ p' = [p EXCEPT !.on = @ \cup {setting}] /\ Pf!IsProfile(p')

(* A profile that is accepted starts on every rank: no rank's server, given    *)
(* the arguments the launcher makes of it, would refuse or misread them.      *)
AcceptedIsServed == subject = "profile" =>
  (Pf!Accepted(p) => \A r \in 0 .. p.nodes - 1 : Pf!Served(p, r))

------------------------------------------------------------------------------
(* Two or three hosts: with rails of their own, linked as a pair or cabled in *)
(* a ring, the hosts of the ring with an address of their own or not.         *)
A(n, h) == [net |-> n, host |-> h]
Net(r, s) == IF r + s = 3 THEN 3 ELSE IF 1 \in {r, s} THEN 1 ELSE 2
End(r, s) == A(Net(r, s), IF r < s THEN 1 ELSE 2)
Cable(n, r) == {LET right == s = (r + 1) % n IN
  [peer |-> s, hca |-> IF right THEN "roce0" ELSE "roce1", port |-> 1, gid |-> 3,
   interface |-> IF right THEN "fabric0" ELSE "fabric1",
   local |-> End(r, s), peer_ip |-> End(s, r)] : s \in (0 .. n - 1) \ {r}}
Dummy(r) == [address |-> A(9, r), interface |-> "dummy0", test |-> FALSE]
Ring(n, hosted) == [r \in 0 .. n - 1 |->
  [links |-> Cable(n, r), rails |-> {}, host |-> IF r \in hosted THEN Dummy(r) ELSE Fb!NoHost]]
Rail(hca, interface, local, primary) ==
  [hca |-> hca, port |-> 1, interface |-> interface, local |-> local, gid |-> 3,
   primary |-> primary]
Pair == [r \in 0 .. 1 |-> [links |-> {}, host |-> Fb!NoHost,
  rails |-> {Rail("roce0", "fabric0", End(r, 1 - r), TRUE),
             Rail("roce1", "fabric1", A(5, r + 1), FALSE)}]]
HostOf(node) ==
  [up |-> {rail.interface : rail \in Fb!Rails(node)},
   active |-> {<<rail.hca, rail.port>> : rail \in Fb!Rails(node)},
   carries |-> {<<rail.interface, rail.local>> : rail \in Fb!Rails(node)} \cup
     (IF Fb!HasHost(node) THEN {<<node.host.interface, node.host.address>>} ELSE {}),
   gids |-> {[port |-> <<rail.hca, rail.port>>, index |-> rail.gid, address |-> rail.local,
              interface |-> rail.interface] : rail \in Fb!Rails(node)},
   rdma |-> TRUE]

Addresses == {A(n, h) : n \in 0 .. 3, h \in 1 .. 2}
Changed(rail) ==
  {[rail EXCEPT !.local = a] : a \in Addresses} \cup {[rail EXCEPT !.gid = 4]}
  \cup {[rail EXCEPT !.interface = i] : i \in {"fabric0", "fabric1", "wlan"}}
  \cup {[rail EXCEPT !.hca = h] : h \in {"roce0", "roce1"}}
ChangedLink(link) == Changed(link) \cup {[link EXCEPT !.peer_ip = a] : a \in Addresses}
  \cup {[link EXCEPT !.peer = s] : s \in 0 .. 2}
ChangedHost(r) == {Fb!NoHost, Dummy(0), Dummy(r), [Dummy(r) EXCEPT !.interface = "wlan"],
  [address |-> A(9, r), interface |-> "wlan", test |-> TRUE],
  [Dummy(r) EXCEPT !.address = End(r, (r + 1) % 2)]}

Edits == 2
Editing == edits < Edits /\ edits' = edits + 1
EditLink(r) == Editing /\ UNCHANGED hosts /\ \E old \in nodes[r].links :
  \E new \in ChangedLink(old) : nodes' = [nodes EXCEPT ![r] =
    [nodes[r] EXCEPT !.links = (@ \ {old}) \cup {new}]]
EditRail(r) == Editing /\ UNCHANGED hosts /\ \E old \in nodes[r].rails :
  \E new \in Changed(old) : nodes' = [nodes EXCEPT ![r] =
    [nodes[r] EXCEPT !.rails = (@ \ {old}) \cup {new}]]
EditHost(r) == Editing /\ UNCHANGED hosts /\ \E new \in ChangedHost(r) :
  nodes' = [nodes EXCEPT ![r] = [nodes[r] EXCEPT !.host = new]]
MoveGid(r) == Editing /\ UNCHANGED nodes /\ \E gid \in hosts[r].gids :
  hosts' = [hosts EXCEPT ![r] =
    [hosts[r] EXCEPT !.gids = (@ \ {gid}) \cup {[gid EXCEPT !.index = 4]}]]
Unplug(r) == Editing /\ UNCHANGED nodes /\ \E i \in hosts[r].up :
  hosts' = [hosts EXCEPT ![r] = [hosts[r] EXCEPT !.up = @ \ {i}]]
Readdress(r) == Editing /\ UNCHANGED nodes /\ \E c \in hosts[r].carries, a \in Addresses :
  hosts' = [hosts EXCEPT ![r] = [hosts[r] EXCEPT !.carries = (@ \ {c}) \cup {<<c[1], a>>}]]
Unload(r) == Editing /\ UNCHANGED nodes /\ hosts[r].rdma
  /\ hosts' = [hosts EXCEPT ![r] = [hosts[r] EXCEPT !.rdma = FALSE]]
(* The host is set up the way its node of the profile says. *)
Follow(r) == /\ hosts' = [hosts EXCEPT ![r] = HostOf(nodes[r])]
             /\ hosts' # hosts /\ UNCHANGED <<nodes, edits>>

(* When every rank's own check of its host passes, the ranks' addresses,       *)
(* links and host routes agree with each other.                               *)
FabricAgrees == subject = "fabric" => Fb!Agrees(nodes, hosts)

------------------------------------------------------------------------------
MCInit ==
  /\ subject \in {"profile", "fabric", "switch", "download", "patches"}
  /\ p \in [nodes : IF subject = "profile" THEN (2 .. 8) \cup {16} ELSE {2}, on : {{}}]
  /\ nodes \in IF subject = "fabric"
               THEN {Pair, Ring(2, {})} \cup {Ring(3, h) : h \in {{}, {0}, {1, 2}, 0 .. 2}}
               ELSE {<<>>}
  /\ hosts = [r \in DOMAIN nodes |-> HostOf(nodes[r])] /\ edits = 0
  /\ Init /\ Dl!Init
  /\ running[0] = Idle => disk[0].marker = 2
  /\ path[1] = path[0] \/ (path[0] \in Ordered /\ path[1] \in Explicit /\ running[0] # Idle)
  /\ IF subject = "patches" THEN Pa!Init
     ELSE /\ how = "" /\ files = <<>> /\ records = {} /\ layer = <<>> /\ turn = 0
          /\ patching = <<>> /\ image = "" /\ killed = 0
  /\ subject # "switch" =>
       /\ disk = [r \in Ranks |-> Fresh] /\ running = [r \in Ranks |-> Idle]
       /\ path = [r \in Ranks |-> CHOOSE text \in Texts : TRUE]

MCNext ==
  \/ Only("profile") /\ \E setting \in Pf!Switches \cup Pf!Faults : Turn(setting)
  \/ \E r \in DOMAIN nodes :
       \/ Only("fabric") /\ EditLink(r)
       \/ Only("fabric") /\ EditRail(r)
       \/ Only("fabric") /\ EditHost(r)
       \/ Only("fabric") /\ MoveGid(r)
       \/ Only("fabric") /\ Unplug(r)
       \/ Only("fabric") /\ Readdress(r)
       \/ Only("fabric") /\ Unload(r)
       \/ Only("fabric") /\ Follow(r)
  \/ \E d \in Downloaders :
       \/ Only("download") /\ Dl!Enter(d)
       \/ Only("download") /\ Dl!Begin(d)
       \/ \E piece \in Pieces : Only("download") /\ Dl!Fetch(d, piece)
       \/ Only("download") /\ Dl!Inspect(d)
       \/ Only("download") /\ Dl!Finish(d)
       \/ Only("download") /\ Dl!Fail(d)
       \/ Only("download") /\ Dl!Kill(d)
       \/ Only("download") /\ Dl!Retry(d)
  \/ \E piece \in Pieces : Only("download") /\ Dl!Damage(piece)
  \/ \E wait \in BOOLEAN : Only("download") /\ Dl!Verify(wait)
  \/ Only("download") /\ Dl!Checksum
  \/ Only("patches") /\ \E name \in Pa!Names : Pa!Refuse(name)
  \/ Only("patches") /\ \E name \in Pa!Names : Pa!Begin(name)
  \/ Only("patches") /\ \E name \in Pa!Names : Pa!Check(name)
  \/ Only("patches") /\ Pa!WriteFile
  \/ Only("patches") /\ Pa!WriteRecord
  \/ Only("patches") /\ Pa!Kill
  \/ Only("patches") /\ Pa!Mark
  \/ \E text \in Texts, env \in BOOLEAN : Only("switch") /\ Read(text, env)
  \/ Only("switch") /\ Current
  \/ \E look \in Looks : Only("switch") /\ Look(look)
  \/ Only("switch") /\ Again
  \/ Only("switch") /\ Stop
  \/ Only("switch") /\ StartNew
  \/ \E verdict \in {"install", "clean", "unconfirmed"} : Only("switch") /\ Ready(verdict)
  \/ Only("switch") /\ Clean
  \/ Only("switch") /\ Recover
  \/ \E text \in Texts : Only("switch") /\ Resume(text)
  \/ Only("switch") /\ InstallRead
  \/ \E clash \in BOOLEAN : Only("switch") /\ InstallBackup(clash)
  \/ Only("switch") /\ InstallReplace
  \/ \E r \in Ranks :
       \/ Only("switch") /\ Checkout(r)
       \/ Only("switch") /\ Relock(r)
       \/ Only("switch") /\ Replace(r)
       \/ \E whole \in BOOLEAN : Only("switch") /\ Download(r, whole)
       \/ \E enough \in BOOLEAN : Only("switch") /\ Memory(r, enough)
       \/ \E text \in Texts : Only("switch") /\ Edit(r, text)
       \/ Only("switch") /\ Exit(r)

MCSpec == MCInit /\ [][MCNext]_<<vars, subject, p, fabricVars, downloadVars, patchesVars>>

(* What the download calls complete has been fetched whole, and nobody else   *)
(* is fetching into it (Download).                                            *)
CompleteIsSettled == subject = "download" => Dl!CompleteIsSettled

(* Patches go into the package in order and never twice, and a record or the  *)
(* image's markers are there only with the patches they tell of (Patches).    *)
PatchedAsRecorded == subject = "patches" => Pa!PatchedAsRecorded
=============================================================================
