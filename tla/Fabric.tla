-------------------------------- MODULE Fabric --------------------------------
(***************************************************************************)
(* The fabric of a launch (fabric.py): which node lists are valid, what    *)
(* each rank makes of its node (addressing, the site, NCCL's variables,    *)
(* the link probes), and what preflight reads of the host.                 *)
(*                                                                         *)
(* An address is a /30 and a host number in it; /30 number 0 stands for    *)
(* the addresses no fabric can use (loopback, unspecified, multicast).     *)
(* Ranks are numbered from 0.  A node either has rails of its own (the     *)
(* two-node form) or lists one link per other node; the host_address of a  *)
(* node, when it has one, comes with the interface that carries it.        *)
(***************************************************************************)
EXTENDS Naturals, FiniteSets

NoHost == [address |-> [net |-> 0, host |-> 0], interface |-> "", test |-> FALSE]

IsFabric(address) == address.net # 0
IsWifi(interface) == interface \in {"wlan"}
OneSlash30(a, b) == a.net = b.net /\ {a.host, b.host} = {1, 2}

Linked(node) == node.links # {}
HasHost(node) == node.host # NoHost
LinkToward(node, peer) == CHOOSE link \in node.links : link.peer = peer

(* rails: what every rail of a rank must satisfy beside the others. *)
Rails(node) == IF Linked(node) THEN node.links ELSE node.rails
ValidRails(node) ==
  /\ \A rail \in Rails(node) : ~IsWifi(rail.interface) /\ IsFabric(rail.local)
  /\ \A one, other \in Rails(node) :
       /\ one.gid = other.gid
       /\ one # other => /\ <<one.hca, one.port>> # <<other.hca, other.port>>
                         /\ one.interface # other.interface /\ one.local # other.local

(* validate_nodes, on the list and then on each node of a linked one. *)
ValidNode(nodes, rank) ==
  LET node == nodes[rank] host == nodes[rank].host IN
  /\ {link.peer : link \in node.links} = DOMAIN nodes \ {rank}
  /\ Cardinality(node.links) = Cardinality(DOMAIN nodes) - 1
  /\ \A link \in node.links : IsFabric(link.peer_ip) /\ link.port = 1
  /\ ValidRails(node)
  /\ IsWifi(host.interface) => host.test

(* A fault: a link is valid whatever its other end says. *)
ValidEnd(nodes, rank, link) == OneSlash30(link.local, link.peer_ip)

ValidLink(nodes, rank, link) ==
  LET back == LinkToward(nodes[link.peer], rank) IN
  /\ link.local = back.peer_ip /\ link.peer_ip = back.local
  /\ OneSlash30(link.local, link.peer_ip)

ValidHosts(nodes) ==
  LET hosted == {r \in DOMAIN nodes : HasHost(nodes[r])} IN
  /\ \A r \in hosted : IsFabric(nodes[r].host.address)
  /\ \A r, s \in hosted : r # s => nodes[r].host.address # nodes[s].host.address
  /\ \A r \in hosted, s \in DOMAIN nodes : \A link \in nodes[s].links :
       nodes[r].host.address # link.local

ValidNodes(nodes) ==
  IF \A r \in DOMAIN nodes : ~Linked(nodes[r])
  THEN Cardinality(DOMAIN nodes) = 2 /\ \A r \in DOMAIN nodes : ~HasHost(nodes[r])
  ELSE /\ \A r \in DOMAIN nodes : ValidNode(nodes, r)
       /\ \A r \in DOMAIN nodes : \A link \in nodes[r].links : ValidLink(nodes, r, link)
       /\ ValidHosts(nodes)

(* addressing: each rank picks for itself, so the two forms may be mixed. *)
Addressing(nodes, rank) ==
  LET node == nodes[rank]
      end == LinkToward(node, IF rank = 0 THEN 1 ELSE 0)
  IN  [head_ip |-> IF HasHost(nodes[0]) THEN nodes[0].host.address
                   ELSE LinkToward(nodes[0], IF rank = 0 THEN 1 ELSE rank).local,
       local_ip |-> IF HasHost(node) THEN node.host.address ELSE end.local,
       interface |-> IF HasHost(node) THEN node.host.interface ELSE end.interface]

(* site: a node without links keeps the two-node form. *)
Primary(node) == CHOOSE rail \in node.rails : rail.primary
Site(nodes, rank) ==
  IF Linked(nodes[rank]) THEN Addressing(nodes, rank)
  ELSE [head_ip |-> Primary(nodes[0]).local, local_ip |-> Primary(nodes[rank]).local,
        interface |-> Primary(nodes[rank]).interface]

(* validate_site; its ports and names are left out. *)
ValidSite(nodes, rank) ==
  LET site == Site(nodes, rank) IN
  /\ IsFabric(site.head_ip) /\ IsFabric(site.local_ip)
  /\ (rank = 0) = (site.head_ip = site.local_ip)
  /\ IsWifi(site.interface) => nodes[rank].host.test
  /\ ValidRails(nodes[rank])

Valid(nodes) == ValidNodes(nodes) /\ \A r \in DOMAIN nodes : ValidSite(nodes, r)

(* fabric_env: the variables NCCL, Gloo and vLLM read on this rank. *)
FabricEnv(nodes, rank) ==
  LET site == Site(nodes, rank) IN
  [VLLM_HOST_IP |-> site.local_ip, SOCKET_IFNAME |-> site.interface,
   NCCL_IB_HCA |-> {<<rail.hca, rail.port>> : rail \in Rails(nodes[rank])},
   NCCL_IB_GID_INDEX |-> (CHOOSE rail \in Rails(nodes[rank]) : TRUE).gid,
   SUBNET_AWARE_ROUTING |-> Cardinality(DOMAIN nodes) >= 3]

(* link_probes: the lower rank of a pair is the probe's rank 0 and its head. *)
LinkProbe(nodes, rank, link) ==
  LET lower == rank < link.peer IN
  [rank |-> IF lower THEN 0 ELSE 1, head |-> IF lower THEN link.local ELSE link.peer_ip,
   local |-> link.local, hca |-> link.hca, gid |-> link.gid]

------------------------------------------------------------------------------
(* A host: the interfaces that are up, the addresses they carry, the ports   *)
(* that are active, each port's table of IPv4 RoCE v2 GIDs, and whether      *)
(* /dev/infiniband is there, through which a process opens a port.           *)

RoceV2Gid(host, index, rail) ==
  [port |-> <<rail.hca, rail.port>>, index |-> index, address |-> rail.local,
   interface |-> rail.interface] \in host.gids
Assigned(host, interface, address) == <<interface, address>> \in host.carries

Checks(nodes, rank, host) ==
  /\ host.rdma
  /\ \A rail \in Rails(nodes[rank]) :
       /\ rail.interface \in host.up /\ <<rail.hca, rail.port>> \in host.active
       /\ RoceV2Gid(host, rail.gid, rail)
       /\ Assigned(host, rail.interface, rail.local)
  /\ HasHost(nodes[rank]) =>
       Assigned(host, nodes[rank].host.interface, nodes[rank].host.address)

(* gid_hints: the indices where a refused rail's GID is now. *)
GidHints(nodes, rank, host) ==
  [rail \in {r \in Rails(nodes[rank]) : ~RoceV2Gid(host, r.gid, r)} |->
     {gid.index : gid \in {g \in host.gids : /\ g.port = <<rail.hca, rail.port>>
                                             /\ g.address = rail.local
                                             /\ g.interface = rail.interface}}]

(* gid_fixes: an index every rail's GID is at now, to put in the profile. *)
GidFix(nodes, rank, host) ==
  LET hints == GidHints(nodes, rank, host)
      kept(rail) == IF rail \in DOMAIN hints THEN hints[rail] ELSE {rail.gid}
  IN  {i \in UNION {kept(rail) : rail \in Rails(nodes[rank])} :
         \A rail \in Rails(nodes[rank]) : i \in kept(rail)}
Regid(node, index) ==
  [node EXCEPT !.links = {[link EXCEPT !.gid = index] : link \in @},
               !.rails = {[rail EXCEPT !.gid = index] : rail \in @}]

------------------------------------------------------------------------------
(* Ranks whose profile is valid and whose hosts pass meet the head at an     *)
(* address of its own, over their own link when it is a link's; advertise an *)
(* address their sockets' interface carries; name to NCCL ports it can open, *)
(* with a GID of theirs at the one index it takes; and run a link's probe as one pair.  *)
MeetsHead(nodes, hosts, rank) ==
  LET site == Site(nodes, rank) IN
  /\ \E carried \in hosts[0].carries : carried[2] = site.head_ip
  /\ rank # 0 /\ Linked(nodes[rank]) /\ ~HasHost(nodes[0]) =>
       \E rail \in Rails(nodes[rank]) : OneSlash30(rail.local, site.head_ip)

NamesItsPorts(nodes, hosts, rank) ==
  LET env == FabricEnv(nodes, rank) IN
  /\ Assigned(hosts[rank], env.SOCKET_IFNAME, env.VLLM_HOST_IP)
  /\ hosts[rank].rdma
  /\ \A port \in env.NCCL_IB_HCA : \E gid \in hosts[rank].gids :
       gid.port = port /\ gid.index = env.NCCL_IB_GID_INDEX

ProbesPair(nodes, rank) ==
  \A link \in nodes[rank].links :
    LET mine == LinkProbe(nodes, rank, link)
        theirs == LinkProbe(nodes, link.peer, LinkToward(nodes[link.peer], rank))
    IN  /\ {mine.rank, theirs.rank} = {0, 1} /\ mine.head = theirs.head
        /\ mine.head = (IF mine.rank = 0 THEN mine ELSE theirs).local

(* The index a refusal's hint offers, put in the profile, is one the checks   *)
(* of that rank accept and no other check of the profile refuses.             *)
HintHelps(nodes, hosts, rank) ==
  \A i \in GidFix(nodes, rank, hosts[rank]) :
    LET fixed == [nodes EXCEPT ![rank] = Regid(@, i)] IN
    Valid(fixed) /\ \A rail \in Rails(fixed[rank]) : RoceV2Gid(hosts[rank], i, rail)

Agrees(nodes, hosts) == Valid(nodes) =>
  /\ \A r \in DOMAIN nodes : ProbesPair(nodes, r) /\ HintHelps(nodes, hosts, r)
  /\ (\A r \in DOMAIN nodes : Checks(nodes, r, hosts[r])) =>
       \A r \in DOMAIN nodes : MeetsHead(nodes, hosts, r) /\ NamesItsPorts(nodes, hosts, r)
=============================================================================
