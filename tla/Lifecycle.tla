------------------------------ MODULE Lifecycle ------------------------------
(***************************************************************************)
(* What one rank promises a coordinator about each launch attempt: the     *)
(* attempt is reserved, its supervisor launches it, it comes up, it ends   *)
(* on its own, and a confirmed stop is final.  RankHost shows the remote   *)
(* operations of cluster.rpc keep this promise; Switch relies on it.       *)
(***************************************************************************)
CONSTANT Attempts      \* launch attempts, each with its own identity

VARIABLE att           \* att[a]: the phase of attempt a

Phases == {"absent", "reserved", "launching", "up", "ended", "stopped"}

\* The phases an attempt may move to without a confirmed stop.  One that fails
\* before its container runs ends from "launching", one cancelled before its
\* supervisor is spawned from "reserved"; nothing leaves "ended" or "stopped"
\* for a live phase.
Moves == [absent    |-> {"reserved"},
          reserved  |-> {"launching", "ended"},
          launching |-> {"up", "ended"},
          up        |-> {"ended"},
          ended     |-> {},
          stopped   |-> {}]

\* A confirmed stop may find the attempt in any phase it was reserved for.
CanStop == {"reserved", "launching", "up", "ended"}

\* Phases in which the attempt holds, or may yet take, the rank's GPU.
Live == {"launching", "up"}

TypeOK == att \in [Attempts -> Phases]

Init == TypeOK

Move(a) == \E p \in Moves[att[a]] : att' = [att EXCEPT ![a] = p]

Stop(a) == att[a] \in CanStop /\ att' = [att EXCEPT ![a] = "stopped"]

Next == \E a \in Attempts : Move(a) \/ Stop(a)

Spec == Init /\ [][Next]_att
=============================================================================
