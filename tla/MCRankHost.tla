----------------------------- MODULE MCRankHost -----------------------------
(* Instances of RankHost for TLC: a0 is the old launch, started by s0; a1 is *)
(* the new attempt, whose requests may be delivered twice; a2 is the         *)
(* recovery.                                                                 *)
EXTENDS RankHost, TLC

CONSTANTS a0, a1, a2, s0, s1, s2, s3, p0, p1, p2

\* A switch: stop a0, start a1 (replayed), stop a1, start a2.
SwitchTarget == (s0 :> a0) @@ (s1 :> a1) @@ (s2 :> a1) @@ (s3 :> a2)
                  @@ (p0 :> a0) @@ (p1 :> a1)

\* One attempt whose start and whose stop are each delivered twice.
ReplayTarget == (s1 :> a1) @@ (s2 :> a1) @@ (p1 :> a1) @@ (p2 :> a1)

\* One attempt, started once and stopped once.
OneTarget == (s1 :> a1) @@ (p1 :> a1)
=============================================================================
