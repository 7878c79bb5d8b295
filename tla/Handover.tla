------------------------------ MODULE Handover ------------------------------
(***************************************************************************)
(* What a switch promises its operator, without ranks, requests or         *)
(* journal fields: which launches (the old one, the new one, the old one   *)
(* relaunched as a recovery) may be running somewhere, which was started   *)
(* last, and what result.json lets the operator conclude.                  *)
(***************************************************************************)
VARIABLES
    running,    \* launches that run, or may run, on some rank
    era,        \* the launch started last
    verdict     \* what the saved record concludes

vars == <<running, era, verdict>>

Launches == {"old", "new", "rec"}
Verdicts == {"open", "complete", "recovered", "unconfirmed"}

TypeOK == running \subseteq Launches /\ era \in Launches /\ verdict \in Verdicts

Init ==
    /\ running \subseteq {"old"}
    /\ era = "old"
    /\ verdict = "open"

\* A launch is stopped on its last rank, or has ended there by itself.
Leave ==
    /\ \E g \in running : running' = running \ {g}
    /\ UNCHANGED <<era, verdict>>

\* The new launch begins on a rank: nothing else may run on any rank.
BeginNew ==
    /\ verdict = "open" /\ era \in {"old", "new"}
    /\ running \subseteq {"new"}
    /\ running' = {"new"}
    /\ era' = "new"
    /\ UNCHANGED verdict

\* The recovery begins on a rank: the new launch is down on all of them.
BeginRecovery ==
    /\ verdict = "open"
    /\ "new" \notin running
    /\ running' = running \cup {"rec"}
    /\ era' = "rec"
    /\ UNCHANGED verdict

\* A conclusion is about the launch started last.  A conclusion is final,
\* except that readiness once unconfirmed may be confirmed or refuted.
Conclude ==
    /\ \/ /\ verdict \in {"open", "unconfirmed"}
          /\ \/ verdict' = "complete" /\ era = "new"
             \/ verdict' = "recovered" /\ era = "rec"
       \/ verdict = "open" /\ verdict' = "unconfirmed" /\ era # "old"
       \/ verdict = "unconfirmed" /\ verdict' = "open"
    /\ UNCHANGED <<running, era>>

Next == Leave \/ BeginNew \/ BeginRecovery \/ Conclude

Spec == Init /\ [][Next]_vars
=============================================================================
