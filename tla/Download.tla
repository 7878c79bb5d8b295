------------------------------ MODULE Download ------------------------------
(***************************************************************************)
(* The checkpoint's download (download.py) and the checksum run that waits *)
(* for it (verify_download.py): downloaders that exclude each other by a   *)
(* file lock the system drops with its holder, a status file that every    *)
(* other command reads, and a verifier that polls that file.               *)
(*                                                                         *)
(* The snapshot is a set of pieces; the hub fetches them one by one and    *)
(* skips those it has.  The status and manifest files are replaced whole.  *)
(***************************************************************************)
EXTENDS Naturals

CONSTANTS Downloaders, Pieces, Damages

VARIABLES lock,      \* the downloader that holds download.lock, or "free"
          at,        \* per downloader: where it is
          status,    \* download-status.json: "none", "downloading", "complete", "failed"
          snapshot,  \* the pieces that are there in full
          checksum,  \* the verifier: its status file, and what it runs on
          damages    \* how often a piece has been removed or cut

Working(d) == at[d] \in {"begun", "fetching", "checked"}

vars == <<lock, at, status, snapshot, checksum, damages>>

Init ==
  /\ lock = "free" /\ at = [d \in Downloaders |-> "out"] /\ status = "none"
  /\ snapshot = {} /\ checksum = "unasked" /\ damages = 0

(* A fault: the lock is not taken. *)
EnterFreely(d) ==
  /\ at[d] = "out" /\ at' = [at EXCEPT ![d] = "begun"]
  /\ UNCHANGED <<lock, status, snapshot, checksum, damages>>

(* main: the lock is tried once; a second downloader leaves, touching nothing. *)
Enter(d) ==
  /\ at[d] = "out"
  /\ IF lock = "free" THEN lock' = d /\ at' = [at EXCEPT ![d] = "begun"]
     ELSE at' = [at EXCEPT ![d] = "refused"] /\ UNCHANGED lock
  /\ UNCHANGED <<status, snapshot, checksum, damages>>

(* download: the status is written before anything is asked of the hub. *)
Begin(d) ==
  /\ at[d] = "begun"
  /\ status' = "downloading" /\ at' = [at EXCEPT ![d] = "fetching"]
  /\ UNCHANGED <<lock, snapshot, checksum, damages>>

(* snapshot_download, two shards at a time: one piece arrives. *)
Fetch(d, piece) ==
  /\ at[d] = "fetching" /\ piece \notin snapshot
  /\ snapshot' = snapshot \cup {piece}
  /\ UNCHANGED <<lock, at, status, checksum, damages>>

(* It returns, and the files are held against the manifest and the index. *)
Whole == snapshot = Pieces
Leave(d, verdict) ==
  /\ status' = verdict /\ at' = [at EXCEPT ![d] = "left"] /\ lock' = "free"
  /\ UNCHANGED <<snapshot, checksum, damages>>
Inspect(d) ==
  /\ at[d] = "fetching"
  /\ \/ /\ Whole /\ at' = [at EXCEPT ![d] = "checked"]
        /\ UNCHANGED <<lock, status, snapshot, checksum, damages>>
     \/ ~Whole /\ Leave(d, "failed")

(* What was found is written, whatever has become of the files meanwhile. *)
Finish(d) == at[d] = "checked" /\ Leave(d, "complete")

(* A failure of the hub, the disk or the network. *)
Fail(d) == at[d] \in {"fetching", "checked"} /\ Leave(d, "failed")

(* SIGKILL: the lock falls with the process, the status file stays. *)
Kill(d) ==
  /\ Working(d)
  /\ at' = [at EXCEPT ![d] = "left"] /\ lock' = "free"
  /\ UNCHANGED <<status, snapshot, checksum, damages>>

(* The operator starts it again. *)
Retry(d) ==
  /\ at[d] \in {"left", "refused"} /\ at' = [at EXCEPT ![d] = "out"]
  /\ UNCHANGED <<lock, status, snapshot, checksum, damages>>

Damage(piece) ==
  /\ damages < Damages /\ damages' = damages + 1
  /\ piece \in snapshot /\ snapshot' = snapshot \ {piece}
  /\ UNCHANGED <<lock, at, status, checksum>>

(* verify_download: with --wait it polls until the status is final.  Before  *)
(* the first download there is no status to read.                            *)
Verify(wait) ==
  /\ checksum \in {"unasked", "waiting"}
  /\ checksum' = IF status = "complete" THEN "verifying"
                 ELSE IF status = "downloading" /\ wait THEN "waiting" ELSE "failed"
  /\ UNCHANGED <<lock, at, status, snapshot, damages>>

(* hf cache verify, missing files being failures. *)
Checksum ==
  /\ checksum = "verifying" /\ checksum' = IF Whole THEN "complete" ELSE "failed"
  /\ UNCHANGED <<lock, at, status, snapshot, damages>>

Next ==
  \/ \E d \in Downloaders :
       \/ Enter(d) \/ Begin(d) \/ Inspect(d) \/ Finish(d) \/ Fail(d) \/ Kill(d) \/ Retry(d)
       \/ \E piece \in Pieces : Fetch(d, piece)
  \/ \E piece \in Pieces : Damage(piece)
  \/ \E wait \in BOOLEAN : Verify(wait)
  \/ Checksum
Spec == Init /\ [][Next]_vars

------------------------------------------------------------------------------
(* "complete" is what the launch's preflight and the checksum run act on: it  *)
(* means that no downloader is at work on the snapshot and that the snapshot  *)
(* is whole, unless a piece was damaged since - whatever was killed, refused  *)
(* or begun again before.                                                     *)
CompleteIsSettled == status = "complete" =>
  /\ \A d \in Downloaders : at[d] \notin {"fetching", "checked"}
  /\ Whole \/ damages > 0

(* Why it is: the lock's holder is the only one at work, from its entry to    *)
(* its last write, and a file that lacks a piece is not called complete.      *)
HolderWorks ==
  /\ \A d \in Downloaders : Working(d) <=> lock = d
  /\ lock \in Downloaders \cup {"free"}
IInv ==
  /\ at \in [Downloaders -> {"out", "begun", "fetching", "checked", "left", "refused"}]
  /\ \A d \in Downloaders : at[d] = "checked" => Whole \/ damages > 0
  /\ snapshot \subseteq Pieces /\ damages \in Nat
  /\ HolderWorks /\ CompleteIsSettled
=============================================================================
