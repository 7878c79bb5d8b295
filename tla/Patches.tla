------------------------------ MODULE Patches -------------------------------
(***************************************************************************)
(* How the pinned vLLM becomes the image's (runtime/pinned_patch.py, the   *)
(* patch modules, docker/Dockerfile.reference).  Each patch names the      *)
(* files it changes and the hash each must have; it checks all of them     *)
(* before it writes the first, writes them one after the other, and then   *)
(* its record.  A build runs the patches in the Dockerfile's order and     *)
(* drops the layer of a run that fails; by hand they are run on a package  *)
(* in any order, and a run may be killed between two writes.               *)
(*                                                                         *)
(* A file's text is the sequence of the patches it has been through, which *)
(* is what its hash tells; what a patch replaces in the text is left out.  *)
(* One write puts a whole text there: what a kill within it cut short has  *)
(* no hash a patch accepts, as a drifted file has none.  Left out is the   *)
(* module the reference patch puts beside the package, which no patch      *)
(* pins, changes or asks for.                                              *)
(***************************************************************************)
EXTENDS Naturals, SequencesExt

CONSTANTS Runs,    \* how many patches are run by hand
          Kills    \* how many runs are killed

VARIABLES how,     \* "build" or "hand"
          files,   \* each file's patches so far, or what it was pinned as
          records, \* which patches have left a record beside the package
          layer,   \* files and records as the running layer began
          step,    \* which run is next: of the Dockerfile's, or by hand
          running, \* the patch that runs, and the files it has yet to write
          image,   \* "none", "failed" or "built": with its ENV lines
          killed

vars == <<how, files, records, layer, step, running, image, killed>>

------------------------------------------------------------------------------
(* The patches: per file, what it must have been through before. *)

reference == [mla |-> <<>>, flashinfer_mla_sparse_sm120 |-> <<>>]
pipeline == [model |-> <<>>]
apc_lpa == [kv_cache_manager |-> <<>>, block_pool |-> <<>>, gpu_worker |-> <<>>,
            input_processor |-> <<>>]
moe_order == [marlin_moe |-> <<>>]
indexer_topk == [sparse_attn_indexer_kpool |-> <<>>]
slot_mapping == [block_table |-> <<>>]
prefix_dedup == [block_pool |-> <<"apc_lpa">>]
kpool_seed == [kpool_compress |-> <<>>]
kpool_ring == [attention |-> <<>>, kpool_compress |-> <<"kpool_seed">>]
load_clone == [weight_utils |-> <<>>]
tp_padding == [glm5_next |-> <<>>, parameter |-> <<>>, vocab_parallel_embedding |-> <<>>,
               routed_experts |-> <<>>, weight_utils |-> <<"load_clone">>]
sampler_nonfinite == [gumbel |-> <<>>, rejection_sampler_utils |-> <<>>]

Sources ==
  [reference |-> reference, pipeline |-> pipeline, apc_lpa |-> apc_lpa, moe_order |-> moe_order,
   indexer_topk |-> indexer_topk, slot_mapping |-> slot_mapping, prefix_dedup |-> prefix_dedup,
   kpool_seed |-> kpool_seed, kpool_ring |-> kpool_ring, load_clone |-> load_clone,
   tp_padding |-> tp_padding, sampler_nonfinite |-> sampler_nonfinite]
Names == DOMAIN Sources
Files == UNION {DOMAIN Sources[p] : p \in Names}

(* The RUN lines, in order. *)
Dockerfile == <<"reference", "pipeline", "apc_lpa", "moe_order", "indexer_topk", "slot_mapping",
                "prefix_dedup", "kpool_seed", "kpool_ring", "load_clone", "tp_padding",
                "sampler_nonfinite">>

(* All but patch_apc_lpa write one. *)
Records == Names \ {"apc_lpa"}

------------------------------------------------------------------------------
(* The order a file goes through its patches in: what the first k lines leave. *)
UpTo(f) ==
  LET chain[k \in 0 .. Len(Dockerfile)] ==
        IF k = 0 THEN <<>>
        ELSE IF f \in DOMAIN Sources[Dockerfile[k]] THEN Append(chain[k - 1], Dockerfile[k])
        ELSE chain[k - 1]
  IN  chain
Chain(f) == UpTo(f)[Len(Dockerfile)]

(* The package: as pinned, with one file of another vLLM, or of an image that *)
(* was built before.                                                          *)
Drifted == <<"drifted">>
Idle == [patch |-> "none", left |-> {}, check |-> FALSE]

Init ==
  /\ how \in {"build", "hand"}
  /\ \/ files = [f \in Files |-> <<>>]
     \/ \E g \in Files : files = [f \in Files |-> IF f = g THEN Drifted ELSE <<>>]
     \/ files = [f \in Files |-> Chain(f)]
  /\ records = {} /\ layer = [files |-> files, records |-> {}]
  /\ step = 1 /\ running = Idle /\ image = "none" /\ killed = 0

(* A fault: a patch asks only whether it is in the text already. *)
NotApplied(p) ==
  \A f \in DOMAIN Sources[p] : \A i \in DOMAIN files[f] : files[f][i] \notin {p, "drifted"}

(* prepare, prepare_files: every file has the hash it is pinned by. *)
Accepted(p) == \A f \in DOMAIN Sources[p] : files[f] = Sources[p][f]

(* In a build the line must be the next one; --check is a hand's. *)
MayRun(p) ==
  /\ running = Idle
  /\ how = "build" => image = "none" /\ step <= Len(Dockerfile) /\ p = Dockerfile[step]
  /\ how = "hand" => step <= Runs

(* main and main_files: refuse before anything is written, or begin. *)
Refuse(p) ==
  /\ MayRun(p) /\ ~Accepted(p)
  /\ image' = IF how = "build" THEN "failed" ELSE image
  /\ UNCHANGED <<how, files, records, layer, step, running, killed>>
Begin(p) ==
  /\ MayRun(p) /\ Accepted(p)
  /\ running' = [patch |-> p, left |-> DOMAIN Sources[p], check |-> FALSE]
  /\ layer' = IF how = "build" THEN [files |-> files, records |-> records] ELSE layer
  /\ UNCHANGED <<how, files, records, step, image, killed>>
Check(p) ==
  /\ how = "hand" /\ MayRun(p) /\ Accepted(p)
  /\ running' = [patch |-> p, left |-> {}, check |-> TRUE]
  /\ UNCHANGED <<how, files, records, layer, step, image, killed>>

(* The files are written in the order their names are listed in; any stands   *)
(* for it, as only a kill comes between.                                      *)
WriteFile ==
  /\ running.left # {}
  /\ LET f == CHOOSE g \in running.left : TRUE IN
     /\ files' = [files EXCEPT ![f] = Append(@, running.patch)]
     /\ running' = [running EXCEPT !.left = @ \ {f}]
  /\ UNCHANGED <<how, records, layer, step, image, killed>>

(* The record comes last, unless only checking. *)
WriteRecord ==
  /\ running # Idle /\ running.left = {}
  /\ records' = IF running.check THEN records ELSE records \cup ({running.patch} \cap Records)
  /\ running' = Idle /\ step' = step + 1
  /\ UNCHANGED <<how, files, layer, image, killed>>

(* A run is killed: what it wrote stays, but a build drops its layer. *)
Kill ==
  /\ running # Idle /\ killed < Kills /\ killed' = killed + 1 /\ running' = Idle
  /\ IF how = "build"
     THEN image' = "failed" /\ files' = layer.files /\ records' = layer.records
     ELSE UNCHANGED <<image, files, records>>
  /\ step' = step + 1 /\ UNCHANGED <<how, layer>>

(* The ENV lines come after the last RUN. *)
Mark ==
  /\ how = "build" /\ image = "none" /\ running = Idle /\ step > Len(Dockerfile)
  /\ image' = "built"
  /\ UNCHANGED <<how, files, records, layer, step, running, killed>>

Next ==
  \/ \E p \in Names : Refuse(p) \/ Begin(p) \/ Check(p)
  \/ WriteFile \/ WriteRecord \/ Kill \/ Mark
Spec == Init /\ [][Next]_vars

------------------------------------------------------------------------------
(* No file is ever patched out of order, twice, or from another vLLM, however *)
(* often and in whatever order the patches were run and killed; a record is   *)
(* there only when its patch is in all of its files; and an image with the    *)
(* markers the launcher looks for has every patch in every file.              *)
PatchedAsRecorded ==
  /\ \A f \in DOMAIN files : files[f] \notin {<<>>, Drifted} => IsPrefix(files[f], Chain(f))
  /\ \A p \in records : \A f \in DOMAIN Sources[p] : \E i \in DOMAIN files[f] : files[f][i] = p
  /\ image = "built" => records = Records /\ \A f \in DOMAIN files : files[f] = Chain(f)

------------------------------------------------------------------------------
(* The inductive invariant behind it.  Of a package that was ever touched     *)
(* every file is as the first lines of the Dockerfile leave it.               *)
Whole(fs, rs) ==
  /\ DOMAIN fs = Files /\ rs \subseteq Records
  /\ \A f \in Files : fs[f] = Drifted \/ \E k \in 0 .. Len(Dockerfile) : fs[f] = UpTo(f)[k]
  /\ \A p \in rs : \A f \in DOMAIN Sources[p] : \E i \in DOMAIN fs[f] : fs[f][i] = p

(* What the running patch has yet to write is as it found it. *)
Writing ==
  /\ running \in [patch : Names, left : SUBSET Files, check : BOOLEAN]
  /\ running.left \subseteq DOMAIN Sources[running.patch]
  /\ running.check => running.left = {}
  /\ ~running.check => \A f \in DOMAIN Sources[running.patch] :
       files[f] = IF f \in running.left THEN Sources[running.patch][f]
                  ELSE Append(Sources[running.patch][f], running.patch)

(* The files that the lines before the build's next one patch are as those    *)
(* lines leave them, but for what the running patch has written already.      *)
Building ==
  /\ step \in 1 .. Len(Dockerfile) + 1
  /\ records = Records \cap {Dockerfile[j] : j \in 1 .. step - 1}
  /\ \A j \in 1 .. step - 1 : \A f \in DOMAIN Sources[Dockerfile[j]] :
       files[f] = UpTo(f)[step - 1] \/ (running # Idle /\ f \in DOMAIN Sources[running.patch])
  /\ running # Idle =>
       step <= Len(Dockerfile) /\ running.patch = Dockerfile[step] /\ ~running.check

IInv ==
  /\ Whole(files, records) /\ Whole(layer.files, layer.records)
  /\ running = Idle \/ Writing
  /\ how = "build" /\ image # "failed" => Building
  /\ image # "none" => how = "build" /\ running = Idle
  /\ image = "built" => step = Len(Dockerfile) + 1
=============================================================================
