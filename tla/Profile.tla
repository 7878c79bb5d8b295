------------------------------- MODULE Profile -------------------------------
(***************************************************************************)
(* The launch profile (server_config.py): what validate() accepts, what    *)
(* vLLM is told on one rank, and what the programs in the image ask of it. *)
(*                                                                         *)
(* A profile is a number of nodes and the settings it changes from the     *)
(* shipped example, by name; the names beginning with bad are settings no  *)
(* launch can use.  Text, units and formatting are left out.  Everything   *)
(* here is an operator: Launch.tla decides when it is read.                *)
(***************************************************************************)
EXTENDS Naturals, FiniteSets

Switches == {"graphs", "no_graphs", "eager", "not_eager", "sync", "async",
  "pp2", "ep", "lpa", "mtp", "depth1", "depth5", "prefix", "fused", "two", "three",
  "component", "expert", "probe", "fa2", "derived", "derived_off", "big_kv", "dev",
  "moe_order", "topk", "dedup", "deterministic", "spin", "vision", "profiling"}
Faults == {"bad_schema", "bad_shape", "bad_image", "bad_size", "bad_derived",
  "bad_split", "bad_room", "bad_view", "bad_cut", "bad_node"}

(* Two spellings of one key are one profile's only one at a time. *)
Exclusive == {{"graphs", "no_graphs"}, {"eager", "not_eager"}, {"sync", "async"},
  {"depth1", "depth5"}, {"two", "three"}, {"derived", "derived_off"}}
IsProfile(p) == \A pair \in Exclusive : ~(pair \subseteq p.on)

On(p, name) == name \in p.on
Sequences(p) == IF On(p, "three") THEN 3 ELSE IF On(p, "two") THEN 2 ELSE 1
Depth(p) == IF On(p, "depth1") THEN 1 ELSE IF On(p, "depth5") THEN 5 ELSE 3

(* decode_graphs is the switch, enforce_eager its earlier spelling. *)
DecodeGraphs(p) ==
  IF p.on \cap {"graphs", "no_graphs"} # {} THEN On(p, "graphs") ELSE On(p, "not_eager")

TensorParallel(p) == IF On(p, "pp2") THEN 1 ELSE p.nodes
Derived(p) == On(p, "derived")
ApcLpa(p) == On(p, "lpa") /\ On(p, "prefix")
NativeLpa(p) == On(p, "lpa") /\ ~ApcLpa(p)
DevMode(p) == p.on \cap {"dev", "lpa", "component", "expert"} # {}
AsynchronousIndexChecks(p) ==
  On(p, "async") \/ (~On(p, "sync") /\ DecodeGraphs(p))

------------------------------------------------------------------------------
(* validate: the fourteen checks, each with what it refuses.  *)

Schema(p) == ~On(p, "bad_schema")

OptionalShapes(p) ==
  /\ ~On(p, "bad_shape")
  /\ ~({"graphs", "eager"} \subseteq p.on) /\ ~({"no_graphs", "not_eager"} \subseteq p.on)
  /\ ~({"fa2", "lpa"} \subseteq p.on)

ValidDerived(p) == ~On(p, "bad_derived")
PinnedIdentity(p) == ~On(p, "bad_image")
Magnitudes(p) == ~On(p, "bad_size")

ExpertObserver(p) == On(p, "expert") =>
  /\ p.on \cap {"component", "pp2", "lpa", "mtp", "prefix"} = {}
  /\ ~DecodeGraphs(p) /\ Sequences(p) <= 2

Parallelism(p) ==
  /\ ~On(p, "bad_split")
  /\ DecodeGraphs(p) => ~On(p, "sync")
  /\ On(p, "pp2") => /\ p.on \cap {"ep", "lpa", "mtp", "prefix", "fused"} = {}
                     /\ ~DecodeGraphs(p) /\ Sequences(p) = 1
  /\ On(p, "ep") => /\ p.on \cap {"lpa", "mtp", "prefix", "fused"} = {}
                    /\ ~DecodeGraphs(p) /\ Sequences(p) <= 2

NodeCount(p) == p.nodes # 2 => p.on \cap {"pp2", "ep", "expert", "lpa"} = {}

WorkerExclusivity(p) ==
  /\ On(p, "component") => /\ p.on \cap {"lpa", "mtp", "prefix"} = {}
                           /\ ~DecodeGraphs(p) /\ Sequences(p) = 1
  /\ On(p, "lpa") => Sequences(p) = 1
  /\ On(p, "probe") => p.on \cap {"lpa", "component", "expert"} = {}

Generation(p) == ~On(p, "bad_room")
KvBudget(p) == p.nodes = 2 /\ On(p, "big_kv") => Derived(p)
Speculation(p) == ~On(p, "bad_view")

LpaDepths == {1, 2, 3}
(* A fault: the depths LPA was calibrated for are not asked for. *)
LpaAnyDepth(p) == ~On(p, "bad_cut") /\ (On(p, "lpa") => ~DecodeGraphs(p))

Lpa(p) ==
  /\ ~On(p, "bad_cut")
  /\ On(p, "lpa") => ~DecodeGraphs(p) /\ (On(p, "mtp") => Depth(p) \in LpaDepths)

GraphScope(p) == DecodeGraphs(p) => Sequences(p) = 1
Identifiers(p) == ~On(p, "bad_node")

Accepted(p) ==
  /\ Schema(p) /\ OptionalShapes(p) /\ ValidDerived(p) /\ PinnedIdentity(p)
  /\ Magnitudes(p) /\ ExpertObserver(p) /\ Parallelism(p) /\ NodeCount(p)
  /\ WorkerExclusivity(p) /\ Generation(p) /\ KvBudget(p) /\ Speculation(p)
  /\ Lpa(p) /\ GraphScope(p) /\ Identifiers(p)

------------------------------------------------------------------------------
(* tp_padding: the shapes the ranks share. *)

Heads == 64
MoeWidth == 2048
Vocab == 154880
Align == 64
RoundUp(n, step) == ((n + step - 1) \div step) * step

RequiredMultiple(tp) ==
  IF Heads % tp = 0 /\ MoeWidth % (Align * tp) = 0 /\ RoundUp(Vocab, Align) % tp = 0
  THEN 1 ELSE tp

PaddedHeads(m) == RoundUp(Heads, m)
PaddedMoeWidth(m) == IF m = 1 THEN MoeWidth ELSE RoundUp(MoeWidth, Align * m)
Lcm(a, b) ==
  a * (CHOOSE k \in 1 .. b : (a * k) % b = 0 /\ \A j \in 1 .. k - 1 : (a * j) % b # 0)
PaddedVocab(m) == RoundUp(Vocab, IF m = 1 THEN Align ELSE Lcm(Align, m))

Padding(p) == RequiredMultiple(TensorParallel(p))

(* What pad_text_config leaves the model to be built with. *)
Shapes(m) == {<<Heads, PaddedHeads(m)>>, <<MoeWidth, PaddedMoeWidth(m)>>,
              <<Vocab, PaddedVocab(m)>>}

(* pad_then_narrow: without padding the rows must be there; with it the shard *)
(* may run past the end, and must not begin there.                            *)
Narrows(size, start, length, m) ==
  IF m = 1 THEN start + length <= size ELSE start + length - size < length

------------------------------------------------------------------------------
(* environment: the variables that turn something on in the image. *)

Environment(p) ==
  [fa2 |-> On(p, "fa2"), deterministic |-> On(p, "deterministic"), spin |-> On(p, "spin"),
   moe_order |-> On(p, "moe_order"), topk |-> On(p, "topk"), dedup |-> On(p, "dedup"),
   dev |-> DevMode(p), fused |-> On(p, "fused"), async |-> AsynchronousIndexChecks(p),
   apc_lpa |-> ApcLpa(p), partition |-> On(p, "pp2"), pad |-> Padding(p)]

(* serve_args: the template of one rank and the steps that apply the profile. *)
ServeTemplate(p, rank) ==
  [eager |-> TRUE, seqs |-> 1, tp |-> p.nodes, pp |-> 1, ep |-> FALSE,
   prefix |-> FALSE, draft |-> 0, captures |-> {}, workers |-> {}, images |-> FALSE,
   encoder |-> "weights", profiler |-> FALSE, headless |-> rank # 0]

ApplyScalars(args, p) == [args EXCEPT !.seqs = Sequences(p)]
ApplyFlags(args, p) == [args EXCEPT !.eager = ~DecodeGraphs(p)]
VisionHeads == 16
ApplyVision(args, p) ==
  IF ~On(p, "vision") THEN args
  ELSE [args EXCEPT !.images = TRUE,
          !.encoder = IF VisionHeads % TensorParallel(p) = 0 THEN "weights" ELSE "data"]
ApplyCache(args, p) == [args EXCEPT !.prefix = On(p, "prefix")]
ApplySpeculation(args, p) == IF On(p, "mtp") THEN [args EXCEPT !.draft = Depth(p)] ELSE args
ApplyDecodeGraphs(args, p) ==
  IF ~DecodeGraphs(p) THEN args
  ELSE [args EXCEPT !.captures = {IF On(p, "mtp") THEN 1 + Depth(p) ELSE 1}]
ApplyWorkerExtension(args, p) ==
  [args EXCEPT !.workers = p.on \cap {"lpa", "component", "expert", "probe"}]
ApplyProfiling(args, p) == [args EXCEPT !.profiler = On(p, "profiling")]
ApplyParallelism(args, p) ==
  [args EXCEPT !.ep = On(p, "ep"), !.tp = TensorParallel(p),
               !.pp = IF On(p, "pp2") THEN 2 ELSE 1]

ServeArgs(p, rank) ==
  LET scalars == ApplyScalars(ServeTemplate(p, rank), p)
      cached == ApplyCache(ApplyVision(ApplyFlags(scalars, p), p), p)
      drafted == ApplyDecodeGraphs(ApplySpeculation(cached, p), p)
  IN  ApplyParallelism(ApplyProfiling(ApplyWorkerExtension(drafted, p), p), p)

(* Which model the container is given, and whether it lies in its mount. *)
ModelPath(p) ==
  IF Derived(p) THEN "derived" ELSE IF On(p, "mtp") THEN "view" ELSE "snapshot"
Mounted(p) == ModelPath(p) = "view" => ~On(p, "bad_view")

------------------------------------------------------------------------------
(* image_capability_checks: a marker in the image's environment for each      *)
(* feature the profile turns on (Launch.tla has the recovery's older marker). *)
Feature(marker, p) ==
  CASE marker = "PIPELINE_API=1"             -> On(p, "pp2")
    [] marker = "EXPERT_PARALLEL_API=1"      -> On(p, "ep") \/ On(p, "expert")
    [] marker = "COMPONENT_API=1"            -> On(p, "component")
    [] marker = "FUSED_UNPACK_SUPPORTED=1"   -> On(p, "fused")
    [] marker = "DECODE_GRAPH_API=1"         -> DecodeGraphs(p)
    [] marker = "ASYNC_INDEX_CHECK_API=1"    -> AsynchronousIndexChecks(p)
    [] marker = "LPA_API=2"                  -> On(p, "lpa")
    [] marker = "APC_LPA_API=1"              -> ApcLpa(p)
    [] marker = "REFERENCE_ATTENTION=1"      -> TRUE
    [] marker = "MOE_ORDER_API=2"            -> On(p, "moe_order")
    [] marker = "INDEXER_TOPK_API=1"         -> On(p, "topk")
    [] marker = "PREFIX_DEDUP_API=1"         -> On(p, "dedup")
    [] marker = "FA2_ATTENTION_API=1"        -> On(p, "fa2")
    [] marker = "TP_PAD_API=1"               -> Padding(p) > 1
Markers == {"PIPELINE_API=1", "EXPERT_PARALLEL_API=1", "COMPONENT_API=1",
  "FUSED_UNPACK_SUPPORTED=1", "DECODE_GRAPH_API=1", "ASYNC_INDEX_CHECK_API=1",
  "LPA_API=2", "APC_LPA_API=1", "REFERENCE_ATTENTION=1", "MOE_ORDER_API=2",
  "INDEXER_TOPK_API=1", "PREFIX_DEDUP_API=1", "FA2_ATTENTION_API=1", "TP_PAD_API=1"}

Required(p) == {marker \in Markers : Feature(marker, p)}

------------------------------------------------------------------------------
(* What the programs in the image refuse, read from their own sources. *)

PipelineTakes(args) ==
  args.pp = 1 \/ (args.pp = 2 /\ args.tp = 1 /\ args.draft = 0 /\ args.eager /\ ~args.prefix)

(* lpa_configure, called for every ask of a native LPA launch *)
NativeLpaTakes(args, allow_mtp) ==
  /\ args.seqs = 1 /\ args.eager /\ ~args.prefix
  /\ args.draft # 0 => allow_mtp /\ args.draft \in LpaDepths

(* validate_worker and RuntimeSettings, at every admission of an APC-LPA launch *)
ApcTakes(args) ==
  /\ args.eager /\ args.seqs = 1 /\ args.pp = 1 /\ args.tp \in {1, 2} /\ ~args.ep
  /\ args.prefix /\ args.draft \in LpaDepths \cup {0}
SettingsTake(p) == ~On(p, "bad_cut")

ComponentTakes(args) == args.draft = 0 /\ args.seqs = 1 /\ ~args.prefix /\ args.eager

(* The pinned vLLM takes one extension class, rounds decode sizes to a multiple *)
(* of the draft's tokens and the one they extend, and captures no host read.    *)
EngineTakes(args, env) ==
  /\ Cardinality(args.workers) <= 1
  /\ ~args.eager => /\ \E size \in args.captures : size % (args.draft + 1) = 0
                    /\ env.async
  /\ args.images => args.encoder = "data" \/ VisionHeads % args.tp = 0

(* Every rank has an equal share of each shape, and some of the checkpoint in it. *)
SharesHold(args, env) ==
  \A shape \in Shapes(env.pad) : \A r \in 0 .. args.tp - 1 :
    LET share == shape[2] \div args.tp IN
    shape[2] % args.tp = 0 /\ Narrows(shape[1], r * share, share, env.pad)

(* The switch each marker stands for, as the launched process sees it. *)
Uses(args, env) == {marker \in Markers :
  CASE marker = "PIPELINE_API=1"             -> args.pp = 2
    [] marker = "EXPERT_PARALLEL_API=1"      -> args.ep \/ "expert" \in args.workers
    [] marker = "COMPONENT_API=1"            -> "component" \in args.workers
    [] marker = "FUSED_UNPACK_SUPPORTED=1"   -> env.fused
    [] marker = "DECODE_GRAPH_API=1"         -> args.captures # {}
    [] marker = "ASYNC_INDEX_CHECK_API=1"    -> env.async
    [] marker = "LPA_API=2"                  -> "lpa" \in args.workers
    [] marker = "APC_LPA_API=1"              -> env.apc_lpa
    [] marker = "REFERENCE_ATTENTION=1"      -> TRUE
    [] marker = "MOE_ORDER_API=2"            -> env.moe_order
    [] marker = "INDEXER_TOPK_API=1"         -> env.topk
    [] marker = "PREFIX_DEDUP_API=1"         -> env.dedup
    [] marker = "FA2_ATTENTION_API=1"        -> env.fa2
    [] marker = "TP_PAD_API=1"               -> env.pad > 1}

(* What one accepted profile must come to on one rank. *)
Served(p, rank) ==
  LET args == ServeArgs(p, rank) env == Environment(p) IN
  /\ EngineTakes(args, env) /\ PipelineTakes(args) /\ SharesHold(args, env)
  /\ NativeLpa(p) => NativeLpaTakes(args, On(p, "mtp")) /\ env.dev
  /\ env.apc_lpa => ApcTakes(args) /\ SettingsTake(p)
  /\ "component" \in args.workers => ComponentTakes(args) /\ env.dev
  /\ Mounted(p)
  /\ Uses(args, env) \subseteq Required(p)
=============================================================================
