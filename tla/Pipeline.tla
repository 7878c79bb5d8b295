------------------------------ MODULE Pipeline ------------------------------
(***************************************************************************)
(* The GLM model as one stage of a launch runs it (overlays/mla-quant-     *)
(* split.py with runtime/pipeline_state.py): which parameters a stage has, *)
(* how checkpoint tensors that arrive in any order fill them, and how the  *)
(* layers' deferred mHC state crosses from one stage to the next.          *)
(*                                                                         *)
(* A tensor's numbers are left out.  The hidden state is the sequence of   *)
(* what has been applied to it; "residual", "post" and "comb" are known by *)
(* the hidden state they were computed from, and mixing those of different *)
(* origin gives Astray.  Sequence parallelism is off in every launch.      *)
(***************************************************************************)
EXTENDS Naturals, Sequences, FiniteSets

CONSTANTS Mla,       \* the layers 0 .. n - 1, TRUE for MLA and FALSE for KDA
          Experts,   \* the routed experts of a layer, 0 .. e - 1
          Steps      \* how many batches are run

(* There is a layer at least, and an even number of experts. *)

VARIABLES layout,    \* the launch: stages, the split, expert ranks, the checkpoint's format
          stage,     \* the stage and expert rank whose loading is followed
          todo,      \* the checkpoint tensors still to come
          pending,   \* _pending_wk_fp8: halves that wait for each other
          params,    \* what each shard of a parameter was loaded from
          loading,   \* "on", "raised" or "done"
          sent,      \* how many batches the first stage has begun
          flight,    \* per stage: the batch in it
          wire,      \* what the first stage sent, in order
          buffers,   \* the second stage's intermediate buffers
          results    \* what the last stage has returned

vars == <<layout, stage, todo, pending, params, loading, sent, flight, wire, buffers, results>>

Layers == 0 .. Len(Mla) - 1
IsMla(l) == Mla[l + 1]
Last == Len(Mla) - 1

(* make_layers: the layers of a stage, split by the profile's partition. *)
LayersOf(s) == IF layout.stages = 1 THEN Layers
               ELSE IF s = 0 THEN 0 .. layout.split - 1 ELSE layout.split .. Last

IsLast(s) == s = layout.stages - 1

------------------------------------------------------------------------------
(* Parameters and tensors. *)

(* MoE.__init__: each expert rank has a run of the physical experts. *)
LocalExperts(rank) ==
  LET share == Cardinality(Experts) \div layout.ep IN
  {e \in Experts : e \in rank * share .. (rank + 1) * share - 1}

(* DecoderLayer.__init__: what a layer has, by kind; layer 0 has a dense MLP. *)
Dense(l) == l = 0
Projections(l) ==
  (IF IsMla(l) THEN {"q_a", "kv_a", "o", "wk", "weights"} ELSE {"b", "f_a", "g_a", "o"})
  \cup (IF Dense(l) THEN {"gate", "up"} ELSE {})

(* stacked_params_mapping: the fused parameter a projection is a shard of. *)
Stacked(proj) ==
  CASE proj = "gate" -> <<"gate_up", 0>>   [] proj = "up" -> <<"gate_up", 1>>
    [] proj = "q_a" -> <<"fused_qkv_a", 0>> [] proj = "kv_a" -> <<"fused_qkv_a", 1>>
    [] proj = "wk" -> <<"wk_weights", 0>>  [] proj = "weights" -> <<"wk_weights", 1>>
    [] proj = "b" -> <<"bfg_a", 0>> [] proj = "f_a" -> <<"bfg_a", 1>>
    [] proj = "g_a" -> <<"bfg_a", 2>>
    [] OTHER -> <<proj, 0>>

(* An FP8 checkpoint has these in two halves, and the model keeps them whole. *)
Halved(proj) == layout.fp8 /\ proj \in {"q_a", "kv_a", "o", "wk"}
Parts(proj) == IF Halved(proj) THEN {"weight", "scale"} ELSE {"whole"}

Tensors(l) ==
  {[layer |-> l, proj |-> pp[1], expert |-> 0, part |-> pp[2]] :
     pp \in UNION {{proj} \X Parts(proj) : proj \in Projections(l)}}
  \cup IF Dense(l) THEN {}
       ELSE {[layer |-> l, proj |-> "expert", expert |-> e, part |-> "whole"] : e \in Experts}
Drafter == {[layer |-> Last + 1, proj |-> "q_b", expert |-> 0, part |-> "whole"]}
Checkpoint == Drafter \cup UNION {Tensors(l) : l \in Layers}

Shard(tensor) == <<tensor.layer, Stacked(tensor.proj), tensor.expert>>

(* named_parameters: those of the stage's layers and its local experts. *)
Mine(tensor) == /\ tensor.layer \in LayersOf(stage.s)
                /\ tensor.proj = "expert" => tensor.expert \in LocalExperts(stage.rank)
Shards == {Shard(tensor) : tensor \in {t \in Checkpoint : Mine(t)}}

(* What a shard is to hold: the tensor, dequantized from its own halves, and *)
(* for kv_a the zero rows the model's shape has beyond the checkpoint's.      *)
Value(tensor, parts) ==
  [layer |-> tensor.layer, proj |-> tensor.proj, expert |-> tensor.expert,
   parts |-> parts, padded |-> tensor.proj = "kv_a"]
Unloaded == [layer |-> Last + 2, proj |-> "none", expert |-> 0, parts |-> {}, padded |-> FALSE]

------------------------------------------------------------------------------
Init ==
  /\ layout \in [stages : {1, 2}, split : 1 .. Last, ep : {1, 2}, fp8 : BOOLEAN]
  /\ layout.stages = 2 => layout.ep = 1 /\ ~layout.fp8
  /\ layout.stages = 1 => layout.split = 1
  /\ stage \in [s : 0 .. layout.stages - 1, rank : 0 .. layout.ep - 1]
  /\ todo = Checkpoint /\ pending = [key \in {} |-> {}]
  /\ params = [shard \in Shards |-> Unloaded] /\ loading = "on"
  /\ sent = 0 /\ flight = [s \in {0, 1} |-> <<>>] /\ wire = <<>>
  /\ buffers = [hidden_states |-> <<>>, residual |-> <<>>, post |-> <<>>, comb |-> <<>>]
  /\ results = <<>>

forward == <<sent, flight, wire, buffers, results>>

(* Tensors come in the order of the checkpoint's files.  Whole tensors fill    *)
(* shards of their own and nothing else, so one order of those, ahead of the   *)
(* halves, stands for all; the halves come in every order.                     *)
Plain == {tensor \in todo : tensor.part = "whole"}
Take(tensor) ==
  /\ loading = "on" /\ tensor \in todo /\ todo' = todo \ {tensor}
  /\ Plain # {} => tensor = CHOOSE t \in Plain : TRUE
Missing(shard) == shard \notin DOMAIN params
Put(shard, value) == params' = [params EXCEPT ![shard] = value]

(* get_spec_layer_idx_from_weight_name: the drafter's layers are skipped. *)
SkipSpec(tensor) ==
  /\ Take(tensor) /\ tensor.layer > Last
  /\ UNCHANGED <<layout, stage, pending, params, loading, forward>>

(* The plain path: stacked, one of this rank's experts, or direct.  What the  *)
(* stage has no parameter for, being another's, is skipped.                   *)
LoadWhole(tensor) ==
  /\ Take(tensor) /\ tensor.layer \in Layers /\ tensor.part = "whole"
  /\ IF Missing(Shard(tensor)) THEN UNCHANGED params
     ELSE Put(Shard(tensor), Value(tensor, {"whole"}))
  /\ UNCHANGED <<layout, stage, pending, loading, forward>>

(* A fault: the attention's entries are named by the layer alone. *)
KeyByLayer(tensor) ==
  IF tensor.proj = "wk" THEN <<tensor.layer, "indexer">> ELSE <<tensor.layer, "attention">>

(* One buffer for both FP8 loaders: the indexer's entries are named by the    *)
(* layer's indexer, the attention's by the layer and the projection.          *)
Key(tensor) ==
  IF tensor.proj = "wk" THEN <<tensor.layer, "indexer">> ELSE <<tensor.layer, tensor.proj>>

(* _dequant_fp8_block: each half must be of the same projection. *)
Dequantized(tensor, entry) ==
  [Value(tensor, {half.part : half \in entry}) EXCEPT
     !.proj = IF \A half \in entry : half.proj = @ THEN @ ELSE "mixed"]

(* The second half to arrive completes the entry: both are dequantized into  *)
(* the parameter, which is looked up by name and not skipped if another       *)
(* stage's: an FP8 checkpoint cannot be split into stages.                    *)
LoadHalf(tensor) ==
  /\ Take(tensor) /\ tensor.layer \in Layers /\ tensor.part # "whole"
  /\ LET key == Key(tensor)
         entry == (IF key \in DOMAIN pending THEN pending[key] ELSE {}) \cup {tensor}
         shard == Shard(tensor)
         parts == {half.part : half \in entry}
     IN  IF parts # {"weight", "scale"}
         THEN /\ pending' = [k \in DOMAIN pending \cup {key} |->
                               IF k = key THEN entry ELSE pending[k]]
              /\ UNCHANGED <<params, loading>>
         ELSE /\ pending' = [k \in DOMAIN pending \ {key} |-> pending[k]]
              /\ IF Missing(shard) THEN loading' = "raised" /\ UNCHANGED params
                 ELSE Put(shard, Dequantized(tensor, entry)) /\ UNCHANGED loading
  /\ UNCHANGED <<layout, stage, forward>>

(* The iterator ends; what still waits in pending is dropped without a word. *)
EndLoad ==
  /\ loading = "on" /\ todo = {} /\ loading' = "done"
  /\ UNCHANGED <<layout, stage, todo, pending, params, forward>>

------------------------------------------------------------------------------
(* One layer's forward.  A batch in a stage is [n, layer, x, residual, post,  *)
(* comb]: its number, the next layer, and the state handed on.                *)

Absent == <<<<"absent", 0>>>>
Astray == <<<<"astray", 0>>>>
Do(x, what, l) == IF x = Astray THEN Astray ELSE Append(x, <<what, l>>)

(* hc_pre: x becomes the residual and gives the layer's input, post and comb. *)
Pre(b, l, x, which) ==
  [b EXCEPT !.x = Do(x, which, l), !.residual = x, !.post = x, !.comb = x]

(* hc_post mixes a layer's output with the streams it was computed from. *)
Post(b) ==
  IF /\ b.residual = b.post /\ b.post = b.comb
     /\ Len(b.x) = Len(b.residual) + 2 /\ SubSeq(b.x, 1, Len(b.residual)) = b.residual
  THEN b.x ELSE Astray
FusedPostPre(b, l, which) == Pre(b, l, Post(b), which)

Begun(b, l) ==
  IF b.post # Absent THEN FusedPostPre(b, l, "attn_pre")
  ELSE Pre(b, l, IF l = 0 THEN Do(b.x, "expand", l) ELSE b.x, "attn_pre")

Layer(b, l) ==
  LET attended == [Begun(b, l) EXCEPT !.x = Do(@, "attn", l)]
      fed == FusedPostPre(attended, l, "ffn_pre")
      done == [fed EXCEPT !.x = Do(@, "mlp", l)]
  IN  IF l # Last THEN [done EXCEPT !.layer = l + 1]
      ELSE [done EXCEPT !.layer = l + 1, !.x = Do(Post(done), "contract", l),
                        !.residual = Absent, !.post = Absent, !.comb = Absent]

(* What a batch is to come to, whatever the stages. *)
Reference(n) ==
  LET upTo[k \in 0 .. Len(Mla)] ==
        IF k = 0 THEN <<<<"embed", n>>, <<"expand", 0>>>>
        ELSE upTo[k - 1] \o [i \in 1 .. 4 |->
               <<<<"attn_pre", "attn", "ffn_pre", "mlp">>[i], k - 1>>]
  IN  upTo[Len(Mla)] \o <<<<"contract", Last>>, <<"norm", n>>>>

------------------------------------------------------------------------------
loads == <<layout, stage, todo, pending, params, loading>>

(* The first stage embeds; there is nothing deferred yet. *)
Embed ==
  /\ loading = "done" /\ flight[0] = <<>> /\ sent < Steps /\ Len(wire) < 1
  /\ sent' = sent + 1
  /\ flight' = [flight EXCEPT ![0] = <<[n |-> sent', layer |-> 0, x |-> <<<<"embed", sent'>>>>,
                   residual |-> Absent, post |-> Absent, comb |-> Absent]>>]
  /\ UNCHANGED <<loads, wire, buffers, results>>

RunLayer(s) ==
  /\ flight[s] # <<>> /\ LET b == flight[s][1] IN
       /\ b.layer \in LayersOf(s)
       /\ flight' = [flight EXCEPT ![s] = <<Layer(b, b.layer)>>]
  /\ UNCHANGED <<loads, sent, wire, buffers, results>>

Ran(s) == flight[s] # <<>> /\ flight[s][1].layer \notin LayersOf(s)

(* IntermediateTensors: what a stage that is not the last returns. *)
Carried(b) ==
  [hidden_states |-> b.x, residual |-> b.residual, post |-> b.post, comb |-> b.comb]

SendOn(s) ==
  /\ Ran(s) /\ ~IsLast(s)
  /\ wire' = Append(wire, [n |-> flight[s][1].n, tensors |-> Carried(flight[s][1])])
  /\ flight' = [flight EXCEPT ![s] = <<>>]
  /\ UNCHANGED <<loads, sent, buffers, results>>

(* The tensors received are copied into the stage's own buffers, by name, and *)
(* the model reads all four of those.                                         *)
Receive ==
  /\ wire # <<>> /\ flight[1] = <<>>
  /\ LET tensors == wire[1].tensors IN
     /\ buffers' = [name \in DOMAIN buffers |->
                      IF name \in DOMAIN tensors THEN tensors[name] ELSE buffers[name]]
     /\ flight' = [flight EXCEPT ![1] =
          <<[n |-> wire[1].n, layer |-> layout.split, x |-> buffers'.hidden_states,
             residual |-> buffers'.residual, post |-> buffers'.post, comb |-> buffers'.comb]>>]
  /\ wire' = Tail(wire)
  /\ UNCHANGED <<loads, sent, results>>

Return(s) ==
  /\ Ran(s) /\ IsLast(s)
  /\ results' = Append(results, Do(flight[s][1].x, "norm", flight[s][1].n))
  /\ flight' = [flight EXCEPT ![s] = <<>>]
  /\ UNCHANGED <<loads, sent, wire, buffers>>

Next ==
  \/ \E tensor \in todo :
       SkipSpec(tensor) \/ LoadWhole(tensor) \/ LoadHalf(tensor)
  \/ EndLoad \/ Embed \/ Receive
  \/ \E s \in {0, 1} : RunLayer(s) \/ SendOn(s) \/ Return(s)
Spec == Init /\ [][Next]_vars

------------------------------------------------------------------------------
(* A load that ends has filled every shard the stage has from the tensor of   *)
(* that name - whole, or dequantized from its own two halves - whatever order *)
(* the tensors came in, and has left none waiting for its other half.         *)
LoadedIsWhole == loading = "done" =>
  /\ DOMAIN pending = {}
  /\ \A tensor \in Checkpoint : Mine(tensor) =>
       params[Shard(tensor)] = Value(tensor, Parts(tensor.proj))

(* The stages together compute what one stage computes: the deferred post of  *)
(* one stage's last layer is applied by the next stage's first, batch by      *)
(* batch, and the streams are expanded and contracted once.                   *)
StagesAgree == \A i \in DOMAIN results : results[i] = Reference(i)
=============================================================================
