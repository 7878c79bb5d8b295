-------------------------------- MODULE Kda ---------------------------------
(***************************************************************************)
(* One linear-attention layer on one tensor-parallel rank                  *)
(* (overlays/kda-quant-split.py): how its parameters are loaded, and its   *)
(* forward over batches that mix prompt chunks, single tokens and drafts   *)
(* to verify.                                                              *)
(*                                                                         *)
(* A request owns the state of 1 + Drafts columns: the short convolution   *)
(* keeps its window in the first, the recurrence leaves its state after    *)
(* the j-th token of a step in column j, and the next step starts from the *)
(* column of the last token accepted.  Which rows a step has, which drafts *)
(* are accepted and who owns which columns is vLLM's affair; released      *)
(* columns go to the next request as they are.  The numbers are left out:  *)
(* what has been computed from a text in order is known by the text's last *)
(* token, and anything else is Astray.                                     *)
(***************************************************************************)
EXTENDS Naturals, Sequences, FiniteSets

CONSTANTS Requests,  \* requests that run at a time
          Drafts,    \* num_spec
          Width,     \* conv_size: the convolution's kernel
          Prompt,    \* the prompt's length, two at least
          Context,   \* how long a request gets
          Lives,     \* how many requests there are
          Tp, Rank   \* tensor-parallel size, and this rank

VARIABLES weights,   \* which slice of each parameter was loaded
          merged,    \* _merged_conv_weight
          drafting,  \* whether vLLM speculates in this launch
          life,      \* the request that owns a row's columns
          done,      \* its tokens computed and accepted
          accepted,  \* num_accepted_tokens of its last step
          conv,      \* conv_state of its first column
          recurrent, \* recurrent_state of its columns
          batch,     \* the rows of the forward that runs, or ran last
          ran,       \* how many of them the kernels have done
          outs,      \* core_attn_out_spec and core_attn_out_non_spec
          core       \* core_attn_out

vars == <<weights, merged, drafting, life, done, accepted, conv, recurrent, batch, ran, outs,
          core>>
launch == <<weights, merged, drafting>>
state == <<conv, recurrent>>

------------------------------------------------------------------------------
(* Parameters. *)

Columns == {"q_proj", "k_proj", "v_proj", "b", "f_b_proj", "dt_bias", "q_conv1d", "k_conv1d",
            "v_conv1d", "A_log", "g_b_proj"}
Replicated == {"f_a", "g_a"}
Rows == {"o_proj"}
Merged == {"b"} \cup Replicated
Names == Columns \cup Replicated \cup Rows

(* The layer's rows of a parameter: a slice of Tp, or for a replicated shard, *)
(* whose size was multiplied by Tp, the slice at 0 of what is there once.      *)
Slice(name) == IF name \in Replicated THEN <<0, 1>> ELSE <<Rank, Tp>>
Unloaded == <<0, 0>>

Load(names) ==
  /\ \A name \in names : weights[name] = Unloaded
  /\ weights' = [name \in Names |-> IF name \in names THEN Slice(name) ELSE weights[name]]
  /\ UNCHANGED <<merged, drafting, life, done, accepted, state, batch, ran, outs, core>>

(* The shards of in_proj_bfg_a come in any order, each with tp_rank put back *)
(* before the next.                                                           *)
LoadShard(name) == name \in Merged /\ Load({name})
LoadOthers == Load(Names \ Merged)
Loaded == \A name \in Names : weights[name] # Unloaded

------------------------------------------------------------------------------
(* A step's rows and tokens. *)

(* A token of a request's text, or a draft in its place that will be rejected. *)
Zero == [life |-> 0, at |-> 0, wrong |-> FALSE]
Astray == [life |-> 0, at |-> 0, wrong |-> TRUE]
Follows(token, before) ==
  IF before = Zero THEN token.at <= 1 /\ token # Astray
  ELSE /\ token.life = before.life /\ token.at = before.at + 1
       /\ before.wrong => token.wrong

(* A row: n tokens after the first `base`, of which `kept` will be accepted. *)
Row(r, n, kept, drafted) ==
  [r |-> r, base |-> done[r], n |-> n, kept |-> kept, drafted |-> drafted]
Token(row, j) == [life |-> life[row.r], at |-> row.base + j, wrong |-> j > row.kept]

(* The rows vLLM may schedule for a request: a chunk of its prompt, of which   *)
(* the first has more than one token; then one token, or drafts to verify.    *)
RowsOf(r) ==
  IF done[r] < Prompt
  THEN {Row(r, n, n, FALSE) : n \in (IF done[r] = 0 THEN 2 ELSE 1) .. Prompt - done[r]}
  ELSE IF drafting THEN UNION {{Row(r, n, kept, TRUE) : kept \in 1 .. n} :
                                 n \in {m \in 2 .. 1 + Drafts : done[r] + m <= Context}}
  ELSE {row \in {Row(r, 1, 1, FALSE)} : row.base < Context}

(* The step's tokens in its order, and whether each is of the drafted group:  *)
(* spec_token_indx and non_spec_token_indx are the positions of either.       *)
Step == LET Of(row) == [j \in 1 .. row.n |-> [token |-> Token(row, j), drafted |-> row.drafted]]
        IN  IF Len(batch) = 1 THEN Of(batch[1]) ELSE Of(batch[1]) \o Of(batch[2])

(* A token's place in its group, and the p of the group's k-th. *)
Place(p) == LET step == Step
            IN  Cardinality({q \in 1 .. p : step[q].drafted = step[p].drafted})
Indexed(drafted, k) ==
  LET step == Step
  IN  CHOOSE p \in DOMAIN step : step[p].drafted = drafted /\ Place(p) = k

(* The kernels take the drafted rows first. *)
InOrder(rows) ==
  IF Len(rows) = 2 /\ ~rows[1].drafted /\ rows[2].drafted THEN <<rows[2], rows[1]>> ELSE rows
Idle == batch = <<>> \/ core # <<>>

------------------------------------------------------------------------------
(* The kernels. *)

(* The column a row starts from, num_accepted_tokens being of the drafted only. *)
From(row) == IF row.drafted THEN accepted[row.r] ELSE 1

(* With a chunk among its rows a group takes the prefill path, where a row    *)
(* that has computed nothing starts from zero; the others from their state.   *)
Fresh(row) == /\ row.base = 0
              /\ \E i \in DOMAIN batch : ~batch[i].drafted /\ batch[i].n > 1

(* causal_conv1d_update and causal_conv1d_fn: the Width - 1 tokens before the *)
(* row, from the window's place of the last token accepted.                   *)
History(row) == IF Fresh(row) THEN [i \in 1 .. Width - 1 |-> Zero]
                ELSE SubSeq(conv[row.r], From(row), From(row) + Width - 2)
Convolved(all, j) ==
  IF \A k \in j .. j + Width - 2 : Follows(all[k + 1], all[k]) THEN all[j + Width - 1]
  ELSE Astray
Window(row, all) == SubSeq(all, IF row.drafted THEN 2 ELSE Len(all) - Width + 2, Len(all))

(* A fault: what a step accepted is not looked at. *)
InitialFirst(row) == IF Fresh(row) THEN Zero ELSE recurrent[row.r][1]

(* fused_recurrent_kda, and chunk_kda between gather_initial_states and       *)
(* scatter_states: the states after each of a row's tokens, and the columns   *)
(* that are written.                                                          *)
Initial(row) == IF Fresh(row) THEN Zero ELSE recurrent[row.r][From(row)]
Attended(row, all) ==
  LET upTo[j \in 0 .. row.n] ==
        IF j = 0 THEN <<Initial(row)>>
        ELSE LET before == upTo[j - 1]
                 token == Convolved(all, j)
             IN  Append(before, IF Follows(token, before[j]) THEN token ELSE Astray)
  IN  Tail(upTo[row.n])
Written(row, attended) ==
  [c \in 1 .. 1 + Drafts |->
     IF row.drafted /\ c <= row.n THEN attended[c]
     ELSE IF ~row.drafted /\ c = 1 THEN attended[row.n]
     ELSE recurrent[row.r][c]]

------------------------------------------------------------------------------
Init ==
  /\ weights = [name \in Names |-> Unloaded] /\ merged = <<>> /\ drafting \in BOOLEAN
  /\ life = [r \in Requests |-> 0] /\ done = [r \in Requests |-> 0]
  /\ accepted = [r \in Requests |-> 1]
  /\ conv = [r \in Requests |-> [i \in 1 .. Width - 1 |-> Zero]]
  /\ recurrent = [r \in Requests |-> [c \in 1 .. 1 + Drafts |-> Zero]]
  /\ batch = <<>> /\ ran = 0 /\ outs = [drafted \in BOOLEAN |-> <<>>] /\ core = <<>>

(* A request begins on columns another has left, or its own after preemption. *)
Begin(r) ==
  /\ Loaded /\ Idle /\ \A other \in Requests : life[other] < Lives
  /\ life[r] = 0 \/ done[r] >= Prompt
  /\ life' = [life EXCEPT ![r] = 1 + CHOOSE n \in {life[other] : other \in Requests} :
                                       \A other \in Requests : life[other] <= n]
  /\ done' = [done EXCEPT ![r] = 0] /\ accepted' = [accepted EXCEPT ![r] = 1]
  /\ batch' = <<>> /\ ran' = 0 /\ core' = <<>>
  /\ UNCHANGED <<launch, state, outs>>

(* A profiling run has no metadata for the layer and returns without a trace. *)
(* The first forward that gets further concatenates the weights.              *)
MergedWeight == <<weights["q_conv1d"], weights["k_conv1d"], weights["v_conv1d"]>>

Begun(rows) ==
  /\ Loaded /\ Idle /\ \A i \in DOMAIN rows : life[rows[i].r] > 0
  /\ merged' = IF merged = <<>> THEN MergedWeight ELSE merged
  /\ batch' = rows /\ ran' = 0 /\ core' = <<>>
  /\ UNCHANGED <<weights, drafting, life, done, accepted, state, outs>>
ForwardOne(r) == \E row \in RowsOf(r) : Begun(<<row>>)
ForwardTwo(r, other) ==
  r # other /\ \E row \in RowsOf(r), row2 \in RowsOf(other) : Begun(<<row, row2>>)

(* One row's convolution and recurrence.  index_select has put the group's    *)
(* tokens together, and query_start_loc says where in them the row begins.    *)
RunRow ==
  /\ ran < Len(batch)
  /\ LET row == InOrder(batch)[ran + 1]
         start == Len(outs[row.drafted])
         all == History(row) \o [j \in 1 .. row.n |-> Step[Indexed(row.drafted, start + j)].token]
         attended == Attended(row, all)
     IN  /\ conv' = [conv EXCEPT ![row.r] = Window(row, all)]
         /\ recurrent' = [recurrent EXCEPT ![row.r] = Written(row, attended)]
         /\ outs' = [outs EXCEPT ![row.drafted] = @ \o attended]
  /\ ran' = ran + 1
  /\ UNCHANGED <<launch, life, done, accepted, batch, core>>

(* The groups' outputs, back in the order of the step's tokens. *)
Merge == LET step == Step
         IN  [p \in DOMAIN step |-> outs[step[p].drafted][Place(p)]]

(* The forward returns, and the sampler tells what was accepted. *)
Return ==
  /\ ~Idle /\ ran = Len(batch)
  /\ core' = Merge /\ outs' = [drafted \in BOOLEAN |-> <<>>]
  /\ LET RowOf(r) == {i \in DOMAIN batch : batch[i].r = r}
         Kept(r) == LET row == batch[CHOOSE i \in RowOf(r) : TRUE] IN row.kept
     IN  /\ done' = [r \in Requests |-> IF RowOf(r) = {} THEN done[r] ELSE done[r] + Kept(r)]
         /\ accepted' = [r \in Requests |->
                           IF \E i \in RowOf(r) : batch[i].drafted THEN Kept(r) ELSE accepted[r]]
  /\ UNCHANGED <<launch, life, state, batch, ran>>

Next ==
  \/ \E name \in Merged : LoadShard(name)
  \/ LoadOthers \/ RunRow \/ Return
  \/ \E r \in Requests : Begin(r) \/ ForwardOne(r)
  \/ \E r, other \in Requests : ForwardTwo(r, other)
Spec == Init /\ [][Next]_vars

------------------------------------------------------------------------------
(* Every token of a step gets the output of its own request's text up to it - *)
(* what was accepted, and the drafts before it in the step - whatever was     *)
(* rejected before, shared the step, or used the columns earlier; and it is   *)
(* computed with this rank's slices.                                          *)
RowsAreTheirOwn == core # <<>> =>
  /\ \A p \in DOMAIN core : core[p] = Step[p].token
  /\ merged = <<Slice("q_conv1d"), Slice("k_conv1d"), Slice("v_conv1d")>>
=============================================================================
