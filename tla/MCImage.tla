------------------------------- MODULE MCImage --------------------------------
(***************************************************************************)
(* What the image computes, for TLC.  A behaviour has one subject: a       *)
(* request's kpool ring (KpoolRing), a model that is loaded and run in     *)
(* stages (Pipeline), one linear-attention layer (Kda), or one call of the *)
(* kernels that leave a choice (Selection).  They share no state.          *)
(***************************************************************************)
EXTENDS KpoolRing, Integers, Sequences

CONSTANTS Mla, RoutedExperts, Batches,
          Speculated, ConvSize, PromptLength, MaxLength, Served, Ranks, Rank,
          LogitColumns, Candidates, LogitValues, RoutedTokens, ExpertCount, BlockSize
ASSUME PipelineAssumption == Mla \in Seq(BOOLEAN) /\ Mla # <<>>
ASSUME KdaAssumption == /\ Speculated \in Nat /\ ConvSize \in Nat \ {0}
                        /\ PromptLength \in Nat /\ PromptLength >= 2
ASSUME SelectionAssumption == /\ LogitColumns \in Nat /\ Candidates \in Nat
                              /\ LogitValues \subseteq Int /\ RoutedTokens \in Nat
                              /\ ExpertCount \in Nat /\ BlockSize \in Nat \ {0}

VARIABLES subject, layout, stage, todo, pending, params, loading, sent, flight, wire,
          buffers, results,
          weights, merged, drafting, life, done, accepted, conv, recurrent, batch, ran, outs,
          core,
          call, output, order, pages, routed, slots

(* Three layers, the middle one with MLA: either stage of two may begin or end *)
(* with either kind.                                                           *)
MlaBetween == <<FALSE, TRUE, FALSE>>
Pl == INSTANCE Pipeline WITH Experts <- RoutedExperts, Steps <- Batches

(* Two requests share the steps, and a third comes after one of them. *)
Ka == INSTANCE Kda WITH
        Requests <- {1, 2}, Drafts <- Speculated, Width <- ConvSize, Prompt <- PromptLength,
        Lives <- Served, Tp <- Ranks, Rank <- Rank, Context <- MaxLength

(* Two of three columns with equal logits among them, three tokens for two experts. *)
Se == INSTANCE Selection WITH
        Width <- LogitColumns, K <- Candidates, Values <- LogitValues,
        Tokens <- RoutedTokens, Experts <- ExpertCount, Block <- BlockSize

pipelineVars == <<layout, stage, todo, pending, params, loading, sent, flight, wire, buffers,
                  results>>
kdaVars == <<weights, merged, drafting, life, done, accepted, conv, recurrent, batch, ran, outs,
             core>>
selectionVars == <<call, output, order, pages, routed, slots>>

Only(it) == /\ subject = it /\ UNCHANGED subject
            /\ it # "ring" => UNCHANGED vars
            /\ it # "pipeline" => UNCHANGED pipelineVars
            /\ it # "kda" => UNCHANGED kdaVars
            /\ it # "selection" => UNCHANGED selectionVars

------------------------------------------------------------------------------
(* A stage's parameters are whole when its load ends, in whatever order the   *)
(* halves of a quantised tensor came, and two stages compute what one         *)
(* computes, batch by batch (Pipeline).                                       *)
StagesAreWhole == subject = "pipeline" => Pl!LoadedIsWhole /\ Pl!StagesAgree

(* A token's linear attention is of its own request's text, whatever was      *)
(* rejected before it, shared its step or used its columns (Kda).             *)
RowsAreTheirOwn == subject = "kda" => Ka!RowsAreTheirOwn

(* Whatever the kernels choose among equals, one input gives one selection,   *)
(* one order of it, and each expert its own tokens in one order (Selection).  *)
OneInputOneResult == subject = "selection" => Se!OneInputOneResult

------------------------------------------------------------------------------
MCInit ==
  /\ subject \in {"ring", "pipeline", "kda", "selection"} /\ Init
  /\ IF subject = "pipeline" THEN Pl!Init
     ELSE /\ layout = <<>> /\ stage = <<>> /\ todo = {} /\ pending = <<>> /\ params = <<>>
          /\ loading = "none" /\ sent = 0 /\ flight = <<>> /\ wire = <<>> /\ buffers = <<>>
          /\ results = <<>>
  /\ IF subject = "kda" THEN Ka!Init
     ELSE /\ weights = <<>> /\ merged = <<>> /\ drafting = FALSE /\ life = <<>> /\ done = <<>>
          /\ accepted = <<>> /\ conv = <<>> /\ recurrent = <<>> /\ batch = <<>> /\ ran = 0
          /\ outs = <<>> /\ core = <<>>
  /\ IF subject = "selection" THEN Se!Init
     ELSE /\ call = <<>> /\ output = <<>> /\ order = <<>> /\ pages = <<>> /\ routed = <<>>
          /\ slots = <<>>

MCNext ==
  \/ \E q \in 0 .. committed : Only("ring") /\ Restore(q)
  \/ \E n \in 1 .. Context : Only("ring") /\ Prefill(n)
  \/ \E n \in 1 .. (1 + Depth) : \E kept \in 1 .. n : Only("ring") /\ Verify(n, kept)
  \/ Only("ring") /\ Stash
  \/ \E tensor \in todo :
       \/ Only("pipeline") /\ Pl!SkipSpec(tensor)
       \/ Only("pipeline") /\ Pl!LoadWhole(tensor)
       \/ Only("pipeline") /\ Pl!LoadHalf(tensor)
  \/ Only("pipeline") /\ Pl!EndLoad
  \/ Only("pipeline") /\ Pl!Embed
  \/ Only("pipeline") /\ Pl!Receive
  \/ \E s \in {0, 1} :
       \/ Only("pipeline") /\ Pl!RunLayer(s)
       \/ Only("pipeline") /\ Pl!SendOn(s)
       \/ Only("pipeline") /\ Pl!Return(s)
  \/ \E name \in {"b", "f_a", "g_a"} : Only("kda") /\ Ka!LoadShard(name)
  \/ Only("kda") /\ Ka!LoadOthers
  \/ Only("kda") /\ Ka!RunRow
  \/ Only("kda") /\ Ka!Return
  \/ \E r \in {1, 2} :
       \/ Only("kda") /\ Ka!Begin(r)
       \/ Only("kda") /\ Ka!ForwardOne(r)
       \/ Only("kda") /\ Ka!ForwardTwo(r, 3 - r)
  \/ Only("selection") /\ Se!DecodeTopK
  \/ Only("selection") /\ Se!PrefillKernel
  \/ Only("selection") /\ Se!RepairTies
  \/ Only("selection") /\ Se!CanonicalOrder
  \/ Only("selection") /\ Se!CompactCandidates
  \/ Only("selection") /\ Se!Align
  \/ Only("selection") /\ Se!CanonicalExperts

MCSpec == MCInit /\ [][MCNext]_<<vars, subject, pipelineVars, kdaVars, selectionVars>>
=============================================================================
