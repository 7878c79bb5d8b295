----------------------------- MODULE Selection ------------------------------
(***************************************************************************)
(* What the image does so that one input gives one result where the        *)
(* pinned kernels leave a choice: which candidates the indexer takes when  *)
(* pools tie (runtime/stable_topk.py), in which order they are attended to *)
(* (runtime/candidate_order.py), which cache rows a call then reads        *)
(* (runtime/fa2_attention.py and reference_attention.py), and in which     *)
(* order an expert gets its tokens (runtime/moe_token_order.py).           *)
(*                                                                         *)
(* The kernels are external: any choice their contract allows.  A logit is *)
(* a small number; every switch of these functions is on, as by default.   *)
(***************************************************************************)
EXTENDS Integers, Sequences, FiniteSets

CONSTANTS Width,    \* columns of the logits buffer
          K,        \* how many candidates a row takes
          Values,   \* the logits
          Tokens,   \* routed tokens, 0 .. n - 1
          Experts,  \* how many experts
          Block     \* slots of an expert's block

VARIABLES call,     \* the top-k call: its form, rows, logits and their ranges
          output,   \* its candidates, relative to each row's start
          order,    \* the candidates in the order that is attended to
          pages,    \* the page table handed to the attention
          routed,   \* each token's expert
          slots     \* sorted_ids: the tokens in the order the experts get them

vars == <<call, output, order, pages, routed, slots>>

Cols == 0 .. Width - 1
Queries == {1, 2}
Padding == -1

(* A set in the order of its keys: an element comes after those of a lower key. *)
Sorted(S, key) ==
  [i \in 1 .. Cardinality(S) |->
     CHOOSE x \in S : Cardinality({y \in S : key[y] < key[x]}) = i - 1]
Ascending(S) == Sorted(S, [x \in S |-> x])

------------------------------------------------------------------------------
(* The columns a row chooses among.  Those beyond hold whatever was there. *)
Reach(q) == {c \in Cols : call.low[q] <= c /\ c < call.high[q]}
Logit(q, c) == call.logits[q][c]

(* torch.sort, stable and descending, cut at k and padded. *)
Padded(s) == [i \in 1 .. K |-> IF i <= Len(s) THEN s[i] ELSE Padding]
StableTopK(q) ==
  LET best == Sorted(Reach(q), [c \in Reach(q) |-> c - Width * Logit(q, c)])
      relative == [i \in DOMAIN best |-> best[i] - call.low[q]]
  IN  Padded(relative)

(* A selection top_k_per_row_prefill may return: k columns, or all there are, *)
(* none left out that is larger than one taken, in no order in particular.    *)
KernelMayTake(q, chosen) ==
  LET taken == {chosen[i] + call.low[q] : i \in {i \in 1 .. K : chosen[i] # Padding}}
      most == IF Cardinality(Reach(q)) < K THEN Cardinality(Reach(q)) ELSE K
  IN  /\ taken \subseteq Reach(q) /\ Cardinality(taken) = most
      /\ \A i \in 1 .. K : (chosen[i] # Padding) <=> i <= most
      /\ \A c \in taken, d \in Reach(q) \ taken : Logit(q, d) <= Logit(q, c)

(* repair_boundary_ties: more columns reach the k-th value than the kernel took. *)
Taken(q) == {output[q][i] + call.low[q] : i \in {i \in 1 .. K : output[q][i] # Padding}}

(* A fault: only the columns above the k-th value are counted. *)
AboveOnly(q) == {c \in Reach(q) : \A t \in Taken(q) : Logit(q, c) > Logit(q, t)}

Reaching(q) == {c \in Reach(q) : \E t \in Taken(q) : Logit(q, c) >= Logit(q, t)}
Tied(q) == Cardinality(Reaching(q)) > K

------------------------------------------------------------------------------
Calls ==
  {c \in [form : {"prefill", "decode"}, logits : [Queries -> [Cols -> Values]],
          low : [Queries -> 0 .. Width], high : [Queries -> 0 .. Width]] :
     /\ \A q \in Queries : c.low[q] <= c.high[q]
     /\ c.form = "decode" => \A q \in Queries : c.low[q] = 0}

Nothing == <<>>
InitTopK == call \in Calls /\ output = Nothing /\ order = Nothing /\ pages = Nothing
InitIdle == call = Nothing /\ output = Nothing /\ order = Nothing /\ pages = Nothing
Init ==
  \/ InitTopK /\ routed = Nothing /\ slots = Nothing
  \/ InitIdle /\ routed \in [0 .. Tokens - 1 -> 1 .. Experts] /\ slots = Nothing

(* decode_topk: the stable sort stands in for the kernel. *)
DecodeTopK ==
  /\ call # Nothing /\ call.form = "decode" /\ output = Nothing
  /\ output' = [q \in Queries |-> StableTopK(q)]
  /\ UNCHANGED <<call, order, pages, routed, slots>>

(* prefill_topk: the kernel, and then the tied rows once more. *)
PrefillKernel ==
  /\ call # Nothing /\ call.form = "prefill" /\ output = Nothing
  /\ \E first, second \in [1 .. K -> {Padding} \cup Cols] :
       /\ KernelMayTake(1, first) /\ KernelMayTake(2, second)
       /\ output' = <<first, second, "kernel">>
  /\ UNCHANGED <<call, order, pages, routed, slots>>
RepairTies ==
  /\ Len(output) = 3
  /\ output' = [q \in Queries |-> IF Tied(q) THEN StableTopK(q) ELSE output[q]]
  /\ UNCHANGED <<call, order, pages, routed, slots>>

(* canonical_logical_candidates: ascending, the padding last. *)
Canonical(candidates) ==
  LET taken == {i \in 1 .. K : candidates[i] # Padding}
      sorted == Sorted(taken, [i \in taken |-> candidates[i]])
  IN  Padded([i \in DOMAIN sorted |-> candidates[sorted[i]]])
CanonicalOrder ==
  /\ Len(output) = 2 /\ order = Nothing
  /\ order' = [q \in Queries |-> Canonical(output[q])]
  /\ UNCHANGED <<call, output, pages, routed, slots>>

(* The block table, vLLM's: both queries are of one request here. *)
Physical(q, candidate) ==
  IF candidate = Padding THEN Padding ELSE Width - (candidate + call.low[q])

(* compact_candidates and indptr: the distinct cache rows, each candidate's   *)
(* place among them in row-major order without the padding, and where each    *)
(* query's begin.  Padding stands for cache row 0, which rides along unused.  *)
Compact ==
  LET physical == [q \in Queries |-> [i \in 1 .. K |-> Physical(q, order[q][i])]]
      clamped == UNION {{IF physical[q][i] < 0 THEN 0 ELSE physical[q][i] : i \in 1 .. K} :
                          q \in Queries}
      rows == Ascending(clamped)
      inverse(r) == CHOOSE i \in DOMAIN rows : rows[i] = r
      valid(q) == LET at == Ascending({i \in 1 .. K : physical[q][i] # Padding})
                  IN  [n \in DOMAIN at |-> physical[q][at[n]]]
      all == valid(1) \o valid(2)
  IN  [rows |-> rows, kv |-> [i \in DOMAIN all |-> inverse(all[i])],
       indptr |-> <<0, Len(valid(1)), Len(all)>>]
CompactCandidates ==
  /\ order # Nothing /\ pages = Nothing /\ pages' = Compact
  /\ UNCHANGED <<call, output, order, routed, slots>>

(* What a query attends to: the rows its range of the page table names. *)
Attended(q) ==
  LET named == SubSeq(pages.kv, pages.indptr[q] + 1, pages.indptr[q + 1])
  IN  [i \in DOMAIN named |-> pages.rows[named[i]]]

------------------------------------------------------------------------------
(* moe_align_block_size: experts in ascending order, each one's tokens in any  *)
(* order, its last block padded with the number of tokens; beyond what is     *)
(* written the buffer, as long as the worst case, holds anything.             *)
Blocks(e) == (Cardinality({t \in DOMAIN routed : routed[t] = e}) + Block - 1) \div Block
End(e) ==
  Block * Cardinality({b \in (1 .. e) \X (1 .. Tokens) : b[2] <= Blocks(b[1])})
Written == End(Experts)
Buffer == Tokens + Experts * (Block - 1)
Owner(s) == CHOOSE e \in 1 .. Experts : End(e - 1) < s /\ s <= End(e)
Left == 0

AlignMayGive(given) ==
  /\ \A s \in 1 .. Buffer : s > Written => given[s] = Left
  /\ \A t \in DOMAIN routed : \E s \in 1 .. Written : given[s] = t /\ Owner(s) = routed[t]
  /\ \A s, u \in 1 .. Written : s # u /\ given[s] = given[u] => given[s] = Tokens
Align ==
  /\ routed # Nothing /\ slots = Nothing
  /\ \E given \in [1 .. Buffer -> 0 .. Tokens] : AlignMayGive(given) /\ slots' = <<given>>
  /\ UNCHANGED <<call, output, order, pages, routed>>

(* canonical_expert_order: by expert and token, the unwritten where they were. *)
Key(s, given) == IF s <= Written THEN Owner(s) * (Buffer + 1) + given[s]
                 ELSE (Experts + 1) * (Buffer + 1)
CanonicalExperts ==
  /\ Len(slots) = 1
  /\ LET given == slots[1]
         sorted == Sorted(1 .. Buffer,
                          [s \in 1 .. Buffer |-> (Buffer + 1) * Key(s, given) + s])
     IN  slots' = <<given, [i \in DOMAIN sorted |-> given[sorted[i]]]>>
  /\ UNCHANGED <<call, output, order, pages, routed>>

Next == \/ DecodeTopK \/ PrefillKernel \/ RepairTies \/ CanonicalOrder \/ CompactCandidates
        \/ Align \/ CanonicalExperts
Spec == Init /\ [][Next]_vars

------------------------------------------------------------------------------
(* One input gives one result, whatever the kernels did: a row's candidates   *)
(* are its k largest pools, a tie going to the lower index; the attention     *)
(* reads exactly their cache rows, in ascending order of the pools; and each  *)
(* expert's blocks hold its own tokens in ascending order, padding last.      *)
OneInputOneResult ==
  /\ pages # Nothing => \A q \in Queries :
       LET Beats(d, c) == Logit(q, d) > Logit(q, c) \/ (Logit(q, d) = Logit(q, c) /\ d < c)
           best == {c \in Reach(q) : Cardinality({d \in Reach(q) : Beats(d, c)}) < K}
       IN  Attended(q) = [i \in 1 .. Cardinality(best) |->
                            Width - CHOOSE c \in best :
                                      Cardinality({d \in best : d < c}) = i - 1]
  /\ Len(slots) = 2 => LET given == slots[2] IN
       /\ \A s \in 1 .. Written : given[s] # Tokens => routed[given[s]] = Owner(s)
       /\ \A t \in DOMAIN routed : \E s \in 1 .. Written : given[s] = t
       /\ \A s \in 1 .. Written - 1 : Owner(s) = Owner(s + 1) => given[s] <= given[s + 1]
=============================================================================
