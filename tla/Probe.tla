--------------------------------- MODULE Probe ---------------------------------
(***************************************************************************)
(* What tells two identical requests, or two launches, apart: the traces of*)
(* a serving worker (memory_probe's trace_begin and trace_end, with its    *)
(* fa2_stage) and of the repeat fixture (run_repeat_trace), and the digests*)
(* of loaded weights and of kernels.  The calls come over collective_rpc in*)
(* any order, between the requests the worker serves.                      *)
(*                                                                         *)
(* Abstracted: a request is a prefill and a decode step of one layer, and a*)
(* row of a tensor stands for all its rows.  A tensor is a sequence of     *)
(* numbers that tells what it was computed from, and a fingerprint is the  *)
(* tensor.  `wrong' is the first operation that computes otherwise than    *)
(* before; everything after it differs too.                                *)
(***************************************************************************)
EXTENDS Integers, Sequences, SequencesExt, FiniteSets, FiniteSetsExt

CONSTANTS
    Runs,       \* the requests: what is asked, how it is laid out, what is wrong
    MaxTraces,  \* the traces TLC begins
    Tensors,    \* the names of the weights
    LayerOf     \* the layer of each

VARIABLES
    tracer,     \* fixed: "probe", "repeat" or "digest"
    stage,      \* fa2_stage: "full", or part of the FA2 path and the reference
    hooks,      \* the traces whose forward hooks are registered
    bound,      \* the traces wrapped around sparse_nope_reference, innermost first
    lost,       \* traces begun over before they ended, in order
    trace,      \* probe_trace, or Detached
    begun,      \* how many traces were begun
    reference,  \* the rows kept to compare with, or NoReference
    verdict,    \* the last comparison
    digests     \* the weights of the launches read so far

vars == <<tracer, stage, hooks, bound, lost, trace, begun, reference, verdict, digests>>

Detached == [id |-> 0, inputs |-> FALSE, functions |-> FALSE, saved |-> <<>>, rows |-> <<>>,
             runs |-> <<>>, stages |-> {}]
NoReference == Detached
NoVerdict == [first |-> <<>>, calls |-> <<0, 0>>, old |-> Detached, new |-> Detached]
Init ==
    /\ tracer \in {"probe", "repeat", "digest"} /\ stage = "full"
    /\ hooks = {} /\ bound = <<>> /\ lost = <<>> /\ trace = Detached /\ begun = 0
    /\ reference = NoReference /\ verdict = NoVerdict /\ digests = <<>>

------------------------------------------------------------------------------
(* What a request computes. *)

Operations == <<"embed", "indexer", "cache", "attend", "norm">>
Place(operation) == CHOOSE i \in DOMAIN Operations : Operations[i] = operation
\* By what fault, if any, an operation of step f comes out otherwise than it should.
Changed(run, f, operation) ==
    IF run.wrong # "none"
       /\ (run.at < f \/ (run.at = f /\ Place(run.wrong) <= Place(operation)))
    THEN 10 * run.at + Place(run.wrong) ELSE 0

DecodeMaxRows == 6
\* A prefix hit leaves less to prefill.
Rows(run, f) == IF f = 2 THEN 1 ELSE IF run.hit THEN 2 ELSE DecodeMaxRows + 2
Gathers(run, f) == Rows(run, f) <= DecodeMaxRows        \* gathers_cache_rows
UsesFa2(run, f) == Rows(run, f) > DecodeMaxRows         \* use_fa2, where it is enabled

\* A set of numbers in their order.
Ascending(S) ==
    [i \in 1..Cardinality(S) |-> CHOOSE x \in S : Cardinality({y \in S : y < x}) = i - 1]

\* The indexer's candidates in the order the kernel found them; -1 is padding.
Found(run, f) ==
    LET found == IF Changed(run, f, "indexer") # 0 THEN <<1, 3>> ELSE <<1, 2>>
    IN  (IF run.reversed THEN Reverse(found) ELSE found) \o <<-1>>
\* Sorted before attention (candidate_order), and mapped to where the blocks are.
Physical(run, f) ==
    LET found == Found(run, f)
        sorted == Ascending({c \in Range(found) : c >= 0})
    IN  [i \in DOMAIN found |-> IF i \in DOMAIN sorted THEN run.slot[sorted[i]] ELSE -1]
\* What a slot holds: a position of this request, or what its last owner left.
Holds(run, f, slot) ==
    IF \E c \in DOMAIN run.slot : run.slot[c] = slot
    THEN (CHOOSE c \in DOMAIN run.slot : run.slot[c] = slot) + 100 * Changed(run, f, "cache")
    ELSE run.stale

------------------------------------------------------------------------------
(* What a trace notes of it. *)

Note(name, rows, tensor) == [name |-> name, rows |-> rows, tensor |-> tensor]

\* Integer tensors of two dimensions are compared as sets; here no index comes twice.
IndexPrint(indices) == Ascending(Range(indices))

\* A fault: padding gathers what slot 0 holds.
TouchedAll(run, f) ==
    [i \in DOMAIN Physical(run, f) |->
        Holds(run, f, IF Physical(run, f)[i] < 0 THEN 0 ELSE Physical(run, f)[i])]
Touched(run, f) ==
    [i \in DOMAIN Physical(run, f) |->
        IF Physical(run, f)[i] < 0 THEN 0 ELSE Holds(run, f, Physical(run, f)[i])]

\* traced: what goes in, and what comes out.
Before(run, f) ==
    <<Note("sparse_nope:query", Rows(run, f), <<Changed(run, f, "embed")>>),
      Note("sparse_nope:candidates_per_row", Rows(run, f),
           <<Cardinality({i \in DOMAIN Physical(run, f) : Physical(run, f)[i] >= 0})>>)>>
    \o (IF Gathers(run, f)
        THEN <<Note("sparse_nope:cache_rows", Rows(run, f), Touched(run, f))>> ELSE <<>>)
After(run, f) ==
    <<Note("sparse_nope:output", Rows(run, f),
           <<Changed(run, f, "attend"), IF UsesFa2(run, f) /\ stage = "full" THEN 1 ELSE 0>>)>>
\* A part of the FA2 path answers through the traced function once more.
Attention(run, f) ==
    IF UsesFa2(run, f) /\ stage # "full"
    THEN Before(run, f) \o Before(run, f) \o After(run, f) \o After(run, f)
    ELSE Before(run, f) \o After(run, f)

\* The hook of a module: its inputs, where they are asked for, and its output.
Hook(name, rows, in, out) ==
    (IF trace.inputs \/ name = "embed_tokens" THEN <<Note(name \o ":in", rows, in)>> ELSE <<>>)
    \o <<Note(name, rows, out)>>
Step(run, f) ==
    LET n == Rows(run, f)
        value(operation) == <<Changed(run, f, operation)>>
    IN  Hook("embed_tokens", n, <<run.ids + 100 * Changed(run, f - 1, "norm")>>, value("embed"))
        \o Hook("indexer", n, value("embed"), IndexPrint(Found(run, f)))
        \o (IF trace.functions THEN Attention(run, f) ELSE <<>>)
        \o Hook("self_attn", n, value("embed"), value("attend"))
        \o Hook("norm", n, value("attend"), value("norm"))

\* The repeat fixture keeps what the modules return, and of that the floats.
RepeatStep(run, f) ==
    LET output(name, operation) == Note(name, Rows(run, f), <<Changed(run, f, operation)>>)
    IN  <<output("embed_tokens", "embed"), output("self_attn", "attend"), output("norm", "norm")>>

Request(run) ==
    /\ tracer # "digest"
    /\ trace' = IF trace.id = 0 THEN trace ELSE
        [trace EXCEPT !.runs = Append(@, run), !.stages = @ \cup {stage},
           !.rows = @ \o (IF tracer = "probe" THEN Step(run, 1) \o Step(run, 2)
                          ELSE RepeatStep(run, 1) \o RepeatStep(run, 2))]
    /\ UNCHANGED <<tracer, stage, hooks, bound, lost, begun, reference, verdict, digests>>

------------------------------------------------------------------------------
(* The calls. *)

\* trace_begin does not ask whether a trace is on; repeat_trace_start does.
Begin(inputs, functions) ==
    /\ tracer # "digest" /\ begun < MaxTraces
    /\ tracer = "repeat" => trace.id = 0 /\ ~inputs /\ ~functions
    /\ begun' = begun + 1
    /\ trace' = [Detached EXCEPT !.id = begun + 1, !.inputs = inputs, !.functions = functions,
                                 !.saved = bound]
    /\ hooks' = hooks \cup {begun + 1}
    /\ bound' = IF functions THEN Append(bound, begun + 1) ELSE bound
    /\ lost' = IF trace.id = 0 THEN lost ELSE Append(lost, trace.id)
    /\ UNCHANGED <<tracer, stage, reference, verdict, digests>>

\* trace_differences: entry by entry, as far as both go.
FirstDifference(old, new) ==
    LET shared == {i \in DOMAIN old : i \in DOMAIN new /\ old[i] # new[i]}
    IN  IF shared = {} THEN <<>> ELSE <<new[Min(shared)]>>
\* The repeat fixture compares the calls of a module by their number.
Nth(rows, i) == Cardinality({j \in 1..i : rows[j].name = rows[i].name})
FirstOf(old, new) ==
    LET kept(i) == {j \in DOMAIN old : old[j].name = new[i].name /\ Nth(old, j) = Nth(new, i)}
        moved == {i \in DOMAIN new : \A j \in kept(i) : old[j] # new[i]}
    IN  IF moved = {} THEN <<>> ELSE <<new[Min(moved)]>>

Verdict(old, new) ==
    [first |-> IF tracer = "probe" THEN FirstDifference(old.rows, new.rows)
               ELSE FirstOf(old.rows, new.rows),
     calls |-> <<Len(old.rows), Len(new.rows)>>,
     old |-> [old EXCEPT !.rows = <<>>], new |-> [new EXCEPT !.rows = <<>>]]

\* Detached first; probe_trace's comparison without a reference then raises, and to the
\* repeat fixture every call is new.  That one says at its start whether it keeps or
\* compares, and nobody reads or forgets the reference before its end.
End(keep) ==
    /\ trace.id # 0
    /\ hooks' = hooks \ {trace.id} /\ bound' = trace.saved
    /\ reference' = IF keep THEN trace ELSE reference
    /\ verdict' = IF keep \/ (tracer = "probe" /\ reference = NoReference) THEN verdict
                  ELSE Verdict(reference, trace)
    /\ trace' = Detached
    /\ UNCHANGED <<tracer, stage, lost, begun, digests>>

\* repeat_trace_forget, before the next prompt: between two traces.
Forget ==
    /\ tracer = "repeat" /\ trace.id = 0 /\ reference # NoReference /\ reference' = NoReference
    /\ UNCHANGED <<tracer, stage, hooks, bound, lost, trace, begun, verdict, digests>>

\* fa2_stage starts from the originals, whatever was set before.
Fa2Stage(s) ==
    /\ tracer = "probe" /\ stage # s /\ stage' = s
    /\ UNCHANGED <<tracer, hooks, bound, lost, trace, begun, reference, verdict, digests>>

\* weight_digest of one launch and of another: the print of every weight there is.
Load(weights) ==
    /\ tracer = "digest" /\ Len(digests) < 2 /\ digests' = Append(digests, weights)
    /\ UNCHANGED <<tracer, stage, hooks, bound, lost, trace, begun, reference, verdict>>

\* digest_summary: the digest of a layer is that of its names and prints.
LayerDigest(weights, layer) ==
    {<<name, weights[name]>> : name \in {n \in DOMAIN weights : LayerOf[n] = layer}}
\* digest_differences, and kernel_hash_differences with a hash one rank lacks.
Differing(before, after) ==
    {name \in DOMAIN before \cap DOMAIN after : before[name] # after[name]}
Missing(before, after) == DOMAIN before \ DOMAIN after
HashesDiffer(one, other) ==
    {k \in DOMAIN one \cup DOMAIN other :
        k \notin DOMAIN one \cap DOMAIN other \/ one[k] # other[k]}

Weights == UNION {[there -> {1, 2}] : there \in SUBSET Tensors}
Next ==
    \/ \E run \in Runs : Request(run)
    \/ \E inputs, functions \in BOOLEAN : Begin(inputs, functions)
    \/ \E keep \in BOOLEAN : End(keep)
    \/ Forget
    \/ \E s \in {"full", "part"} : Fa2Stage(s)
    \/ \E weights \in Weights : Load(weights)
Spec == Init /\ [][Next]_vars

------------------------------------------------------------------------------
(* Two traces of one request, taken the same way and with no other request in *)
(* them, differ first in the call that went wrong, or in the next one a trace *)
(* sees; they do not differ where only the placement of the blocks, the order *)
(* the candidates were found in or what padding points at is different.       *)
Seen(operation, f, new) ==
    LET run == new.runs[1] IN
    CASE operation = "embed" -> "embed_tokens"
      [] operation = "indexer" -> IF tracer = "repeat" THEN "self_attn" ELSE "indexer"
      [] operation = "norm" -> "norm"
      [] OTHER -> IF ~new.functions THEN "self_attn"
                  ELSE IF operation = "cache" /\ Gathers(run, f)
                  THEN "sparse_nope:cache_rows" ELSE "sparse_nope:output"
Earlier(one, other) ==
    IF other.wrong = "none" \/ (one.wrong # "none" /\ (one.at < other.at
         \/ (one.at = other.at /\ Place(one.wrong) < Place(other.wrong)))) THEN one ELSE other
Comparable(old, new) ==
    /\ Len(old.runs) = 1 /\ Len(new.runs) = 1
    /\ old.stages = new.stages /\ old.inputs = new.inputs /\ old.functions = new.functions
    /\ old.runs[1].ids = new.runs[1].ids /\ old.runs[1].hit = new.runs[1].hit
FirstIsCause ==
    LET old == verdict.old  new == verdict.new
        blamed == Earlier(old.runs[1], new.runs[1])
    IN  Comparable(old, new) =>
          /\ verdict.calls[1] = verdict.calls[2]
          /\ IF <<old.runs[1].wrong, old.runs[1].at>> = <<new.runs[1].wrong, new.runs[1].at>>
             THEN verdict.first = <<>>
             ELSE /\ verdict.first[1].name = Seen(blamed.wrong, blamed.at, new)
                  /\ verdict.first[1].rows = Rows(new.runs[1], blamed.at)

(* A worker is left as it was found: no hook and no wrapped function stays but*)
(* those of the running trace and of traces that were begun over.             *)
NothingStays ==
    LET on == lost \o (IF trace.id = 0 THEN <<>> ELSE <<trace.id>>)
    IN  /\ hooks = Range(on)
        /\ \A t \in Range(bound) : t \in Range(on)
        /\ tracer = "repeat" => lost = <<>>

(* A layer's digest tells exactly whether a weight of it moved, came or went. *)
DigestTells ==
    Len(digests) = 2 =>
        LET old == digests[1]  new == digests[2]
            moved == Differing(old, new) \cup Missing(old, new) \cup Missing(new, old)
        IN  /\ \A name \in Tensors :
                 LayerDigest(old, LayerOf[name]) # LayerDigest(new, LayerOf[name])
                   <=> \E m \in moved : LayerOf[m] = LayerOf[name]
            /\ HashesDiffer(old, new) = moved
TraceNamesCause == FirstIsCause /\ NothingStays /\ DigestTells
================================================================================
