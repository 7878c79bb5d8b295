------------------------------ MODULE MCClients ------------------------------
(***************************************************************************)
(* The three ways a client calls a running head, for TLC: it asks directly,*)
(* under the host's request lock (AskLpa), or through the tool gate        *)
(* (ToolGate), or calls the workers' diagnostics (Probe).  They share no   *)
(* state - the gate takes no lock and sets no mode, a trace changes no     *)
(* answer - so a behaviour takes one of them and leaves the others alone.  *)
(***************************************************************************)
EXTENDS AskLpa

CONSTANTS c1, c2, w0, w1
CONSTANTS Strict, Deltas, Lists, MaxChunks      \* of ToolGate
CONSTANTS TracedRuns, Traces, WeightNames, WeightLayer      \* of Probe

\* Every request but the second of c1 is approximated.
LongOnes == {<<c1, 1>>, <<c2, 1>>, <<c2, 2>>}

\* Probe.
VARIABLES tracer, stage, hooks, bound, lost, trace, begun, reference, verdict, digests

\* ToolGate: a tool with a required string argument, and one without.
VARIABLES way, req, pc, turn, arrived, content, gathered, held, found, told, shown, log

Gate == INSTANCE ToolGate WITH calls <- gathered

Part(i, id, name, args) == [index |-> i, id |-> id, name |-> name, args |-> args]
Opening == {Part(0, 0, <<"strict">>, <<"{">>), Part(1, None, <<"loose">>, <<>>)}
Closing == {Part(0, None, <<>>, <<"given">>), Part(0, None, <<>>, <<"blank">>)}
SomeDeltas ==
    [text : {"none", "content", "reasoning"}, part : {None}]
      \cup [text : {"none"}, part : Opening \cup Closing]
      \cup [text : {"content"}, part : {Part(1, 1, <<"strict">>, <<"{", "given">>)}]

Whole(name, args) == [id |-> None, name |-> <<name>>, args |-> args]
SomeLists ==
    UNION {[1..n -> {Whole("strict", <<"{", "given">>), Whole("strict", <<"{", "blank">>),
                     Whole("strict", <<"given">>), Whole("loose", <<>>)}] : n \in 0..2}

SomeChunks == <<3, 2>>

\* What a chunk or an answer carries of a call: its name and its arguments are pieces.
ASSUME GateAssumption ==
    /\ \A delta \in Deltas :
          /\ delta.text \in Gate!Kinds
          /\ delta.part # None =>
                delta.part.name \in Seq(STRING) /\ delta.part.args \in Seq(STRING)
    /\ \A list \in Lists : \A i \in DOMAIN list :
          list[i].name \in Seq(STRING) /\ list[i].args \in Seq(STRING)

------------------------------------------------------------------------------
(* Two traces of one request each: a prompt that is prefilled in one step or   *)
(* mostly found in the cache, in three layouts of its blocks, sound or wrong   *)
(* from one operation of its prefill on, or of its decode step.                *)
Blocks(slot, stale, reversed) == [slot |-> slot, stale |-> stale, reversed |-> reversed]
SomeBlocks == {Blocks(<<0, 1, 2>>, 50, FALSE), Blocks(<<1, 2, 3>>, 50, TRUE),
               Blocks(<<3, 1, 2>>, 60, FALSE)}
SomeFaults == {<<"none", 1>>, <<"cache", 2>>, <<"attend", 2>>}
                  \cup ({"embed", "indexer", "cache", "attend", "norm"} \X {1})
SomeRuns == {[ids |-> 1, hit |-> h, wrong |-> w[1], at |-> w[2],
              slot |-> b.slot, stale |-> b.stale, reversed |-> b.reversed] :
                w \in SomeFaults, b \in SomeBlocks, h \in BOOLEAN}
SomeLayers == [t \in {"w1", "w2", "w3"} |-> IF t = "w3" THEN "lm_head" ELSE "layers.0"]
Pr == INSTANCE Probe WITH Runs <- TracedRuns, MaxTraces <- Traces, Tensors <- WeightNames,
          LayerOf <- WeightLayer

\* A request has a place of its own for each of its positions, and at most one fault.
ASSUME ProbeAssumption ==
    /\ Traces \in Nat
    /\ \A run \in TracedRuns :
          /\ run.ids \in Nat /\ run.hit \in BOOLEAN /\ run.reversed \in BOOLEAN
          /\ run.wrong \in {"none", "embed", "indexer", "cache", "attend", "norm"}
          /\ run.at \in {1, 2} /\ (run.wrong = "none" => run.at = 1)
          /\ run.slot \in [1..3 -> Nat]
          /\ \A c, d \in 1..3 : run.slot[c] = run.slot[d] => c = d

\* A request outside a trace, or a second one in it, is left out here; a trace of a
\* worker has the inputs or the functions on.
Asked(run) == trace.id # 0 /\ trace.runs = <<>> /\ Pr!Request(run)
Switches(s) == (trace.id # 0 \/ begun < Traces) /\ Pr!Fa2Stage(s)
Attaches(inputs, functions) ==
    (tracer = "probe" => inputs # functions) /\ Pr!Begin(inputs, functions)

------------------------------------------------------------------------------
gateVars == <<req, pc, turn, arrived, content, gathered, held, found, told, shown, log>>

probeVars == <<tracer, stage, hooks, bound, lost, trace, begun, reference, verdict, digests>>

\* A behaviour takes one way, and leaves the others where they began.
MCInit ==
    /\ way \in {"ask", "gate", "probe"}
    /\ Init /\ Gate!Init /\ Pr!Init
    /\ way # "probe" => tracer = "probe"
    /\ way # "gate" => req = [body |-> "ok", chat |-> TRUE, applies |-> TRUE, stream |-> TRUE]

Asking == way = "ask" /\ UNCHANGED <<way, gateVars, probeVars>>
Gating == way = "gate" /\ UNCHANGED <<way, vars, probeVars>>
Probing == way = "probe" /\ UNCHANGED <<way, vars, gateVars>>

MCNext ==
    \/ \E c \in Clients :
          \/ Lock(c) /\ Asking
          \/ Refuse(c) /\ Asking
          \/ Configure(c) /\ Asking
          \/ Generate(c) /\ Asking
          \/ Reset(c) /\ Asking
          \/ ResetAnswer(c) /\ Asking
          \/ Again(c) /\ Asking
          \/ Unlock(c) /\ Asking
          \/ Kill(c) /\ Asking
    \/ ServeConfigure /\ Asking
    \/ ServeReset /\ Asking
    \/ Schedule /\ Asking
    \/ Prefill /\ Asking
    \/ Finish /\ Asking
    \/ \E r \in Requests : Abort(r) /\ Asking
    \/ Gate!Refuse /\ Gating
    \/ Gate!Ask /\ Gating
    \/ Gate!Begin /\ Gating
    \/ Gate!RepairFails /\ Gating
    \/ Gate!JudgeStream /\ Gating
    \/ Gate!Close /\ Gating
    \/ Gate!PassThrough /\ Gating
    \/ Gate!Break /\ Gating
    \/ \E status \in {"200", "error"} : Gate!RelayRaw(status) /\ Gating
    \/ \E chunk \in Gate!StreamChunks : Gate!Receive(chunk) /\ Gating
    \/ \E list \in Lists : Gate!JudgeWhole(list) /\ Gating
    \/ Probing /\ \E run \in TracedRuns : Asked(run)
    \/ Probing /\ \E inputs, functions \in BOOLEAN : Attaches(inputs, functions)
    \/ Probing /\ \E keep \in BOOLEAN : Pr!End(keep)
    \/ Probing /\ Pr!Forget
    \/ Probing /\ \E s \in {"full", "part"} : Switches(s)
    \/ Probing /\ \E weights \in Pr!Weights : Pr!Load(weights)

MCSpec == MCInit /\ [][MCNext]_<<way, vars, gateVars, probeVars>>

-----------------------------------------------------------------------------
\* The gate withholds a turn whose calls break their schema.
Withheld == Gate!Withheld
\* What the gate logs, and tells the client, is what happened.
OutcomeIsTrue == Gate!OutcomeIsTrue
\* A stream that ends shows the turn it ends with whole, and the model the one withheld.
TurnIsWhole == Gate!TurnIsWhole
\* A trace names the call that went wrong and nothing else, and leaves the worker as it
\* was; a digest tells what moved.
TraceNamesCause == way = "probe" => Pr!TraceNamesCause
=============================================================================
