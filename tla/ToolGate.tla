------------------------------ MODULE ToolGate ------------------------------
(***************************************************************************)
(* The tool gate (glm53_setup/tool_gate): one request through the loopback *)
(* proxy in front of the model API.  A chat completion that lets the model *)
(* call a declared tool is checked: a turn whose calls break their schema  *)
(* is withheld, answered with a tool reply per call, and the model is      *)
(* asked once more.  The model API is the environment: it answers each     *)
(* request with a status and a turn, streamed in chunks or whole.          *)
(*                                                                         *)
(* Abstracted: a text is the place it was sent at, the arguments of a call *)
(* are pieces that parse to the value of one required string, and a reply  *)
(* to a call is "invalid" or "not run".  Any exception (a refused or lost  *)
(* connection, a timeout, a malformed answer, a client that left) ends the *)
(* handler, as Break.  The stream of an upstream that drops without [DONE] *)
(* looks like one that ended.                                              *)
(***************************************************************************)
EXTENDS Naturals, Sequences, SequencesExt

CONSTANTS
    Strict,     \* the declared tools with a required string argument
    Deltas,     \* what a streamed chunk may carry: a text, a part of a call
    Lists,      \* the lists of calls of a turn answered whole
    MaxChunks,  \* MaxChunks[t]: the most chunks of turn t (1 or 2), when streamed
    None        \* no value: neither a tool nor an id

VARIABLES
    req,      \* the client's request
    pc,       \* where the handler is
    turn,     \* how many requests it has sent upstream
    arrived,  \* ghost: arrived[t], the chunks (or the one answer) of turn t
    content,  \* the text gathered from the turn being read
    calls,    \* its calls: a function of their indices
    held,     \* its finish and usage chunks
    found,    \* the first turn's violating calls
    told,     \* what the second request adds to the conversation
    shown,    \* what the client has been sent, in order
    log       \* the log's lines

gathered == <<content, calls, held>>
vars == <<req, pc, turn, arrived, gathered, found, told, shown, log>>

Requests == [body : {"ok", "bad length", "too large"}, chat : BOOLEAN,
             applies : BOOLEAN, stream : BOOLEAN]
Kinds == {"none", "content", "reasoning"}
StreamChunks == [choices : {TRUE}, delta : Deltas, finish : BOOLEAN]
            \cup {[choices |-> FALSE, delta |-> [text |-> "none", part |-> None],
                    finish |-> FALSE]}
NoCalls == [i \in {} |-> None]

-----------------------------------------------------------------------------
(* check.py: which calls break their schema.                               *)

\* json.loads of the gathered arguments, seen through the required argument.
Argument(args) ==
    CASE args = <<>> -> "null"
      [] Len(args) = 2 /\ args[1] = "{" /\ args[2] # "{" -> args[2]
      [] OTHER -> "not an object"

\* A fault: an empty argument is taken for one that is there.
Unparsed(call) ==
    /\ Len(call.name) = 1 /\ call.name[1] \in Strict
    /\ Argument(call.args) \in {"not an object", "null"}

Violates(call) ==
    /\ Len(call.name) = 1 /\ call.name[1] \in Strict
    /\ Argument(call.args) # "given"

Violations(cs) == {i \in DOMAIN cs : Violates(cs[i])}

-----------------------------------------------------------------------------
(* proxy._relay: gather the parts of the calls.                            *)

\* The slot of a call after one more part of it.
Grown(slot, part) ==
    [id   |-> IF part.id # None THEN part.id ELSE slot.id,
     name |-> slot.name \o part.name,
     args |-> slot.args \o part.args]

\* A fault: a later part of a call replaces what was gathered.
Replace(cs, part) ==
    [i \in DOMAIN cs \cup {part.index} |->
        IF i = part.index THEN [id |-> part.id, name |-> part.name, args |-> part.args]
        ELSE cs[i]]

Gather(cs, part) ==
    [i \in DOMAIN cs \cup {part.index} |->
        IF i # part.index THEN cs[i]
        ELSE Grown(IF i \in DOMAIN cs THEN cs[i]
                   ELSE [id |-> None, name |-> <<>>, args |-> <<>>], part)]

\* What the client is sent of a chunk: all but the parts of calls.
Relayed(t, n, chunk) ==
    [kind |-> "chunk", turn |-> t, place |-> n, text |-> chunk.delta.text,
     finish |-> chunk.finish]

-----------------------------------------------------------------------------
Init ==
    /\ req \in Requests
    /\ pc = "receive" /\ turn = 0
    /\ arrived = <<>> /\ content = <<>> /\ calls = NoCalls /\ held = <<>>
    /\ found = {} /\ told = <<>> /\ shown = <<>> /\ log = <<>>

Show(item) == shown' = Append(shown, item)
Answer(status) == [kind |-> "answer", turn |-> turn, status |-> status]
Record(outcome) == log' = Append(log, [outcome |-> outcome, found |-> found'])
Checked == req.chat /\ req.applies

\* do_POST, _body: a body it cannot read is refused before anything is asked.
Refuse ==
    /\ pc = "receive" /\ req.body # "ok"
    /\ Show(Answer(req.body)) /\ pc' = "done"
    /\ UNCHANGED <<req, turn, arrived, gathered, found, told, log>>

\* _upstream: the request goes out, the first time or as the repair.
Ask ==
    /\ \/ pc = "receive" /\ req.body = "ok"
       \/ pc = "repair"
    /\ turn' = turn + 1
    /\ arrived' = Append(arrived, <<>>)
    /\ content' = <<>> /\ calls' = NoCalls /\ held' = <<>>
    /\ pc' = IF ~Checked THEN "raw" ELSE IF req.stream THEN "head" ELSE "whole"
    /\ UNCHANGED <<req, found, told, shown, log>>

\* _relay_raw: an unchecked request's answer, and a stream that does not begin.
RelayRaw(status) ==
    /\ \/ pc = "raw"
       \/ pc = "head" /\ turn = 1 /\ status # "200"
    /\ Show(Answer(status)) /\ pc' = "done"
    /\ UNCHANGED <<req, turn, arrived, gathered, found, told, log>>

-----------------------------------------------------------------------------
(* A streamed turn.                                                        *)

\* The status line of a stream: the client's own answer starts with the first.
Begin ==
    /\ pc = "head" /\ pc' = "read"
    /\ shown' = IF turn = 1 THEN Append(shown, Answer("200")) ELSE shown
    /\ UNCHANGED <<req, turn, arrived, gathered, found, told, log>>

\* The repair is refused: the client gets the error inside its stream.
RepairFails ==
    /\ pc = "head" /\ turn = 2
    /\ Show([kind |-> "error", turn |-> 2])
    /\ found' = found /\ Record("error")
    /\ pc' = "error"
    /\ UNCHANGED <<req, turn, arrived, gathered, told>>

\* One event of the stream.  The finish and usage chunks wait for the calls.
Receive(chunk) ==
    LET n == Len(arrived[turn]) + 1
        item == Relayed(turn, n, chunk)
    IN  /\ pc = "read" /\ n <= MaxChunks[turn]
        /\ \A i \in 1..(n - 1) : arrived[turn][i].finish => ~chunk.choices
        /\ arrived' = [arrived EXCEPT ![turn] = Append(@, chunk)]
        /\ calls' = IF chunk.delta.part = None THEN calls ELSE Gather(calls, chunk.delta.part)
        /\ content' = IF chunk.delta.text = "content" THEN Append(content, n) ELSE content
        /\ IF chunk.finish \/ ~chunk.choices
           THEN held' = Append(held, item) /\ UNCHANGED shown
           ELSE /\ shown' = IF chunk.delta.text # "none" \/ chunk.delta.part = None
                            THEN Append(shown, item) ELSE shown
                /\ UNCHANGED held
        /\ UNCHANGED <<req, pc, turn, found, told, log>>

-----------------------------------------------------------------------------
(* The verdict, and the repair.                                            *)

\* Faults: a repair that tells of the violating calls only; one tried until it passes.
TellBad(cs, bad) == [content |-> content, calls |-> bad,
                 replies |-> [i \in bad |-> "invalid"]]

\* retry_request: the turn, and a reply to each of its calls; calls are told apart by id.
Tell(cs, bad) ==
    [content |-> content, calls |-> DOMAIN cs,
     replies |-> [i \in DOMAIN cs |->
        IF \E j \in bad : cs[j].id = cs[i].id THEN "invalid" ELSE "not run"]]

RepairAgain(bad) == bad # {}
MayRepair(bad) == turn = 1 /\ bad # {}

Outcome(bad) ==
    IF turn = 1 THEN "passed" ELSE IF bad = {} THEN "repaired" ELSE "unrepaired"

\* The end of a streamed turn, [DONE] or not.
JudgeStream ==
    LET bad == Violations(calls) IN
    /\ pc = "read"
    /\ IF MayRepair(bad)
       THEN /\ found' = bad /\ told' = Append(told, Tell(calls, bad))
            /\ pc' = "repair" /\ UNCHANGED <<shown, log>>
       ELSE /\ shown' = shown
                \o (IF DOMAIN calls = {} THEN <<>>
                    ELSE <<[kind |-> "calls", turn |-> turn, calls |-> calls]>>)
                \o held
            /\ found' = found /\ Record(Outcome(bad))
            /\ pc' = Outcome(bad) /\ told' = told
    /\ UNCHANGED <<req, turn, arrived, gathered>>

\* The last line of a stream carries the outcome.
Close ==
    /\ pc \in {"passed", "repaired", "unrepaired", "error"}
    /\ Show([kind |-> "comment", turn |-> turn, outcome |-> pc]) /\ pc' = "done"
    /\ UNCHANGED <<req, turn, arrived, gathered, found, told, log>>

\* gate: a whole turn, judged as it arrives.
JudgeWhole(list) ==
    LET bad == Violations(list) IN
    /\ pc = "whole"
    /\ calls' = list /\ arrived' = [arrived EXCEPT ![turn] = <<list>>]
    /\ IF MayRepair(bad)
       THEN /\ found' = bad /\ told' = Append(told, Tell(list, bad))
            /\ pc' = "repair" /\ UNCHANGED <<shown, log>>
       ELSE /\ found' = found /\ Record(Outcome(bad)) /\ told' = told
            /\ Show([kind |-> "calls", turn |-> turn, calls |-> list,
                     outcome |-> Outcome(bad)])
            /\ pc' = "done"
    /\ UNCHANGED <<req, turn, content, held>>

\* Passthrough: an upstream refusal is the client's answer; after a withheld turn it is
\* recorded.
PassThrough ==
    /\ pc = "whole"
    /\ Show(Answer("error")) /\ pc' = "done"
    /\ found' = found /\ IF turn = 2 THEN Record("error") ELSE log' = log
    /\ UNCHANGED <<req, turn, arrived, gathered, told>>

\* Any exception: finish() closes the connections, upstream's too.
Break ==
    /\ pc \notin {"done", "broken"} /\ pc' = "broken"
    /\ UNCHANGED <<req, turn, arrived, gathered, found, told, shown, log>>

Next ==
    \/ Refuse \/ Ask \/ Begin \/ RepairFails \/ JudgeStream \/ Close \/ PassThrough \/ Break
    \/ \E status \in {"200", "error"} : RelayRaw(status)
    \/ \E chunk \in StreamChunks : Receive(chunk)
    \/ \E list \in Lists : JudgeWhole(list)

Spec == Init /\ [][Next]_vars

-----------------------------------------------------------------------------
(* What the turns really held, read off the chunks that arrived.           *)

Indices(t) ==
    {arrived[t][n].delta.part.index : n \in
        {n \in DOMAIN arrived[t] : arrived[t][n].delta.part # None}}
\* The pieces of a field of call i in turn t, joined.
Joined(t, i, field) ==
    FlattenSeq([n \in DOMAIN arrived[t] |->
        LET part == arrived[t][n].delta.part
        IN  IF part # None /\ part.index = i THEN part[field] ELSE <<>>])
\* The name and the arguments of each call of turn t.
CallsOf(t) ==
    IF req.stream THEN [i \in Indices(t) |-> <<Joined(t, i, "name"), Joined(t, i, "args")>>]
    ELSE IF arrived[t] = <<>> THEN NoCalls
    ELSE [i \in DOMAIN arrived[t][1] |->
            <<arrived[t][1][i].name, arrived[t][1][i].args>>]
\* The calls of turn t that break the schema of a tool with a required string.
Broken(t) ==
    {i \in DOMAIN CallsOf(t) :
        /\ CallsOf(t)[i][1] \in {<<s>> : s \in Strict}
        /\ CallsOf(t)[i][2] # <<"{", "given">>}

\* The texts a client gets of a turn, in the order they arrived; a turn that was withheld
\* keeps those of its finish chunk.
TextsOf(t, withheld) ==
    FlattenSeq([n \in DOMAIN arrived[t] |->
        LET chunk == arrived[t][n]
        IN  IF chunk.delta.text = "none" \/ (withheld /\ chunk.finish) THEN <<>>
            ELSE <<<<n, chunk.delta.text>>>>])
TextsShown(t) ==
    FlattenSeq([n \in DOMAIN shown |->
        LET item == shown[n]
        IN  IF item.kind = "chunk" /\ item.turn = t /\ item.text # "none"
            THEN <<<<item.place, item.text>>>> ELSE <<>>])

Is(kind) == {n \in DOMAIN shown : shown[n].kind = kind}
CallsShown(n) == [i \in DOMAIN shown[n].calls |->
                    <<shown[n].calls[i].name, shown[n].calls[i].args>>]

\* The gate withholds a turn whose calls break their schema, however its calls were cut
\* into chunks: the client never sees them, nor that turn's finish_reason, unless it is
\* the answer to the repair; and no turn has two lists of calls or two finish chunks.
Withheld ==
    /\ \A n \in Is("calls") : /\ shown[n].turn = turn
                              /\ turn = 1 => Broken(1) = {}
                              /\ \A k \in Is("calls") : k = n
    /\ \A n, k \in Is("chunk") :
          shown[n].finish /\ shown[k].finish => n = k /\ shown[n].turn = turn

\* What is logged, and what the client is told, is what happened: at most one record,
\* after at most one repair, with the first turn's violations and an outcome that agrees
\* with the turns as they arrived; and a checked answer that ended has its record.
OutcomeIsTrue ==
    /\ turn <= 2 /\ Len(log) <= 1
    /\ turn = 2 => Broken(1) # {}
    /\ \A l \in DOMAIN log :
          /\ Checked /\ log[l].found = Broken(1)
          /\ log[l].outcome = "passed" <=> turn = 1
          /\ log[l].outcome \in {"repaired", "unrepaired"} =>
                (Broken(2) = {} <=> log[l].outcome = "repaired")
    /\ \A n \in Is("comment") : log = <<[outcome |-> shown[n].outcome, found |-> found]>>
    /\ \A n \in Is("calls") : ~req.stream => log[1].outcome = shown[n].outcome

\* A stream that ends shows every text of the turn it ends with and every call whole,
\* before the finish chunk, and of a withheld turn the texts before its finish chunk; and
\* the model is told of the withheld turn with one reply to each of its calls.
TurnIsWhole ==
    /\ \A n \in Is("comment") : shown[n].outcome # "error" =>
          /\ TextsShown(turn) = TextsOf(turn, FALSE)
          /\ turn = 2 => TextsShown(1) = TextsOf(1, TRUE)
          /\ DOMAIN CallsOf(turn) = {} <=> Is("calls") = {}
          /\ \A k \in Is("chunk") : shown[k].finish => \A c \in Is("calls") : c < k
    /\ \A n \in Is("calls") : CallsShown(n) = CallsOf(turn)
    /\ \A k \in DOMAIN told :
          /\ told[k].calls = DOMAIN CallsOf(1) /\ DOMAIN told[k].replies = told[k].calls
          /\ \A i \in Broken(1) : told[k].replies[i] = "invalid"
=============================================================================
