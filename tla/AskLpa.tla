-------------------------------- MODULE AskLpa --------------------------------
(***************************************************************************)
(* Direct requests to a head with native LPA: `server ask', and the checks *)
(* that send a series of requests (recorded_on_head), under the host's     *)
(* request lock.  Each request configures every worker for its own prompt, *)
(* generates, and sets the workers back to native.                         *)
(*                                                                         *)
(* A request is its client and its number.  The API server is external: it *)
(* hands configure calls to the workers in the order it was sent them, and *)
(* may hold a generation back, or go on with one its client gave up.       *)
(***************************************************************************)
EXTENDS Naturals, Sequences

CONSTANTS
    Clients,    \* processes of one host
    Asks,       \* the most requests a client sends under one lock
    Long,       \* the requests long enough to be approximated
    Workers,    \* the tensor-parallel ranks
    Chunks,     \* prefill steps of a prompt
    None

ASSUME AskAssumption ==
    /\ Asks \in Nat \ {0} /\ Chunks \in Nat
    /\ Long \subseteq Clients \X (1..Asks)
    /\ None \notin Clients \cup Clients \X (1..Asks)

VARIABLES
    lock,       \* who holds startup-request.lock
    phase,      \* per client, where it is
    number,     \* per client, the request it is at
    outcome,    \* per client, how that request ended
    answered,   \* per client, whether the call it waits for was answered
    calls,      \* the configure calls the server has yet to hand on, in order
    gens,       \* generations the server has yet to schedule
    running,    \* the generation being computed
    spec,       \* per worker, the request it approximates for, or None
    tainted     \* requests answered with what another's mode computed

client == <<lock, phase, number, outcome>>
engine == <<calls, gens, running, spec, tainted>>
vars == <<client, answered, engine>>

Requests == Clients \X (1..Asks)
Phases == {"idle", "ask", "configure", "generate", "reset", "asked", "done", "killed"}
Trying == {"configure", "generate"}
Outcomes == {"none", "locked", "refused", "returned", "raised", "reset-failed"}
Call == [request: Requests, reset: BOOLEAN]
Generation == [request: Requests, left: 0..Chunks, own: BOOLEAN]

TypeOK ==
    /\ lock \in Clients \cup {None}
    /\ phase \in [Clients -> Phases] /\ number \in [Clients -> 1..Asks]
    /\ outcome \in [Clients -> Outcomes] /\ answered \in [Clients -> BOOLEAN]
    /\ calls \in Seq(Call) /\ gens \subseteq Requests
    /\ running \in Generation \cup {None}
    /\ spec \in [Workers -> Requests \cup {None}] /\ tainted \subseteq Requests

Init ==
    /\ lock = None
    /\ phase = [c \in Clients |-> "idle"] /\ number = [c \in Clients |-> 1]
    /\ outcome = [c \in Clients |-> "none"]
    /\ answered = [c \in Clients |-> FALSE]
    /\ calls = <<>> /\ gens = {} /\ running = None
    /\ spec = [w \in Workers |-> None] /\ tainted = {}

Current(c) == <<c, number[c]>>
Goto(c, p) == phase' = [phase EXCEPT ![c] = p]
Ends(c, how) == Goto(c, "asked") /\ outcome' = [outcome EXCEPT ![c] = how]

\* lpa_request: the mode a request runs in.
Mode(r) == IF r \in Long THEN r ELSE None

-----------------------------------------------------------------------------
(* The clients.                                                            *)

\* A fault: no lock.
LockShared(c) ==
    /\ phase[c] = "idle"
    /\ lock' = c /\ Goto(c, "ask")
    /\ UNCHANGED <<number, outcome, answered, engine>>

\* The lock is tried once, not waited for.
Lock(c) ==
    /\ phase[c] = "idle"
    /\ IF lock = None
       THEN lock' = c /\ Goto(c, "ask") /\ UNCHANGED outcome
       ELSE Goto(c, "done") /\ outcome' = [outcome EXCEPT ![c] = "locked"]
            /\ UNCHANGED lock
    /\ UNCHANGED <<number, answered, engine>>

\* The body, its fields, /tokenize and the length: refused before the try.
Refuse(c) ==
    /\ phase[c] = "ask"
    /\ Ends(c, "refused")
    /\ UNCHANGED <<lock, number, answered, engine>>

\* A call is sent, or the connection fails first.
Post(c, reset) ==
    calls' \in {calls, Append(calls, [request |-> Current(c), reset |-> reset])}

Configure(c) ==
    /\ phase[c] = "ask"
    /\ Goto(c, "configure") /\ Post(c, FALSE)
    /\ answered' = [answered EXCEPT ![c] = FALSE]
    /\ UNCHANGED <<lock, number, outcome, gens, running, spec, tainted>>

Generate(c) ==
    /\ phase[c] = "configure" /\ answered[c]
    /\ Goto(c, "generate")
    /\ gens' \in {gens, gens \cup {Current(c)}}
    /\ answered' = [answered EXCEPT ![c] = FALSE]
    /\ UNCHANGED <<lock, number, outcome, calls, running, spec, tainted>>

\* The `finally' clause, after an answer whose token count is the one expected,
\* or after any error: a refusal, a timeout, a lost connection, Ctrl+C.
Reset(c) ==
    /\ phase[c] \in Trying
    /\ \/ /\ phase[c] = "generate" /\ answered[c]
          /\ outcome' = [outcome EXCEPT ![c] = "returned"]
       \/ outcome' = [outcome EXCEPT ![c] = "raised"]
    /\ Goto(c, "reset") /\ Post(c, TRUE)
    /\ answered' = [answered EXCEPT ![c] = FALSE]
    /\ UNCHANGED <<lock, number, gens, running, spec, tainted>>

\* The reset is answered, or its own error is raised.
ResetAnswer(c) ==
    /\ phase[c] = "reset"
    /\ \/ answered[c] /\ Ends(c, outcome[c])
       \/ Ends(c, "reset-failed")
    /\ UNCHANGED <<lock, number, answered, engine>>

\* A check goes on with its next request; the warmup does so after an error too.
Again(c) ==
    /\ phase[c] = "asked" /\ number[c] < Asks
    /\ number' = [number EXCEPT ![c] = @ + 1]
    /\ Goto(c, "ask") /\ outcome' = [outcome EXCEPT ![c] = "none"]
    /\ UNCHANGED <<lock, answered, engine>>

Unlock(c) ==
    /\ phase[c] = "asked"
    /\ lock' = None /\ Goto(c, "done")
    /\ UNCHANGED <<number, outcome, answered, engine>>

\* SIGKILL: the system drops the lock.
Kill(c) ==
    /\ lock = c
    /\ lock' = None /\ Goto(c, "killed")
    /\ UNCHANGED <<number, outcome, answered, engine>>

-----------------------------------------------------------------------------
(* The server and its workers.                                             *)

\* Whether the client of request r still waits in phase p for its answer.
Waits(r, p) == phase[r[1]] = p /\ number[r[1]] = r[2]
Answer(r, p) == answered' = [answered EXCEPT ![r[1]] = @ \/ Waits(r, p)]

\* A worker may refuse: a projector it cannot read, say.  Then the call fails.
ServeConfigure ==
    /\ calls # <<>> /\ ~Head(calls).reset
    /\ LET r == Head(calls).request
       IN \E willing \in SUBSET Workers :
            /\ spec' = [w \in Workers |-> IF w \in willing THEN Mode(r) ELSE spec[w]]
            /\ IF willing = Workers THEN Answer(r, "configure") ELSE UNCHANGED answered
    /\ calls' = Tail(calls)
    /\ UNCHANGED <<client, gens, running, tainted>>

\* Nothing fails here that was accepted when the mode was set.
ServeReset ==
    /\ calls # <<>> /\ Head(calls).reset
    /\ spec' = [w \in Workers |-> None]
    /\ Answer(Head(calls).request, "reset")
    /\ calls' = Tail(calls)
    /\ UNCHANGED <<client, gens, running, tainted>>

\* max_num_seqs is 1.
Schedule ==
    /\ running = None
    /\ \E r \in gens :
          /\ running' = [request |-> r, left |-> Chunks, own |-> TRUE]
          /\ gens' = gens \ {r}
    /\ UNCHANGED <<client, answered, calls, spec, tainted>>

\* The layers of a step read the specification their worker then has.
Prefill ==
    /\ running # None /\ running.left > 0
    /\ running' = [running EXCEPT
          !.left = @ - 1,
          !.own = @ /\ \A w \in Workers : spec[w] = Mode(running.request)]
    /\ UNCHANGED <<client, answered, calls, gens, spec, tainted>>

Finish ==
    /\ running # None /\ running.left = 0
    /\ LET r == running.request
       IN /\ Answer(r, "generate")
          /\ tainted' = IF Waits(r, "generate") /\ ~running.own
                        THEN tainted \cup {r} ELSE tainted
    /\ running' = None
    /\ UNCHANGED <<client, calls, gens, spec>>

\* The server notices that the client has gone.
Abort(r) ==
    /\ ~Waits(r, "generate")
    /\ \/ r \in gens /\ gens' = gens \ {r} /\ UNCHANGED running
       \/ running # None /\ running.request = r /\ running' = None /\ UNCHANGED gens
    /\ UNCHANGED <<client, answered, calls, spec, tainted>>

Next ==
    \/ \E c \in Clients :
          Lock(c) \/ Refuse(c) \/ Configure(c) \/ Generate(c) \/ Reset(c)
          \/ ResetAnswer(c) \/ Again(c) \/ Unlock(c) \/ Kill(c)
    \/ ServeConfigure \/ ServeReset \/ Schedule \/ Prefill \/ Finish
    \/ \E r \in Requests : Abort(r)

Spec == Init /\ [][Next]_vars

-----------------------------------------------------------------------------
\* Whatever calls of earlier clients are still on their way, a generation that
\* is returned was computed in its own mode, on every worker.  And once a request
\* has ended, and neither its reset failed nor its process was killed, no worker
\* is in its mode, nor will be by a call still on its way.
ModeIsOwn ==
    /\ tainted = {}
    /\ \A c \in Clients :
          phase[c] \in {"asked", "done"} /\ outcome[c] # "reset-failed" =>
              /\ \A w \in Workers : spec[w] # Current(c)
              /\ \A i \in 1..Len(calls) : calls[i].request # Current(c)
=============================================================================
