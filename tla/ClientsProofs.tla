---------------------------- MODULE ClientsProofs ----------------------------
(***************************************************************************)
(* Proofs about the clients of a running head.                             *)
(*                                                                         *)
(* AskLpa, for any clients of a host, any number of workers, requests and  *)
(* prefill steps: however calls are delayed, refused or left behind by a   *)
(* killed client, a request is answered in its own mode.                   *)
(*                                                                         *)
(* The tool gate, for any tools, any chunks and lists of calls, and turns  *)
(* of any length: a turn whose calls break their schema is withheld, what  *)
(* is logged and told is what happened, and a turn that is shown is shown  *)
(* whole.  The joins of the chunks' pieces are recursive functions: what   *)
(* one more chunk adds to them is proved by a least counterexample.        *)
(*                                                                         *)
(* The trace of a worker's requests, for any requests, block placements,   *)
(* faults and weights: the first difference of two like traces names the   *)
(* call that went wrong or the next one the trace sees, a worker is left   *)
(* as it was found, and a layer's digest tells exactly what moved.         *)
(***************************************************************************)
EXTENDS MCClients, SequencesExt, SequenceTheorems, FiniteSetTheorems, WellFoundedInduction, TLAPS

\* Between its lock and its unlocking, a client holds the lock.
Busy == {"ask", "configure", "generate", "reset", "asked"}

\* The lock is held by the one client that is at work.
Holding == \A c \in Clients : phase[c] \in Busy <=> lock = c

\* The client of request r is past the phases `early' of that request.
Past(r, early) ==
    \/ r[2] < number[r[1]]
    \/ r[2] = number[r[1]] /\ phase[r[1]] \notin early

\* Nothing is on its way, or left on a worker, that was not sent.
SentBefore ==
    /\ \A i \in 1..Len(calls) : Past(calls[i].request, {"idle", "ask"})
    /\ \A w \in Workers : spec[w] # None => Past(spec[w], {"idle", "ask"})
    /\ \A r \in gens : Past(r, {"idle", "ask", "configure"})
    /\ running # None => Past(running.request, {"idle", "ask", "configure"})

\* The call a client waits for is the last one the server has yet to hand on.
OwnIsLast ==
    \A c \in Clients : \A i \in 1..Len(calls) : calls[i].request = Current(c) =>
        /\ phase[c] \in Trying => ~calls[i].reset
        /\ phase[c] = "configure" => i = Len(calls)
        /\ phase[c] = "reset" /\ calls[i].reset => i = Len(calls)

\* Once it was answered nothing is on its way, and every worker is in that mode.
Answered ==
    \A c \in Clients :
        /\ phase[c] = "generate" \/ (phase[c] = "configure" /\ answered[c]) =>
              calls = <<>> /\ \A w \in Workers : spec[w] = Mode(Current(c))
        /\ phase[c] = "reset" /\ answered[c] =>
              calls = <<>> /\ \A w \in Workers : spec[w] = None

\* A generation somebody waits for was computed in its own mode so far.
RunningIsOwn == running # None /\ Waits(running.request, "generate") => running.own

\* The inductive invariant.
IInv == TypeOK /\ Holding /\ SentBefore /\ OwnIsLast /\ Answered /\ RunningIsOwn /\ ModeIsOwn

-----------------------------------------------------------------------------
(* The queue of calls, and the shape of requests.                          *)

\* A request is its client and its number.
LEMMA RequestIs ==
    ASSUME NEW r \in Requests
    PROVE  r[1] \in Clients /\ r[2] \in 1..Asks /\ r = <<r[1], r[2]>>
  BY DEF Requests

\* A client is at a request of its own.
LEMMA CurrentIs ==
    ASSUME TypeOK, NEW c \in Clients
    PROVE  /\ Current(c) \in Requests
           /\ Current(c)[1] = c /\ Current(c)[2] = number[c]
  BY DEF TypeOK, Current, Requests

\* A client's call is the last in the queue, if it was sent.
LEMMA PostDoes ==
    ASSUME TypeOK, NEW c \in Clients, NEW reset \in BOOLEAN, Post(c, reset)
    PROVE  /\ calls' \in Seq(Call)
           /\ \A i \in 1..Len(calls') :
                 \/ i \in 1..Len(calls) /\ calls'[i] = calls[i]
                 \/ /\ i = Len(calls')
                    /\ calls'[i].request = Current(c) /\ calls'[i].reset = reset
<1> DEFINE call == [request |-> Current(c), reset |-> reset]
<1>1. call \in Call
    BY CurrentIs DEF Call
<1>2. CASE calls' = calls
    BY <1>2 DEF TypeOK
<1>3. CASE calls' = Append(calls, call)
    BY <1>1, <1>3, AppendProperties DEF TypeOK
<1>4. QED
    BY <1>2, <1>3 DEF Post

\* The server hands on the first call, and the others move up.
LEMMA TailDoes ==
    ASSUME TypeOK, calls # <<>>, calls' = Tail(calls)
    PROVE  /\ calls' \in Seq(Call) /\ Head(calls) = calls[1] /\ Head(calls) \in Call
           /\ 1 \in 1..Len(calls)
           /\ Len(calls') = Len(calls) - 1 /\ (Len(calls) = 1 => calls' = <<>>)
           /\ \A i \in 1..Len(calls') : i + 1 \in 1..Len(calls) /\ calls'[i] = calls[i + 1]
<1>1. calls \in Seq(Call) /\ Len(calls) \in Nat
    BY DEF TypeOK
<1>2. calls' \in Seq(Call) /\ Len(calls') = Len(calls) - 1
      /\ Head(calls) \in Call /\ \A i \in 1..Len(calls') : calls'[i] = calls[i + 1]
    BY <1>1, HeadTailProperties
<1>3. Len(calls) # 0 /\ Head(calls) = calls[1]
    BY <1>1
<1>4. Len(calls) = 1 => calls' = <<>>
    BY <1>2
<1>5. QED
    BY <1>1, <1>2, <1>3, <1>4

-----------------------------------------------------------------------------
(* What each step does.                                                    *)

\* A client's call is the last in the queue, or was not sent.
Posts(c, reset) ==
    \A i \in 1..Len(calls') :
       \/ i \in 1..Len(calls) /\ calls'[i] = calls[i]
       \/ i = Len(calls') /\ calls'[i].request = Current(c) /\ calls'[i].reset = reset

\* A client goes from one phase of its request to the next.
Goes(c, here, there) ==
    /\ phase[c] = here /\ phase'[c] = there
    /\ number'[c] = number[c]

\* Only client c moves, and the engine stands still.
Alone(c) ==
    /\ \A d \in Clients \ {c} :
          /\ phase'[d] = phase[d] /\ number'[d] = number[d]
          /\ outcome'[d] = outcome[d] /\ answered'[d] = answered[d]
    /\ phase[c] = "idle" \/ lock = c
    /\ UNCHANGED <<running, spec, tainted>>

\* From one phase to the next, with the call it sends or the answer it had.
Moves(c) ==
    \/ UNCHANGED calls /\ Goes(c, "idle", "ask")
    \/ UNCHANGED calls /\ Goes(c, "idle", "done")
    \/ UNCHANGED calls /\ Goes(c, "ask", "asked")
    \/ Goes(c, "ask", "configure") /\ ~answered'[c] /\ Posts(c, FALSE)
    \/ UNCHANGED calls /\ Goes(c, "configure", "generate") /\ answered[c]
    \/ /\ Goes(c, phase[c], "reset") /\ phase[c] \in Trying
       /\ ~answered'[c] /\ Posts(c, TRUE)
    \/ UNCHANGED calls /\ Goes(c, "reset", "asked") /\ (answered[c] \/ outcome'[c] = "reset-failed")
    \/ UNCHANGED calls /\ phase[c] = "asked" /\ phase'[c] = "ask" /\ number'[c] = number[c] + 1
    \/ UNCHANGED <<calls, outcome>> /\ Goes(c, "asked", "done")
    \/ UNCHANGED calls /\ Goes(c, phase[c], "killed")

\* The calls behind the first move up.
MovesUp ==
    \A i \in 1..Len(calls') :
       /\ i + 1 \in 1..Len(calls) /\ calls'[i] = calls[i + 1]
       /\ i + 1 = Len(calls) => i = Len(calls')

\* The first call in the queue is handed on to the workers.
Serves ==
    /\ 1 \in 1..Len(calls) /\ calls # <<>> /\ (Len(calls) = 1 => calls' = <<>>)
    /\ MovesUp
    /\ UNCHANGED <<phase, number, outcome, running, tainted>>
    /\ \A w \in Workers : spec'[w] \in {spec[w], None, calls[1].request}
    /\ \A d \in Clients :
          \/ answered'[d] = answered[d]
          \/ /\ calls[1].request = Current(d)
             /\ \/ /\ ~calls[1].reset /\ phase[d] = "configure"
                   /\ \A w \in Workers : spec'[w] = Mode(Current(d))
                \/ /\ calls[1].reset /\ phase[d] = "reset"
                   /\ \A w \in Workers : spec'[w] = None

\* The engine computes, and whoever it answers waits for a generation.
Computes ==
    /\ UNCHANGED <<phase, number, outcome, calls, spec>>
    /\ \A d \in Clients : answered'[d] = answered[d] \/ phase[d] = "generate"
    /\ \/ running' = None
       \/ running' = running
       \/ running = None /\ running'.own
       \/ /\ running # None /\ running'.request = running.request
          /\ running'.own <=> running.own /\ \A w \in Workers : spec[w] = Mode(running.request)
    /\ \/ UNCHANGED tainted
       \/ running # None /\ Waits(running.request, "generate") /\ ~running.own

\* What is on its way is a call of a request.
LEMMA CallsAre ==
    ASSUME TypeOK
    PROVE  \A j \in 1..Len(calls) : calls[j].request \in Requests
<1>1. calls \in Seq(Call)
    BY DEF TypeOK
<1>2. \A j \in 1..Len(calls) : calls[j] \in Call
    BY <1>1
<1>3. QED
    BY <1>2 DEF Call

\* A client's step is its move.
LEMMA ClientDoes ==
    ASSUME TypeOK, Holding, NEW c \in Clients,
           \/ Lock(c) \/ Refuse(c) \/ Configure(c) \/ Generate(c) \/ Reset(c)
           \/ ResetAnswer(c) \/ Again(c) \/ Unlock(c) \/ Kill(c)
    PROVE  Alone(c) /\ Moves(c)
<1>1. TypeOK /\ Holding
    OBVIOUS
<1> USE DEF TypeOK, Alone, Moves, Goes, Goto, Ends, engine, client, Trying, Holding, Busy
<1>2. CASE Lock(c)
    BY <1>2 DEF Lock
<1>3. CASE Refuse(c)
    BY <1>3 DEF Refuse
<1>4. CASE Configure(c)
  <2>1. Post(c, FALSE)
    BY <1>4 DEF Configure
  <2>2. Posts(c, FALSE)
    BY <1>1, <2>1, PostDoes DEF Posts
  <2>3. QED
    BY <1>4, <2>2 DEF Configure
<1>5. CASE Generate(c)
    BY <1>5 DEF Generate
<1>6. CASE Reset(c)
  <2>1. Post(c, TRUE)
    BY <1>6 DEF Reset
  <2>2. Posts(c, TRUE)
    BY <1>1, <2>1, PostDoes DEF Posts
  <2>3. QED
    BY <1>6, <2>2 DEF Reset
<1>7. CASE ResetAnswer(c)
    BY <1>7 DEF ResetAnswer
<1>8. CASE Again(c)
    BY <1>8 DEF Again
<1>9. CASE Unlock(c)
    BY <1>9 DEF Unlock
<1>10. CASE Kill(c)
    BY <1>10 DEF Kill
<1>11. QED
    BY <1>2, <1>3, <1>4, <1>5, <1>6, <1>7, <1>8, <1>9, <1>10

\* A configure or a reset is served.
LEMMA ServeDoes ==
    ASSUME TypeOK, ServeConfigure \/ ServeReset
    PROVE  Serves
<1>1. calls # <<>> /\ calls' = Tail(calls) /\ UNCHANGED <<phase, number, outcome, running, tainted>>
    BY DEF ServeConfigure, ServeReset, client
<1>2. /\ 1 \in 1..Len(calls) /\ calls # <<>> /\ (Len(calls) = 1 => calls' = <<>>)
      /\ Head(calls) = calls[1] /\ Head(calls) \in Call
      /\ MovesUp
    BY <1>1, TailDoes DEF TypeOK, MovesUp
<1>3. calls[1].request \in Requests
    BY <1>2 DEF Call
<1>4. \A w \in Workers : spec'[w] \in {spec[w], None, calls[1].request}
    BY <1>2 DEF ServeConfigure, ServeReset, Mode
<1>5. ASSUME NEW d \in Clients, answered'[d] # answered[d]
      PROVE  /\ calls[1].request = Current(d)
             /\ \/ /\ ~calls[1].reset /\ phase[d] = "configure"
                   /\ \A w \in Workers : spec'[w] = Mode(Current(d))
                \/ /\ calls[1].reset /\ phase[d] = "reset"
                   /\ \A w \in Workers : spec'[w] = None
  <2> DEFINE r == calls[1].request
  <2>1. answered \in [Clients -> BOOLEAN] /\ r = <<r[1], r[2]>> /\ r[1] \in Clients
    BY <1>3, RequestIs DEF TypeOK
  <2>2. CASE ServeConfigure
    <3>1. ~calls[1].reset /\ Answer(r, "configure") /\ \A w \in Workers : spec'[w] = Mode(r)
      BY <1>2, <1>5, <2>2 DEF ServeConfigure
    <3>2. r[1] = d /\ Waits(r, "configure")
      BY <1>5, <2>1, <3>1 DEF Answer, TypeOK
    <3>3. QED
      BY <2>1, <3>1, <3>2 DEF Waits, Current
  <2>3. CASE ServeReset
    <3>1. calls[1].reset /\ Answer(r, "reset") /\ \A w \in Workers : spec'[w] = None
      BY <1>2, <1>5, <2>3 DEF ServeReset
    <3>2. r[1] = d /\ Waits(r, "reset")
      BY <1>5, <2>1, <3>1 DEF Answer, TypeOK
    <3>3. QED
      BY <2>1, <3>1, <3>2 DEF Waits, Current
  <2>4. QED
    BY <2>2, <2>3
<1>6. QED
    BY <1>1, <1>2, <1>4, <1>5 DEF Serves

\* Any other step computes, or does nothing.
LEMMA EngineDoes ==
    ASSUME TypeOK, Schedule \/ Prefill \/ Finish \/ (\E r \in Requests : Abort(r)) \/ UNCHANGED vars
    PROVE  Computes
<1> USE DEF Computes, client, Generation
<1>1. CASE Schedule
    BY <1>1 DEF Schedule
<1>2. CASE Prefill
    BY <1>2 DEF Prefill, TypeOK
<1>3. CASE Finish
    BY <1>3, RequestIs DEF Finish, Answer, Waits, TypeOK
<1>4. CASE \E r \in Requests : Abort(r)
    BY <1>4 DEF Abort
<1>5. CASE UNCHANGED vars
    BY <1>5 DEF vars, engine
<1>6. QED
    BY <1>1, <1>2, <1>3, <1>4, <1>5

\* Every step is one of the three.
LEMMA StepDoes ==
    ASSUME TypeOK, Holding, [Next]_vars
    PROVE  (\E c \in Clients : Alone(c) /\ Moves(c)) \/ Serves \/ Computes
  BY ClientDoes, ServeDoes, EngineDoes DEF Next

-----------------------------------------------------------------------------
(* Each part of the invariant is kept by every step.                       *)

\* Every step keeps the types.
LEMMA TypeStep == IInv /\ [Next]_vars => TypeOK'
<1> SUFFICES ASSUME IInv, [Next]_vars PROVE TypeOK'
    OBVIOUS
<1> USE AskAssumption DEF IInv, TypeOK, Phases, Outcomes, client, engine
<1>1. CASE \E c \in Clients :
            Lock(c) \/ Refuse(c) \/ Configure(c) \/ Generate(c) \/ Reset(c)
            \/ ResetAnswer(c) \/ Again(c) \/ Unlock(c) \/ Kill(c)
  <2> PICK c \in Clients :
         Lock(c) \/ Refuse(c) \/ Configure(c) \/ Generate(c) \/ Reset(c)
         \/ ResetAnswer(c) \/ Again(c) \/ Unlock(c) \/ Kill(c)
    BY <1>1
  <2>1. CASE Lock(c)
    BY ZenonT(40), <2>1 DEF Lock, Goto, Ends
  <2>2. CASE Refuse(c)
    BY <2>2 DEF Refuse, Goto, Ends
  <2>3. CASE Configure(c)
    <3>1. Post(c, FALSE) /\ calls' \in Seq(Call)
        BY <2>3, PostDoes DEF Configure
    <3>2. QED
        BY <2>3, <3>1, PostDoes, CurrentIs DEF Configure, Goto
  <2>4. CASE Generate(c)
    BY <2>4, CurrentIs DEF Generate, Goto
  <2>5. CASE Reset(c)
    <3>1. Post(c, TRUE) /\ calls' \in Seq(Call)
        BY <2>5, PostDoes DEF Reset
    <3>2. QED
        BY <2>5, <3>1, PostDoes, CurrentIs DEF Reset, Goto
  <2>6. CASE ResetAnswer(c)
    BY <2>6 DEF ResetAnswer, Goto, Ends
  <2>7. CASE Again(c)
    BY <2>7 DEF Again, Goto, Ends
  <2>8. CASE Unlock(c)
    BY <2>8 DEF Unlock, Goto, Ends
  <2>9. CASE Kill(c)
    BY <2>9 DEF Kill, Goto, Ends
  <2>10. QED
    BY <2>1, <2>2, <2>3, <2>4, <2>5, <2>6, <2>7, <2>8, <2>9
<1>2. CASE ServeConfigure
  <2>1. calls # <<>> /\ calls' = Tail(calls)
    BY <1>2 DEF ServeConfigure
  <2>2. Head(calls).request \in Requests /\ calls' \in Seq(Call)
    BY <2>1, TailDoes DEF Call
  <2>3. spec' \in [Workers -> Requests \cup {None}]
    BY <1>2, <2>2 DEF ServeConfigure, Mode
  <2>4. answered' \in [Clients -> BOOLEAN]
    BY <1>2, <2>2, RequestIs DEF ServeConfigure, Answer, Waits
  <2>5. QED
    BY <1>2, <2>2, <2>3, <2>4 DEF ServeConfigure
<1>3. CASE ServeReset
  <2>1. calls # <<>> /\ calls' = Tail(calls)
    BY <1>3 DEF ServeReset
  <2>2. QED
    BY <1>3, <2>1, TailDoes, RequestIs DEF ServeReset, Answer, Call
<1>4. CASE Schedule
    BY <1>4 DEF Schedule, Generation
<1>5. CASE Prefill
  <2>1. running \in Generation /\ running.left - 1 \in 0..Chunks
    BY <1>5 DEF Prefill, Generation
  <2>2. (running.own /\ \A w \in Workers : spec[w] = Mode(running.request)) \in BOOLEAN
    BY <2>1 DEF Generation
  <2>3. running' \in Generation
    BY <1>5, <2>1, <2>2 DEF Prefill, Generation
  <2>4. QED
    BY <1>5, <2>3 DEF Prefill
<1>6. CASE Finish
    BY <1>6, RequestIs DEF Finish, Answer, Generation
<1>7. CASE \E r \in Requests : Abort(r)
    BY <1>7 DEF Abort, Answer
<1>8. CASE UNCHANGED vars
    BY <1>8 DEF vars, client, engine
<1>9. QED
    BY <1>1, <1>2, <1>3, <1>4, <1>5, <1>6, <1>7, <1>8 DEF Next

\* The lock stays with the one client at work.
LEMMA HoldingStep == IInv /\ [Next]_vars => Holding'
<1> SUFFICES ASSUME IInv, [Next]_vars PROVE Holding'
    OBVIOUS
<1> USE AskAssumption DEF IInv, TypeOK, Holding, Busy, Trying, client, engine
<1>1. CASE \E c \in Clients :
            Lock(c) \/ Refuse(c) \/ Configure(c) \/ Generate(c) \/ Reset(c)
            \/ ResetAnswer(c) \/ Again(c) \/ Unlock(c) \/ Kill(c)
  <2> PICK c \in Clients :
         Lock(c) \/ Refuse(c) \/ Configure(c) \/ Generate(c) \/ Reset(c)
         \/ ResetAnswer(c) \/ Again(c) \/ Unlock(c) \/ Kill(c)
    BY <1>1
  <2>1. CASE Lock(c)
    BY <2>1 DEF Lock, Goto, Ends
  <2>2. CASE Refuse(c)
    BY <2>2 DEF Refuse, Goto, Ends
  <2>3. CASE Configure(c)
    BY <2>3 DEF Configure, Goto, Ends
  <2>4. CASE Generate(c)
    BY <2>4 DEF Generate, Goto, Ends
  <2>5. CASE Reset(c)
    BY <2>5 DEF Reset, Goto, Ends
  <2>6. CASE ResetAnswer(c)
    BY <2>6 DEF ResetAnswer, Goto, Ends
  <2>7. CASE Again(c)
    BY <2>7 DEF Again, Goto, Ends
  <2>8. CASE Unlock(c)
    BY <2>8 DEF Unlock, Goto, Ends
  <2>9. CASE Kill(c)
    BY <2>9 DEF Kill, Goto, Ends
  <2>10. QED
    BY <2>1, <2>2, <2>3, <2>4, <2>5, <2>6, <2>7, <2>8, <2>9
<1>2. CASE ServeConfigure
    BY <1>2 DEF ServeConfigure, Answer
<1>3. CASE ServeReset
    BY <1>3 DEF ServeReset, Answer
<1>4. CASE Schedule
    BY <1>4 DEF Schedule, Answer
<1>5. CASE Prefill
    BY <1>5 DEF Prefill, Answer
<1>6. CASE Finish
    BY <1>6 DEF Finish, Answer
<1>7. CASE \E r \in Requests : Abort(r)
    BY <1>7 DEF Abort, Answer
<1>8. CASE UNCHANGED vars
    BY <1>8 DEF vars, client, engine
<1>9. QED
    BY <1>1, <1>2, <1>3, <1>4, <1>5, <1>6, <1>7, <1>8 DEF Next

\* The same after the step.
WillBePast(r, early) ==
    \/ r[2] < number'[r[1]]
    \/ r[2] = number'[r[1]] /\ phase'[r[1]] \notin early

\* Calls and generations are sent by the clients at work; the workers' modes are
\* those of calls, and what is computed is a generation that was sent.
CallsFrom ==
    \A i \in 1..Len(calls') :
       \/ \E j \in 1..Len(calls) : calls'[i].request = calls[j].request
       \/ calls'[i].request \in Requests /\ WillBePast(calls'[i].request, {"idle", "ask"})
SpecsFrom ==
    \A w \in Workers :
       \/ spec'[w] \in {spec[w], None}
       \/ \E j \in 1..Len(calls) : spec'[w] = calls[j].request
GensFrom ==
    \A r \in gens' :
       \/ r \in gens
       \/ r \in Requests /\ WillBePast(r, {"idle", "ask", "configure"})
RunningFrom ==
    running' # None =>
       \/ running # None /\ running'.request = running.request
       \/ running'.request \in gens

\* What a client is past stays behind it.
LEMMA PastStays ==
    ASSUME TypeOK, Holding, [Next]_vars, NEW r \in Requests
    PROVE  /\ Past(r, {"idle", "ask"}) => WillBePast(r, {"idle", "ask"})
           /\ Past(r, {"idle", "ask", "configure"}) => WillBePast(r, {"idle", "ask", "configure"})
<1> USE RequestIs DEF TypeOK, Past, WillBePast, Trying, Holding, Busy, client, engine
<1>1. CASE \E c \in Clients :
            Lock(c) \/ Refuse(c) \/ Configure(c) \/ Generate(c) \/ Reset(c)
            \/ ResetAnswer(c) \/ Again(c) \/ Unlock(c) \/ Kill(c)
  <2> PICK c \in Clients :
         Lock(c) \/ Refuse(c) \/ Configure(c) \/ Generate(c) \/ Reset(c)
         \/ ResetAnswer(c) \/ Again(c) \/ Unlock(c) \/ Kill(c)
    BY <1>1
  <2>1. CASE Lock(c)
    BY <2>1 DEF Lock, Goto, Ends
  <2>2. CASE Refuse(c)
    BY <2>2 DEF Refuse, Goto, Ends
  <2>3. CASE Configure(c)
    BY <2>3 DEF Configure, Goto, Ends
  <2>4. CASE Generate(c)
    BY <2>4 DEF Generate, Goto, Ends
  <2>5. CASE Reset(c)
    BY <2>5 DEF Reset, Goto, Ends
  <2>6. CASE ResetAnswer(c)
    BY <2>6 DEF ResetAnswer, Goto, Ends
  <2>7. CASE Again(c)
    BY <2>7 DEF Again, Goto, Ends
  <2>8. CASE Unlock(c)
    BY <2>8 DEF Unlock, Goto, Ends
  <2>9. CASE Kill(c)
    BY <2>9 DEF Kill, Goto, Ends
  <2>10. QED
    BY <2>1, <2>2, <2>3, <2>4, <2>5, <2>6, <2>7, <2>8, <2>9
<1>2. CASE ServeConfigure
    BY <1>2 DEF ServeConfigure
<1>3. CASE ServeReset
    BY <1>3 DEF ServeReset
<1>4. CASE Schedule
    BY <1>4 DEF Schedule
<1>5. CASE Prefill
    BY <1>5 DEF Prefill
<1>6. CASE Finish
    BY <1>6 DEF Finish
<1>7. CASE \E q \in Requests : Abort(q)
    BY <1>7 DEF Abort
<1>8. CASE UNCHANGED vars
    BY <1>8 DEF vars, client, engine
<1>9. QED
    BY <1>1, <1>2, <1>3, <1>4, <1>5, <1>6, <1>7, <1>8 DEF Next

\* Calls, modes and generations come from the clients at work.
LEMMA SentDoes ==
    ASSUME TypeOK, Holding, [Next]_vars
    PROVE  CallsFrom /\ SpecsFrom /\ GensFrom /\ RunningFrom
<1> USE AskAssumption DEF TypeOK, Past, WillBePast, Trying, client, engine, CallsFrom, SpecsFrom,
        GensFrom, RunningFrom
<1>1. CASE \E c \in Clients :
            Lock(c) \/ Refuse(c) \/ Configure(c) \/ Generate(c) \/ Reset(c)
            \/ ResetAnswer(c) \/ Again(c) \/ Unlock(c) \/ Kill(c)
  <2> PICK c \in Clients :
         Lock(c) \/ Refuse(c) \/ Configure(c) \/ Generate(c) \/ Reset(c)
         \/ ResetAnswer(c) \/ Again(c) \/ Unlock(c) \/ Kill(c)
    BY <1>1
  <2>1. CASE Lock(c)
    BY <2>1 DEF Lock, Goto, Ends
  <2>2. CASE Refuse(c)
    BY <2>2 DEF Refuse, Goto, Ends
  <2>3. CASE Configure(c)
    <3>1. Post(c, FALSE)
        BY <2>3 DEF Configure
    <3>2. ASSUME NEW i \in 1..Len(calls')
        PROVE  \/ \E j \in 1..Len(calls) : calls'[i].request = calls[j].request
               \/ calls'[i].request = Current(c)
        <4>1. calls'[i].request = Current(c) \/ (i \in 1..Len(calls) /\ calls'[i] = calls[i])
            BY <3>1, PostDoes
        <4>2. QED
            BY <4>1
    <3>3. Current(c) \in Requests /\ WillBePast(Current(c), {"idle", "ask"})
        BY <2>3, CurrentIs DEF Configure, Goto
    <3>4. QED
        BY <2>3, <3>2, <3>3 DEF Configure
  <2>4. CASE Generate(c)
    BY <2>4, CurrentIs DEF Generate, Goto
  <2>5. CASE Reset(c)
    <3>1. Post(c, TRUE)
        BY <2>5 DEF Reset
    <3>2. ASSUME NEW i \in 1..Len(calls')
        PROVE  \/ \E j \in 1..Len(calls) : calls'[i].request = calls[j].request
               \/ calls'[i].request = Current(c)
        <4>1. calls'[i].request = Current(c) \/ (i \in 1..Len(calls) /\ calls'[i] = calls[i])
            BY <3>1, PostDoes
        <4>2. QED
            BY <4>1
    <3>3. Current(c) \in Requests /\ WillBePast(Current(c), {"idle", "ask"})
        BY <2>5, CurrentIs DEF Reset, Goto
    <3>4. QED
        BY <2>5, <3>2, <3>3 DEF Reset
  <2>6. CASE ResetAnswer(c)
    BY <2>6 DEF ResetAnswer, Goto, Ends
  <2>7. CASE Again(c)
    BY <2>7 DEF Again, Goto, Ends
  <2>8. CASE Unlock(c)
    BY <2>8 DEF Unlock, Goto, Ends
  <2>9. CASE Kill(c)
    BY <2>9 DEF Kill, Goto, Ends
  <2>10. QED
    BY <2>1, <2>2, <2>3, <2>4, <2>5, <2>6, <2>7, <2>8, <2>9
<1>2. CASE ServeConfigure
  <2>1. calls # <<>> /\ calls' = Tail(calls)
    BY <1>2 DEF ServeConfigure
  <2>2. \A i \in 1..Len(calls') : i + 1 \in 1..Len(calls) /\ calls'[i] = calls[i + 1]
    BY <2>1, TailDoes
  <2>3. ASSUME NEW w \in Workers
      PROVE  spec'[w] \in {spec[w], None} \/ spec'[w] = calls[1].request
    BY <1>2, <2>1, TailDoes DEF ServeConfigure, Mode
  <2>4. 1 \in 1..Len(calls)
    BY <2>1, TailDoes
  <2>5. QED
    BY <1>2, <2>2, <2>3, <2>4 DEF ServeConfigure
<1>3. CASE ServeReset
  <2>1. calls # <<>> /\ calls' = Tail(calls)
    BY <1>3 DEF ServeReset
  <2>2. QED
    BY <1>3, <2>1, TailDoes, RequestIs DEF ServeReset, Answer, Call
<1>4. CASE Schedule
    BY <1>4 DEF Schedule, Answer
<1>5. CASE Prefill
    BY <1>5 DEF Prefill, Generation
<1>6. CASE Finish
    BY <1>6 DEF Finish, Answer
<1>7. CASE \E r \in Requests : Abort(r)
    BY <1>7 DEF Abort, Answer
<1>8. CASE UNCHANGED vars
    BY <1>8 DEF vars, client, engine
<1>9. QED
    BY <1>1, <1>2, <1>3, <1>4, <1>5, <1>6, <1>7, <1>8 DEF Next

\* What is on its way was sent.
LEMMA SentBeforeStep == IInv /\ [Next]_vars => SentBefore'
<1> SUFFICES ASSUME IInv, [Next]_vars PROVE SentBefore'
    OBVIOUS
<1>1. TypeOK /\ Holding /\ SentBefore /\ TypeOK'
    BY TypeStep DEF IInv
<1>0. CallsFrom /\ SpecsFrom /\ GensFrom /\ RunningFrom
    BY <1>1, SentDoes
<1>2. \A j \in 1..Len(calls) : calls[j].request \in Requests
    BY <1>1, CallsAre
<1>3. ASSUME NEW i \in 1..Len(calls') PROVE Past(calls[i].request, {"idle", "ask"})'
  <2>1. WillBePast(calls'[i].request, {"idle", "ask"})
    BY <1>0, <1>1, <1>2, PastStays DEF SentBefore, CallsFrom
  <2>2. QED
    BY <2>1 DEF WillBePast, Past
<1>4. ASSUME NEW w \in Workers, spec'[w] # None PROVE Past(spec[w], {"idle", "ask"})'
  <2>1. spec[w] # None => spec[w] \in Requests
    BY <1>1 DEF TypeOK
  <2>2. WillBePast(spec'[w], {"idle", "ask"})
    BY <1>0, <1>1, <1>2, <1>4, <2>1, PastStays DEF SentBefore, SpecsFrom
  <2>3. QED
    BY <2>2 DEF WillBePast, Past
<1>5. ASSUME NEW r \in gens' PROVE WillBePast(r, {"idle", "ask", "configure"})
    BY <1>0, <1>1, PastStays DEF SentBefore, TypeOK, GensFrom
<1>6. ASSUME running' # None PROVE Past(running.request, {"idle", "ask", "configure"})'
  <2>1. running # None => running.request \in Requests
    BY <1>1 DEF TypeOK, Generation
  <2>2. \/ running # None /\ running'.request = running.request
        \/ running'.request \in gens
    BY <1>0, <1>6 DEF RunningFrom
  <2>4. WillBePast(running'.request, {"idle", "ask", "configure"})
    BY <1>1, <2>1, <2>2, PastStays DEF SentBefore, TypeOK
  <2>5. QED
    BY <2>4 DEF WillBePast, Past
<1>7. \A r \in gens' : Past(r, {"idle", "ask", "configure"})'
    BY <1>5 DEF WillBePast, Past
<1>8. QED
    BY <1>3, <1>4, <1>6, <1>7 DEF SentBefore

-----------------------------------------------------------------------------
(* The call waited for is the last, and once it is answered the modes hold. *)

\* The call waited for stays the last one.
LEMMA OwnIsLastStep == IInv /\ [Next]_vars => OwnIsLast'
<1> SUFFICES ASSUME IInv, [Next]_vars PROVE OwnIsLast'
    OBVIOUS
<1> SUFFICES ASSUME NEW d \in Clients, NEW i \in 1..Len(calls'), calls'[i].request = <<d, number'[d]>>
             PROVE  /\ phase'[d] \in Trying => ~calls'[i].reset
                    /\ phase'[d] = "configure" => i = Len(calls')
                    /\ phase'[d] = "reset" /\ calls'[i].reset => i = Len(calls')
    BY DEF OwnIsLast, Current
<1>1. TypeOK /\ Holding
    BY DEF IInv
<1>2. \A j \in 1..Len(calls) : calls[j].request = <<d, number[d]>> =>
        /\ phase[d] \in Trying => ~calls[j].reset
        /\ phase[d] = "configure" => j = Len(calls)
        /\ phase[d] = "reset" /\ calls[j].reset => j = Len(calls)
        /\ phase[d] \notin {"idle", "ask"}
    BY <1>1 DEF IInv, OwnIsLast, Current, SentBefore, Past, TypeOK
<1>3. ASSUME NEW c \in Clients, Alone(c), Moves(c)
      PROVE  /\ phase'[d] \in Trying => ~calls'[i].reset
             /\ phase'[d] = "configure" => i = Len(calls')
             /\ phase'[d] = "reset" /\ calls'[i].reset => i = Len(calls')
  <2> USE DEF Trying
  <2>1. CASE c = d
    BY <1>2, <1>3, <2>1 DEF Moves, Goes, Posts, Current
  <2>2. CASE c # d
    BY <1>1, <1>2, <1>3, <2>2 DEF Alone, Moves, Goes, Posts, Current, Holding, Busy
  <2>3. QED
    BY <2>1, <2>2
<1>4. CASE Serves
  <2>1. MovesUp /\ UNCHANGED <<phase, number>>
    BY <1>4 DEF Serves
  <2>2. QED
    BY <1>2, <2>1 DEF MovesUp
<1>5. CASE Computes
    BY <1>2, <1>5 DEF Computes
<1>6. QED
    BY <1>1, <1>3, <1>4, <1>5, StepDoes

\* Whoever was answered finds the workers as asked.
LEMMA AnsweredStep == IInv /\ [Next]_vars => Answered'
<1> SUFFICES ASSUME IInv, [Next]_vars, NEW d \in Clients
             PROVE  /\ phase'[d] = "generate" \/ (phase'[d] = "configure" /\ answered'[d]) =>
                          calls' = <<>> /\ \A w \in Workers : spec'[w] = Mode(<<d, number'[d]>>)
                    /\ phase'[d] = "reset" /\ answered'[d] =>
                          calls' = <<>> /\ \A w \in Workers : spec'[w] = None
    BY DEF Answered, Current, Mode
<1>1. TypeOK /\ Holding
    BY DEF IInv
<1>2. /\ phase[d] = "generate" \/ (phase[d] = "configure" /\ answered[d]) =>
            calls = <<>> /\ \A w \in Workers : spec[w] = Mode(<<d, number[d]>>)
      /\ phase[d] = "reset" /\ answered[d] =>
            calls = <<>> /\ \A w \in Workers : spec[w] = None
    BY DEF IInv, Answered, Current
<1>3. ASSUME NEW c \in Clients, Alone(c), Moves(c)
      PROVE  /\ phase'[d] = "generate" \/ (phase'[d] = "configure" /\ answered'[d]) =>
                   calls' = <<>> /\ \A w \in Workers : spec'[w] = Mode(<<d, number'[d]>>)
             /\ phase'[d] = "reset" /\ answered'[d] =>
                   calls' = <<>> /\ \A w \in Workers : spec'[w] = None
  <2>1. CASE c = d
    BY <1>2, <1>3, <2>1 DEF Alone, Moves, Goes
  <2>2. CASE c # d
    BY <1>1, <1>2, <1>3, <2>2 DEF Alone, Moves, Goes, Holding, Busy, Trying
  <2>3. QED
    BY <2>1, <2>2
<1>4. CASE Serves
  <2>1. calls[1].request = Current(d) => 
          /\ phase[d] = "configure" => Len(calls) = 1
          /\ phase[d] = "reset" /\ calls[1].reset => Len(calls) = 1
    BY <1>4 DEF IInv, OwnIsLast, Serves
  <2>2. QED
    BY <1>2, <1>4, <2>1 DEF Serves, Current
<1>5. CASE Computes
    BY <1>2, <1>5 DEF Computes
<1>6. QED
    BY <1>1, <1>3, <1>4, <1>5, StepDoes

\* What is being computed stays in its own mode.
LEMMA RunningIsOwnStep == IInv /\ [Next]_vars => RunningIsOwn'
<1> SUFFICES ASSUME IInv, [Next]_vars, running' # None,
                    phase'[running'.request[1]] = "generate",
                    number'[running'.request[1]] = running'.request[2]
             PROVE  running'.own
    BY DEF RunningIsOwn, Waits
<1>1. TypeOK /\ Holding
    BY DEF IInv
<1>2. running # None => /\ running.request \in Requests /\ running.own \in BOOLEAN
                        /\ Past(running.request, {"idle", "ask", "configure"})
                        /\ Waits(running.request, "generate") => running.own
    BY <1>1 DEF IInv, TypeOK, Generation, SentBefore, RunningIsOwn
<1>3. ASSUME NEW c \in Clients, Alone(c), Moves(c)
      PROVE  running'.own
  <2>1. running' = running /\ running.request[1] \in Clients
    BY <1>2, <1>3, RequestIs DEF Alone
  <2>2. CASE running.request[1] = c
    <3>1. phase'[c] = "generate" /\ number'[c] = running.request[2]
      BY <2>1, <2>2
    <3>2. \/ phase[c] = "configure" /\ number[c] = running.request[2]
          \/ Waits(running.request, "generate")
      BY <1>3, <2>2, <3>1 DEF Moves, Goes, Waits
    <3>3. QED
      BY <1>1, <1>2, <2>1, <2>2, <3>2 DEF Past, TypeOK
  <2>3. CASE running.request[1] # c
    BY <1>2, <1>3, <2>1, <2>3 DEF Alone, Waits
  <2>4. QED
    BY <2>2, <2>3
<1>4. CASE Serves
    BY <1>2, <1>4 DEF Serves, Waits
<1>5. CASE Computes
  <2>1. running # None /\ Waits(running.request, "generate") =>
           \A w \in Workers : spec[w] = Mode(running.request)
    BY <1>2, RequestIs DEF IInv, Answered, Waits, Current
  <2>2. QED
    BY <1>2, <1>5, <2>1 DEF Computes, Waits
<1>6. QED
    BY <1>1, <1>3, <1>4, <1>5, StepDoes

\* No mode is left behind, and none taints an answer.
LEMMA ModeIsOwnStep == IInv /\ [Next]_vars => ModeIsOwn'
<1> SUFFICES ASSUME IInv, [Next]_vars PROVE ModeIsOwn'
    OBVIOUS
<1>1. TypeOK /\ Holding /\ RunningIsOwn
    BY DEF IInv
<1>2. tainted' = {}
    BY <1>1, StepDoes DEF IInv, ModeIsOwn, RunningIsOwn, Alone, Serves, Computes
<1>3. ASSUME NEW d \in Clients, phase'[d] \in {"asked", "done"}, outcome'[d] # "reset-failed"
      PROVE  /\ \A w \in Workers : spec'[w] # <<d, number'[d]>>
             /\ \A i \in 1..Len(calls') : calls'[i].request # <<d, number'[d]>>
  <2> DEFINE Clear == /\ \A w \in Workers : spec[w] # <<d, number[d]>>
                      /\ \A i \in 1..Len(calls) : calls[i].request # <<d, number[d]>>
  <2>0. <<d, number[d]>> \in Requests /\ <<d, number[d]>> # None /\ number[d] \in Nat
    BY <1>1, AskAssumption DEF Requests, TypeOK
  <2>1. phase[d] \in {"asked", "done"} /\ outcome[d] # "reset-failed" => Clear
    BY DEF IInv, ModeIsOwn, Current
  <2>2. phase[d] \in {"idle", "ask"} => Clear
    <3>1. phase[d] \in {"idle", "ask"} => ~Past(<<d, number[d]>>, {"idle", "ask"})
      BY <2>0 DEF Past
    <3>2. QED
      BY <2>0, <3>1 DEF IInv, SentBefore
  <2>3. phase[d] = "reset" /\ answered[d] => Clear
    <3>1. phase[d] = "reset" /\ answered[d] => calls = <<>> /\ \A w \in Workers : spec[w] = None
      BY DEF IInv, Answered
    <3>2. calls = <<>> => \A i \in 1..Len(calls) : FALSE
      OBVIOUS
    <3>3. QED
      BY <2>0, <3>1, <3>2
  <2>4. ASSUME NEW c \in Clients, Alone(c), Moves(c)
        PROVE  /\ \A w \in Workers : spec'[w] # <<d, number'[d]>>
               /\ \A i \in 1..Len(calls') : calls'[i].request # <<d, number'[d]>>
    <3>1. CASE c = d
      <4>1. Clear /\ UNCHANGED <<spec, calls>> /\ number'[d] = number[d]
        BY <1>3, <2>1, <2>2, <2>3, <2>4, <3>1 DEF Alone, Moves, Goes
      <4>2. QED
        BY <4>1
    <3>2. CASE c # d
      <4>1. Clear /\ UNCHANGED spec /\ number'[d] = number[d]
        BY <1>3, <2>1, <2>4, <3>2 DEF Alone
      <4>2. \A i \in 1..Len(calls') : \/ i \in 1..Len(calls) /\ calls'[i] = calls[i]
                                     \/ calls'[i].request[1] = c
        BY <1>1, <2>4, CurrentIs DEF Moves, Posts
      <4>3. QED
        BY <4>1, <4>2, <3>2
    <3>3. QED
      BY <3>1, <3>2
  <2>5. CASE Serves
    <3>1. Clear /\ UNCHANGED number
      BY <1>3, <2>1, <2>5 DEF Serves
    <3>2. ASSUME NEW w \in Workers PROVE spec'[w] # <<d, number[d]>>
      BY <2>0, <2>5, <3>1 DEF Serves
    <3>3. ASSUME NEW i \in 1..Len(calls') PROVE calls'[i].request # <<d, number[d]>>
      <4>1. MovesUp
        BY <2>5 DEF Serves
      <4>2. QED
        BY <3>1, <4>1 DEF MovesUp
    <3>4. QED
      BY <3>1, <3>2, <3>3
  <2>6. CASE Computes
    BY <1>3, <2>1, <2>6 DEF Computes
  <2>7. QED
    BY <1>1, <2>4, <2>5, <2>6, StepDoes
<1>4. QED
    BY <1>2, <1>3 DEF ModeIsOwn, Current

-----------------------------------------------------------------------------
(* The invariant, and what follows from it.                                *)

\* No client has asked anything yet.
LEMMA InitInv == Init => IInv
<1> SUFFICES ASSUME Init PROVE IInv
    OBVIOUS
<1> USE AskAssumption DEF Init
<1>1. TypeOK
    BY EmptySeq DEF TypeOK, Phases, Outcomes
<1>2. Holding
    BY DEF Holding, Busy
<1>3. \A i \in 1..Len(calls) : FALSE
    OBVIOUS
<1>4. SentBefore /\ OwnIsLast /\ Answered /\ RunningIsOwn /\ ModeIsOwn
    BY <1>3 DEF SentBefore, OwnIsLast, Answered, RunningIsOwn, ModeIsOwn
<1>5. QED
    BY <1>1, <1>2, <1>4 DEF IInv

\* Every step keeps the invariant.
LEMMA StepInv == IInv /\ [Next]_vars => IInv'
  BY TypeStep, HoldingStep, SentBeforeStep, OwnIsLastStep, AnsweredStep, RunningIsOwnStep,
     ModeIsOwnStep DEF IInv

\* The invariant that ties the lock, the queue of calls, the workers' modes and
\* the running generation together holds in every behaviour.
THEOREM Inductive == Spec => []IInv
  BY InitInv, StepInv, PTL DEF Spec

\* Only the client at work holds the request lock, whoever was refused or killed.
THEOREM LockHeld == Spec => []Holding
<1>1. IInv => Holding
    BY DEF IInv
<1>2. QED
    BY <1>1, Inductive, PTL

\* Every request that is answered was computed in its own mode on every worker,
\* and once its reset is answered no worker is, or will be put, in its mode.
THEOREM ModeKept == Spec => []ModeIsOwn
<1>1. IInv => ModeIsOwn
    BY DEF IInv
<1>2. QED
    BY <1>1, Inductive, PTL

-----------------------------------------------------------------------------
(* The tool gate.  What a turn holds, read off its chunks.                 *)

\* The part of chunk's field that belongs to call i, and those of all the chunks, joined.
Piece(chunk, i, field) ==
    IF chunk.delta.part # None /\ chunk.delta.part.index = i
    THEN chunk.delta.part[field] ELSE <<>>
Pieces(chunks, i, field) == FlattenSeq([n \in DOMAIN chunks |-> Piece(chunks[n], i, field)])

\* The calls of a turn: a function of their indices.
IndicesIn(chunks) ==
    {chunks[n].delta.part.index : n \in {n \in DOMAIN chunks : chunks[n].delta.part # None}}
Named(cs) == [i \in DOMAIN cs |-> <<cs[i].name, cs[i].args>>]
CallsIn(stream, chunks) ==
    IF stream THEN [i \in IndicesIn(chunks) |-> <<Pieces(chunks, i, "name"), Pieces(chunks, i, "args")>>]
    ELSE IF chunks = <<>> THEN [i \in {} |-> None] ELSE Named(chunks[1])
BrokenIn(stream, chunks) ==
    {i \in DOMAIN CallsIn(stream, chunks) :
        /\ CallsIn(stream, chunks)[i][1] \in {<<s>> : s \in Strict}
        /\ CallsIn(stream, chunks)[i][2] # <<"{", "given">>}

\* A place and a text.
Marks == Nat \X Gate!Kinds

\* The text of chunk n, and of all the chunks; and the texts of a turn among items sent.
Text(n, chunk, withheld) ==
    IF chunk.delta.text = "none" \/ (withheld /\ chunk.finish) THEN <<>>
    ELSE <<<<n, chunk.delta.text>>>>
Sent(chunks, withheld) == FlattenSeq([n \in DOMAIN chunks |-> Text(n, chunks[n], withheld)])
Said(item, t) ==
    IF item.kind = "chunk" /\ item.turn = t /\ item.text # "none"
    THEN <<<<item.place, item.text>>>> ELSE <<>>
Texts(items, t) == FlattenSeq([n \in DOMAIN items |-> Said(items[n], t)])

-----------------------------------------------------------------------------
(* Sequences.                                                              *)

\* A sequence, of whatever it holds.
IsSeq(s) == s \in Seq({s[n] : n \in DOMAIN s})

\* What such a sequence is.
LEMMA SeqIs ==
    ASSUME NEW s, IsSeq(s)
    PROVE  Len(s) \in Nat /\ DOMAIN s = 1..Len(s) /\ s = [n \in 1..Len(s) |-> s[n]]
  BY DEF IsSeq

\* A function of the first numbers is one.
LEMMA IsSeqOf ==
    ASSUME NEW n \in Nat, NEW s, s = [i \in 1..n |-> s[i]]
    PROVE  IsSeq(s) /\ Len(s) = n /\ DOMAIN s = 1..n
<1>1. DOMAIN s = 1..n
  OBVIOUS
<1>2. s \in [1..n -> {s[i] : i \in DOMAIN s}]
  BY <1>1
<1>3. s \in Seq({s[i] : i \in DOMAIN s})
  BY <1>2
<1>4. QED
  BY <1>1, <1>3 DEF IsSeq

\* One more element.
LEMMA SeqAppend ==
    ASSUME NEW s, IsSeq(s), NEW x
    PROVE  /\ IsSeq(Append(s, x)) /\ Len(Append(s, x)) = Len(s) + 1
           /\ DOMAIN Append(s, x) = 1..(Len(s) + 1)
           /\ \A n \in 1..Len(s) : Append(s, x)[n] = s[n]
           /\ Append(s, x)[Len(s) + 1] = x
<1> DEFINE S == {s[n] : n \in DOMAIN s} \cup {x}
           t == Append(s, x)
<1>1. s \in Seq(S) /\ x \in S /\ Len(s) \in Nat
  BY SeqIs DEF IsSeq
<1> HIDE DEF S
<1>2. /\ t \in Seq(S) /\ Len(t) = Len(s) + 1 /\ t[Len(s) + 1] = x
      /\ \A n \in 1..Len(s) : t[n] = s[n]
  BY <1>1, AppendProperties
<1> HIDE DEF t
<1>3. DOMAIN t = 1..Len(t) /\ t = [n \in 1..Len(t) |-> t[n]] /\ Len(t) \in Nat
  BY <1>2
<1>4. IsSeq(t)
  BY <1>3, IsSeqOf
<1>5. QED
  BY <1>2, <1>3, <1>4 DEF t

\* Two sequences, one after the other.
LEMMA SeqConcat ==
    ASSUME NEW s, IsSeq(s), NEW t, IsSeq(t)
    PROVE  /\ IsSeq(s \o t) /\ Len(s \o t) = Len(s) + Len(t)
           /\ \A n \in 1..Len(s) : (s \o t)[n] = s[n]
           /\ \A n \in 1..Len(t) : (s \o t)[Len(s) + n] = t[n]
           /\ \A n \in DOMAIN (s \o t) :
                 n \in 1..Len(s) \/ (n > Len(s) /\ n - Len(s) \in 1..Len(t))
<1> DEFINE S == {s[n] : n \in DOMAIN s} \cup {t[n] : n \in DOMAIN t}
           u == s \o t
<1>1. s \in Seq(S) /\ t \in Seq(S) /\ Len(s) \in Nat /\ Len(t) \in Nat
  BY SeqIs DEF IsSeq
<1> HIDE DEF S
<1>2. /\ u \in Seq(S) /\ Len(u) = Len(s) + Len(t)
      /\ \A n \in 1..Len(u) : u[n] = IF n <= Len(s) THEN s[n] ELSE t[n - Len(s)]
  BY <1>1, ConcatProperties
<1> HIDE DEF u
<1>3. DOMAIN u = 1..Len(u) /\ u = [n \in 1..Len(u) |-> u[n]] /\ Len(u) \in Nat
  BY <1>2
<1>4. IsSeq(u)
  BY <1>3, IsSeqOf
<1>5. \A n \in 1..Len(s) : u[n] = s[n]
  BY <1>1, <1>2
<1>6. ASSUME NEW n \in 1..Len(t) PROVE u[Len(s) + n] = t[n]
  <2>1. Len(s) + n \in 1..Len(u) /\ ~(Len(s) + n <= Len(s)) /\ (Len(s) + n) - Len(s) = n
    BY <1>1, <1>2
  <2>2. QED
    BY <1>2, <2>1
<1>7. \A n \in DOMAIN u : n \in 1..Len(s) \/ (n > Len(s) /\ n - Len(s) \in 1..Len(t))
  BY <1>1, <1>2, <1>3
<1>8. QED
  BY <1>2, <1>4, <1>5, <1>6, <1>7 DEF u

-----------------------------------------------------------------------------
(* Flattening.  The sums of a sequence of sequences are determined from    *)
(* the first on: a first sum that is not, or that two functions disagree   *)
(* on, would be the least of a set of numbers.                             *)

\* A set of numbers has a least one.
LEMMA Least ==
    ASSUME NEW T \in SUBSET Nat, T # {}
    PROVE  \E n \in T : \A m \in T : n <= m
<1>1. PICK n \in T : \A m \in T : ~(<<m, n>> \in OpToRel(<, Nat))
  BY NatLessThanWellFounded, WFMin, Zenon
<1>2. \A m \in T : ~(m < n)
  BY <1>1 DEF OpToRel
<1>3. QED
  BY <1>2

\* g sums up ss: its i-th value is the first i sequences joined.
Sums(ss, g) ==
    \A i \in DOMAIN ss : g[i] = IF i = 1 THEN ss[i] ELSE g[i - 1] \o ss[i]

\* Two functions that sum the same sequences agree.
LEMMA SumsAgree ==
    ASSUME NEW ss, NEW g, NEW h, NEW n \in Nat, DOMAIN ss = 1..n,
           Sums(ss, g), Sums(ss, h)
    PROVE  \A i \in 1..n : g[i] = h[i]
<1> DEFINE T == {i \in 1..n : g[i] # h[i]}
<1> SUFFICES ASSUME T # {} PROVE FALSE
  OBVIOUS
<1>0. T \in SUBSET Nat
  OBVIOUS
<1>1. PICK i \in T : \A m \in T : i <= m
  <2> HIDE DEF T
  <2> QED BY <1>0, Least
<1>2. i = 1 \/ i - 1 \in 1..n
  OBVIOUS
<1>3. i - 1 \notin T
  BY <1>1
<1>4. QED
  BY <1>2, <1>3 DEF Sums

\* Some function sums them.
LEMMA SumsExist ==
    ASSUME NEW D, NEW ss \in Seq(Seq(D))
    PROVE  \E g \in [DOMAIN ss -> Seq(D)] : Sums(ss, g)
<1> DEFINE Up(n, g) == \A i \in 1..n : g[i] = IF i = 1 THEN ss[i] ELSE g[i - 1] \o ss[i]
           T == {n \in 0..Len(ss) : ~\E g \in [1..n -> Seq(D)] : Up(n, g)}
<1>0. Len(ss) \in Nat /\ \A i \in 1..Len(ss) : ss[i] \in Seq(D)
  OBVIOUS
<1>1. ASSUME T # {} PROVE FALSE
  <2>0. T \in SUBSET Nat
    OBVIOUS
  <2>1. PICK n \in T : \A m \in T : n <= m
    <3> HIDE DEF T
    <3> QED BY <1>1, <2>0, Least
  <2>2. n # 0
    <3>1. [i \in 1..0 |-> <<>>] \in [1..0 -> Seq(D)] /\ Up(0, [i \in 1..0 |-> <<>>])
      OBVIOUS
    <3>2. QED
      BY <3>1
  <2>3. PICK g \in [1..(n - 1) -> Seq(D)] : Up(n - 1, g)
    <3>0. n \in Nat /\ n <= Len(ss)
      OBVIOUS
    <3>1. n - 1 \in 0..Len(ss) /\ n - 1 \notin T
      <4>1. n - 1 \in 0..Len(ss) /\ ~(n <= n - 1)
        BY <1>0, <2>2, <3>0
      <4> HIDE DEF T
      <4> QED BY <2>1, <4>1
    <3>2. QED
      BY <3>1
  <2>4. n \in 1..Len(ss)
    BY <1>0, <2>2
  <2> DEFINE h == [i \in 1..n |-> IF i = n THEN IF n = 1 THEN ss[n] ELSE g[n - 1] \o ss[n] ELSE g[i]]
  <2>5. h \in [1..n -> Seq(D)]
    <3>1. n # 1 => g[n - 1] \o ss[n] \in Seq(D)
      BY <1>0, <2>3, <2>4
    <3>2. QED
      BY <1>0, <2>4, <3>1
  <2>6. Up(n, h)
    <3>1. ASSUME NEW i \in 1..n PROVE h[i] = IF i = 1 THEN ss[i] ELSE h[i - 1] \o ss[i]
      <4>1. i # 1 => i - 1 \in 1..n /\ i - 1 # n
        BY <2>4
      <4>2. i # n => i \in 1..(n - 1)
        BY <2>4
      <4>3. CASE i = n
        BY <2>4, <4>1, <4>3
      <4>4. CASE i # n
        BY <2>3, <4>1, <4>2, <4>4
      <4>5. QED
        BY <4>3, <4>4
    <3>2. QED
      BY <3>1
  <2>7. QED
    BY <2>5, <2>6
<1>2. Len(ss) \notin T
  BY <1>1
<1>3. PICK g \in [1..Len(ss) -> Seq(D)] : Up(Len(ss), g)
  BY <1>0, <1>2
<1>4. DOMAIN ss = 1..Len(ss)
  OBVIOUS
<1>5. QED
  BY <1>3, <1>4 DEF Sums

\* FlattenSeq is the last sum.
LEMMA FlattenIs ==
    ASSUME NEW D, NEW ss \in Seq(Seq(D)), ss # <<>>,
           NEW g \in [DOMAIN ss -> Seq(D)], Sums(ss, g)
    PROVE  FlattenSeq(ss) = g[Len(ss)]
<1> DEFINE Is(f) == f = [i \in 1..Len(ss) |-> IF i = 1 THEN ss[i] ELSE f[i - 1] \o ss[i]]
           h == CHOOSE f : Is(f)
<1>1. FlattenSeq(ss) = h[Len(ss)]
  BY DEF FlattenSeq
<1>2. DOMAIN ss = 1..Len(ss) /\ Len(ss) \in Nat /\ Len(ss) # 0
  OBVIOUS
<1>3. Is(g)
  BY <1>2 DEF Sums
<1>4. Is(h)
  BY <1>3
<1> HIDE DEF h
<1>5. Sums(ss, h)
  BY <1>2, <1>4 DEF Sums
<1>6. g[Len(ss)] = h[Len(ss)]
  <2>1. \A i \in 1..Len(ss) : g[i] = h[i]
    BY <1>2, <1>5, SumsAgree
  <2>2. QED
    BY <1>2, <2>1
<1>7. QED
  BY <1>1, <1>6

\* One more sequence is appended.
LEMMA FlattenAppend ==
    ASSUME NEW D, NEW ss \in Seq(Seq(D)), NEW s \in Seq(D)
    PROVE  /\ FlattenSeq(ss) \in Seq(D)
           /\ FlattenSeq(Append(ss, s)) = FlattenSeq(ss) \o s
<1> DEFINE tt == Append(ss, s)
<1>0. /\ tt \in Seq(Seq(D)) /\ Len(tt) = Len(ss) + 1 /\ tt[Len(tt)] = s /\ tt # <<>>
      /\ Len(ss) \in Nat /\ DOMAIN ss = 1..Len(ss) /\ DOMAIN tt = 1..Len(tt)
      /\ \A i \in 1..Len(ss) : tt[i] = ss[i]
  BY AppendProperties
<1> HIDE DEF tt
<1>1. PICK h \in [DOMAIN tt -> Seq(D)] : Sums(tt, h)
  BY <1>0, SumsExist
<1>2. FlattenSeq(tt) = h[Len(tt)]
  BY <1>0, <1>1, FlattenIs
<1>3. CASE ss = <<>>
  <2>1. FlattenSeq(ss) = <<>> /\ Len(ss) = 0
    BY <1>3 DEF FlattenSeq
  <2>2. h[Len(tt)] = s
    BY <1>0, <1>1, <2>1 DEF Sums
  <2>3. <<>> \o s = s
    OBVIOUS
  <2>4. QED
    BY <1>2, <2>1, <2>2, <2>3 DEF tt
<1>4. CASE ss # <<>>
  <2>1. PICK g \in [DOMAIN ss -> Seq(D)] : Sums(ss, g)
    BY SumsExist
  <2>2. FlattenSeq(ss) = g[Len(ss)] /\ g[Len(ss)] \in Seq(D)
    <3>1. Len(ss) \in 1..Len(ss)
      BY <1>4
    <3>2. FlattenSeq(ss) = g[Len(ss)]
      BY <1>4, <2>1, FlattenIs
    <3>3. QED
      BY <1>0, <3>1, <3>2
  <2>3. Sums(ss, h)
    <3>1. ASSUME NEW i \in DOMAIN ss PROVE h[i] = IF i = 1 THEN ss[i] ELSE h[i - 1] \o ss[i]
      <4>1. i \in 1..Len(ss) /\ i \in DOMAIN tt /\ tt[i] = ss[i]
        BY <1>0
      <4>2. QED
        BY <1>1, <4>1 DEF Sums
    <3>2. QED
      BY <3>1 DEF Sums
  <2>4. g[Len(ss)] = h[Len(ss)]
    <3>1. \A i \in 1..Len(ss) : g[i] = h[i]
      <4>1. Len(ss) \in Nat /\ DOMAIN ss = 1..Len(ss)
        BY <1>0
      <4>2. QED
        BY <2>1, <2>3, <4>1, SumsAgree
    <3>2. QED
      BY <1>0, <1>4, <3>1
  <2>5. h[Len(tt)] = h[Len(ss)] \o s
    <3>1. Len(tt) \in DOMAIN tt /\ Len(tt) # 1 /\ Len(tt) - 1 = Len(ss)
      BY <1>0, <1>4
    <3>2. QED
      BY <1>0, <1>1, <3>1 DEF Sums
  <2>6. QED
    BY <1>2, <2>2, <2>4, <2>5 DEF tt
<1>5. QED
  BY <1>3, <1>4

\* FlattenSeq of two sequences of sequences is of one after the other.
LEMMA FlattenConcat ==
    ASSUME NEW D, NEW ss \in Seq(Seq(D)), NEW tt \in Seq(Seq(D))
    PROVE  FlattenSeq(ss \o tt) = FlattenSeq(ss) \o FlattenSeq(tt)
<1> DEFINE Up(n) == SubSeq(tt, 1, n)
           T == {n \in 0..Len(tt) : FlattenSeq(ss \o Up(n)) # FlattenSeq(ss) \o FlattenSeq(Up(n))}
<1>0. Len(tt) \in Nat /\ \A i \in 1..Len(tt) : tt[i] \in Seq(D)
  OBVIOUS
<1>1. \A n \in 0..Len(tt) : Up(n) \in Seq(Seq(D)) /\ Len(Up(n)) = n
  BY <1>0
<1>2. ASSUME NEW n \in 1..Len(tt)
      PROVE  /\ Up(n) = Append(Up(n - 1), tt[n])
             /\ ss \o Up(n) = Append(ss \o Up(n - 1), tt[n])
  <2>1. Up(n) = Append(Up(n - 1), tt[n])
    BY <1>0, <1>1
  <2>2. n - 1 \in 0..Len(tt)
    BY <1>0
  <2>3. \A u \in Seq(Seq(D)), x \in Seq(D) : ss \o Append(u, x) = Append(ss \o u, x)
    BY SMTT(20)
  <2> HIDE DEF Up
  <2>4. QED
    BY <1>0, <1>1, <2>1, <2>2, <2>3
<1>3. FlattenSeq(ss \o Up(0)) = FlattenSeq(ss) \o FlattenSeq(Up(0))
  <2>1. Up(0) = <<>> /\ FlattenSeq(<<>>) = <<>>
    BY <1>0 DEF FlattenSeq
  <2>2. FlattenSeq(ss) \in Seq(D) /\ <<>> \in Seq(D)
    BY FlattenAppend
  <2>3. \A u \in Seq(D) : u \o <<>> = u
    OBVIOUS
  <2>4. ss \o <<>> = ss
    OBVIOUS
  <2> HIDE DEF Up
  <2>5. QED
    BY <2>1, <2>2, <2>3, <2>4
<1>4. ASSUME T # {} PROVE FALSE
  <2>0. T \in SUBSET Nat
    OBVIOUS
  <2>1. PICK n \in T : \A m \in T : n <= m
    <3> HIDE DEF T
    <3> QED BY <1>4, <2>0, Least
  <2>2. n \in 0..Len(tt) /\ FlattenSeq(ss \o Up(n)) # FlattenSeq(ss) \o FlattenSeq(Up(n))
    OBVIOUS
  <2>3. n # 0
    BY <1>3, <2>2
  <2>4. n \in 1..Len(tt) /\ n - 1 \in 0..Len(tt) /\ ~(n <= n - 1)
    BY <1>0, <2>2, <2>3
  <2>5. FlattenSeq(ss \o Up(n - 1)) = FlattenSeq(ss) \o FlattenSeq(Up(n - 1))
    <3>1. n - 1 \notin T
      <4> HIDE DEF T
      <4> QED BY <2>1, <2>4
    <3>2. QED
      BY <2>4, <3>1
  <2> HIDE DEF T, Up
  <2>6. /\ Up(n - 1) \in Seq(Seq(D)) /\ tt[n] \in Seq(D)
        /\ ss \o Up(n - 1) \in Seq(Seq(D))
    BY <1>0, <1>1, <2>4
  <2>7. FlattenSeq(ss \o Up(n)) = FlattenSeq(ss \o Up(n - 1)) \o tt[n]
    BY <1>2, <2>4, <2>6, FlattenAppend
  <2>8. FlattenSeq(Up(n)) = FlattenSeq(Up(n - 1)) \o tt[n]
    BY <1>2, <2>4, <2>6, FlattenAppend
  <2>9. FlattenSeq(ss) \in Seq(D) /\ FlattenSeq(Up(n - 1)) \in Seq(D)
    BY <2>6, FlattenAppend
  <2>10. \A u, v, w \in Seq(D) : (u \o v) \o w = u \o (v \o w)
    BY SMTT(20)
  <2>11. (FlattenSeq(ss) \o FlattenSeq(Up(n - 1))) \o tt[n]
           = FlattenSeq(ss) \o (FlattenSeq(Up(n - 1)) \o tt[n])
    BY <2>6, <2>9, <2>10
  <2>12. FlattenSeq(ss \o Up(n)) = FlattenSeq(ss) \o FlattenSeq(Up(n))
    BY <2>5, <2>7, <2>8, <2>11
  <2>13. QED
    BY <2>2, <2>12
<1>5. Len(tt) \notin T /\ Up(Len(tt)) = tt
  <2>1. Len(tt) \notin T
    BY <1>4
  <2>2. Up(Len(tt)) = tt
    BY <1>0
  <2>3. QED
    BY <2>1, <2>2
<1>6. Len(tt) \in 0..Len(tt)
  BY <1>0
<1>7. FlattenSeq(ss \o Up(Len(tt))) = FlattenSeq(ss) \o FlattenSeq(Up(Len(tt)))
  <2> HIDE DEF Up
  <2> QED BY <1>5, <1>6
<1>8. QED
  BY <1>5, <1>7

\* Functions of the first numbers to sequences: one more value.
LEMMA FlattenMore ==
    ASSUME NEW D, NEW n \in Nat, NEW f \in [1..n -> Seq(D)], NEW g \in [1..(n + 1) -> Seq(D)],
           \A i \in 1..n : g[i] = f[i]
    PROVE  FlattenSeq(f) \in Seq(D) /\ FlattenSeq(g) = FlattenSeq(f) \o g[n + 1]
<1>1. f \in Seq(Seq(D)) /\ g[n + 1] \in Seq(D)
  OBVIOUS
<1>2. g = Append(f, g[n + 1])
  OBVIOUS
<1>3. QED
  BY <1>1, <1>2, FlattenAppend

\* Of empty sequences there is nothing to join.
LEMMA FlattenNone ==
    ASSUME NEW n \in Nat, NEW f, f = [i \in 1..n |-> <<>>]
    PROVE  FlattenSeq(f) = <<>>
<1>1. f \in Seq(Seq({})) /\ <<>> \in Seq({})
  OBVIOUS
<1>2. FlattenSeq(f) \in Seq({})
  BY <1>1, FlattenAppend
<1>3. \A s \in Seq({}) : s = <<>>
  OBVIOUS
<1>4. QED
  BY <1>2, <1>3

-----------------------------------------------------------------------------
(* What one more chunk, or item, adds.                                     *)

\* A chunk of choices carries one of the deltas; another neither text nor part.
LEMMA ChunkIs ==
    ASSUME NEW chunk \in Gate!StreamChunks
    PROVE  /\ chunk.choices \in BOOLEAN /\ chunk.finish \in BOOLEAN
           /\ chunk.choices => chunk.delta \in Deltas
           /\ ~chunk.choices => /\ chunk.delta.text = "none" /\ chunk.delta.part = None
                               /\ ~chunk.finish
           /\ chunk.delta.text \in Gate!Kinds
           /\ chunk.delta \in Deltas \/ chunk.delta.part = None
<1>1. CASE chunk \in [choices : {TRUE}, delta : Deltas, finish : BOOLEAN]
  <2>1. chunk.choices = TRUE /\ chunk.delta \in Deltas /\ chunk.finish \in BOOLEAN
    BY <1>1
  <2>2. chunk.delta.text \in Gate!Kinds
    BY <2>1, GateAssumption
  <2>3. chunk.choices \in BOOLEAN /\ (~chunk.choices <=> FALSE)
    BY <2>1
  <2>4. QED
    BY <2>1, <2>2, <2>3
<1>2. CASE chunk = [choices |-> FALSE, delta |-> [text |-> "none", part |-> None], finish |-> FALSE]
  <2>1. /\ chunk.choices = FALSE /\ chunk.finish = FALSE
        /\ chunk.delta = [text |-> "none", part |-> None]
    BY <1>2
  <2>2. chunk.delta.text = "none" /\ chunk.delta.part = None
    BY <2>1
  <2>3. chunk.choices \in BOOLEAN /\ chunk.finish \in BOOLEAN
    BY <2>1
  <2>4. (chunk.choices <=> FALSE) /\ (chunk.finish <=> FALSE)
    BY <2>1, Zenon
  <2>5. "none" \in Gate!Kinds
    BY DEF Gate!Kinds
  <2>6. QED
    BY <2>2, <2>3, <2>4, <2>5
<1>3. QED
  BY <1>1, <1>2 DEF Gate!StreamChunks

\* The pieces of a chunk are sequences of strings.
LEMMA PieceIs ==
    ASSUME NEW chunk \in Gate!StreamChunks, NEW i, NEW field \in {"name", "args"}
    PROVE  Piece(chunk, i, field) \in Seq(STRING)
<1>1. chunk.delta \in Deltas \/ chunk.delta.part = None
  BY ChunkIs
<1>2. <<>> \in Seq(STRING)
  OBVIOUS
<1>3. QED
  BY <1>1, <1>2, GateAssumption DEF Piece

\* A call's name and arguments grow by the pieces of the chunk.
LEMMA PiecesAppend ==
    ASSUME NEW chunks \in Seq(Gate!StreamChunks), NEW chunk \in Gate!StreamChunks,
           NEW i, NEW field \in {"name", "args"}
    PROVE  /\ Pieces(chunks, i, field) \in Seq(STRING)
           /\ Pieces(Append(chunks, chunk), i, field)
                = Pieces(chunks, i, field) \o Piece(chunk, i, field)
<1> DEFINE f == [n \in DOMAIN chunks |-> Piece(chunks[n], i, field)]
           more == Append(chunks, chunk)
           g == [n \in DOMAIN more |-> Piece(more[n], i, field)]
<1>1. /\ Len(chunks) \in Nat /\ DOMAIN chunks = 1..Len(chunks) /\ DOMAIN more = 1..(Len(chunks) + 1)
      /\ \A n \in 1..Len(chunks) : more[n] = chunks[n] /\ chunks[n] \in Gate!StreamChunks
      /\ more[Len(chunks) + 1] = chunk
  BY AppendProperties
<1> HIDE DEF more
<1>2. \A n \in 1..(Len(chunks) + 1) : more[n] \in Gate!StreamChunks
  BY <1>1
<1>3. f \in [1..Len(chunks) -> Seq(STRING)] /\ g \in [1..(Len(chunks) + 1) -> Seq(STRING)]
  BY <1>1, <1>2, PieceIs
<1>4. \A n \in 1..Len(chunks) : g[n] = f[n]
  BY <1>1
<1>5. g[Len(chunks) + 1] = Piece(chunk, i, field)
  BY <1>1
<1> HIDE DEF f, g
<1>6. FlattenSeq(f) \in Seq(STRING) /\ FlattenSeq(g) = FlattenSeq(f) \o g[Len(chunks) + 1]
  BY <1>1, <1>3, <1>4, FlattenMore
<1>7. QED
  BY <1>5, <1>6 DEF f, g, more, Pieces

\* A call no chunk speaks of has no pieces.
LEMMA NoPieces ==
    ASSUME NEW chunks \in Seq(Gate!StreamChunks), NEW i, NEW field, i \notin IndicesIn(chunks)
    PROVE  Pieces(chunks, i, field) = <<>>
<1>1. Len(chunks) \in Nat /\ DOMAIN chunks = 1..Len(chunks)
  OBVIOUS
<1>2. \A n \in DOMAIN chunks : Piece(chunks[n], i, field) = <<>>
  BY DEF Piece, IndicesIn
<1>3. [n \in DOMAIN chunks |-> Piece(chunks[n], i, field)] = [n \in 1..Len(chunks) |-> <<>>]
  BY <1>1, <1>2
<1>4. QED
  BY <1>1, <1>3, FlattenNone DEF Pieces

\* The chunk's own call, if it has a part of one, joins the calls.
LEMMA IndicesAppend ==
    ASSUME NEW chunks \in Seq(Gate!StreamChunks), NEW chunk \in Gate!StreamChunks
    PROVE  IndicesIn(Append(chunks, chunk))
             = IndicesIn(chunks) \cup
               (IF chunk.delta.part = None THEN {} ELSE {chunk.delta.part.index})
<1> DEFINE more == Append(chunks, chunk)
<1>1. /\ Len(chunks) \in Nat /\ DOMAIN chunks = 1..Len(chunks) /\ DOMAIN more = 1..(Len(chunks) + 1)
      /\ \A n \in 1..Len(chunks) : more[n] = chunks[n]
      /\ more[Len(chunks) + 1] = chunk
  BY AppendProperties
<1> HIDE DEF more
<1>2. ASSUME NEW i \in IndicesIn(more)
      PROVE  i \in IndicesIn(chunks) \/ (chunk.delta.part # None /\ i = chunk.delta.part.index)
  <2>1. PICK n \in DOMAIN more : more[n].delta.part # None /\ i = more[n].delta.part.index
    BY <1>2 DEF IndicesIn
  <2>2. n \in 1..Len(chunks) \/ n = Len(chunks) + 1
    BY <1>1
  <2>3. QED
    BY <1>1, <2>1, <2>2 DEF IndicesIn
<1>3. ASSUME NEW i \in IndicesIn(chunks) PROVE i \in IndicesIn(more)
  <2>1. PICK n \in DOMAIN chunks : chunks[n].delta.part # None /\ i = chunks[n].delta.part.index
    BY <1>3 DEF IndicesIn
  <2>2. n \in DOMAIN more /\ more[n] = chunks[n]
    BY <1>1
  <2>3. QED
    BY <2>1, <2>2 DEF IndicesIn
<1>4. chunk.delta.part # None => chunk.delta.part.index \in IndicesIn(more)
  <2>1. Len(chunks) + 1 \in DOMAIN more
    BY <1>1
  <2>2. QED
    BY <1>1, <2>1 DEF IndicesIn
<1>5. QED
  BY <1>2, <1>3, <1>4 DEF more

\* The chunk's text, if it has one, joins the texts.
LEMMA SentAppend ==
    ASSUME NEW chunks \in Seq(Gate!StreamChunks), NEW chunk \in Gate!StreamChunks,
           NEW withheld \in BOOLEAN
    PROVE  /\ Sent(chunks, withheld) \in Seq(Marks)
           /\ Text(Len(chunks) + 1, chunk, withheld) \in Seq(Marks)
           /\ Sent(Append(chunks, chunk), withheld)
                = Sent(chunks, withheld) \o Text(Len(chunks) + 1, chunk, withheld)
<1> DEFINE f == [n \in DOMAIN chunks |-> Text(n, chunks[n], withheld)]
           more == Append(chunks, chunk)
           g == [n \in DOMAIN more |-> Text(n, more[n], withheld)]
<1>1. /\ Len(chunks) \in Nat /\ DOMAIN chunks = 1..Len(chunks) /\ DOMAIN more = 1..(Len(chunks) + 1)
      /\ \A n \in 1..Len(chunks) : more[n] = chunks[n] /\ chunks[n] \in Gate!StreamChunks
      /\ more[Len(chunks) + 1] = chunk
  BY AppendProperties
<1>2. ASSUME NEW c \in Gate!StreamChunks, NEW n \in Nat PROVE Text(n, c, withheld) \in Seq(Marks)
  <2>1. <<n, c.delta.text>> \in Marks
    BY ChunkIs DEF Marks
  <2>2. <<<<n, c.delta.text>>>> \in Seq(Marks) /\ <<>> \in Seq(Marks)
    BY <2>1
  <2>3. QED
    BY <2>2 DEF Text
<1> HIDE DEF more
<1>3. \A n \in 1..(Len(chunks) + 1) : more[n] \in Gate!StreamChunks
  BY <1>1
<1>4. f \in [1..Len(chunks) -> Seq(Marks)] /\ g \in [1..(Len(chunks) + 1) -> Seq(Marks)]
  <2>1. \A n \in 1..Len(chunks) : Text(n, chunks[n], withheld) \in Seq(Marks)
    BY <1>1, <1>2
  <2>2. \A n \in 1..(Len(chunks) + 1) : Text(n, more[n], withheld) \in Seq(Marks)
    BY <1>1, <1>2, <1>3
  <2>3. QED
    BY <1>1, <2>1, <2>2
<1>5. \A n \in 1..Len(chunks) : g[n] = f[n]
  BY <1>1
<1>6. g[Len(chunks) + 1] = Text(Len(chunks) + 1, chunk, withheld)
  BY <1>1
<1> HIDE DEF f, g
<1>7. FlattenSeq(f) \in Seq(Marks) /\ FlattenSeq(g) = FlattenSeq(f) \o g[Len(chunks) + 1]
  BY <1>1, <1>4, <1>5, FlattenMore
<1>8. Text(Len(chunks) + 1, chunk, withheld) \in Seq(Marks)
  BY <1>1, <1>2
<1>9. QED
  BY <1>6, <1>7, <1>8 DEF f, g, more, Sent

\* Items whose chunks have a place and a text.
Speaks(item) == item.kind = "chunk" => item.place \in Nat /\ item.text \in Gate!Kinds
AllSpeak(items) == IsSeq(items) /\ \A n \in DOMAIN items : Speaks(items[n])

\* An item says one text at most.
LEMMA SaidIs ==
    ASSUME NEW item, Speaks(item), NEW t
    PROVE  Said(item, t) \in Seq(Marks)
<1>1. item.kind = "chunk" => <<item.place, item.text>> \in Marks
  BY DEF Speaks, Marks
<1>2. \A m \in Marks : <<m>> \in Seq(Marks)
  OBVIOUS
<1>3. <<>> \in Seq(Marks)
  OBVIOUS
<1>4. QED
  BY <1>1, <1>2, <1>3 DEF Said

\* The texts of one more item.
LEMMA TextsAppend ==
    ASSUME NEW items, AllSpeak(items), NEW item, Speaks(item), NEW t
    PROVE  /\ AllSpeak(Append(items, item))
           /\ Texts(items, t) \in Seq(Marks)
           /\ Texts(Append(items, item), t) = Texts(items, t) \o Said(item, t)
<1> DEFINE f == [n \in DOMAIN items |-> Said(items[n], t)]
           more == Append(items, item)
           g == [n \in DOMAIN more |-> Said(more[n], t)]
<1>1. /\ Len(items) \in Nat /\ DOMAIN items = 1..Len(items) /\ DOMAIN more = 1..(Len(items) + 1)
      /\ \A n \in 1..Len(items) : more[n] = items[n]
      /\ more[Len(items) + 1] = item /\ IsSeq(more)
  BY SeqIs, SeqAppend DEF AllSpeak
<1> HIDE DEF more
<1>2. \A n \in 1..(Len(items) + 1) : Speaks(more[n])
  BY <1>1 DEF AllSpeak
<1>3. f \in [1..Len(items) -> Seq(Marks)] /\ g \in [1..(Len(items) + 1) -> Seq(Marks)]
  BY <1>1, <1>2, SaidIs DEF AllSpeak
<1>4. \A n \in 1..Len(items) : g[n] = f[n]
  BY <1>1
<1>5. g[Len(items) + 1] = Said(item, t)
  BY <1>1
<1> HIDE DEF f, g
<1>6. FlattenSeq(f) \in Seq(Marks) /\ FlattenSeq(g) = FlattenSeq(f) \o g[Len(items) + 1]
  BY <1>1, <1>3, <1>4, FlattenMore
<1>7. AllSpeak(more)
  BY <1>1, <1>2 DEF AllSpeak
<1>8. QED
  BY <1>5, <1>6, <1>7 DEF f, g, more, Texts

\* The texts of two sequences of items, one after the other.
LEMMA TextsConcat ==
    ASSUME NEW items, AllSpeak(items), NEW more, AllSpeak(more), NEW t
    PROVE  Texts(items \o more, t) = Texts(items, t) \o Texts(more, t)
<1> DEFINE all == items \o more
           f == [n \in DOMAIN items |-> Said(items[n], t)]
           g == [n \in DOMAIN more |-> Said(more[n], t)]
           h == [n \in DOMAIN all |-> Said(all[n], t)]
<1>1. /\ Len(items) \in Nat /\ DOMAIN items = 1..Len(items)
      /\ Len(more) \in Nat /\ DOMAIN more = 1..Len(more)
      /\ DOMAIN all = 1..(Len(items) + Len(more))
      /\ \A n \in 1..Len(items) : all[n] = items[n]
      /\ \A n \in 1..Len(more) : all[Len(items) + n] = more[n]
  <2>1. IsSeq(items) /\ IsSeq(more)
    BY DEF AllSpeak
  <2>2. IsSeq(all) /\ Len(all) = Len(items) + Len(more)
    BY <2>1, SeqConcat
  <2>3. DOMAIN all = 1..(Len(items) + Len(more))
    <3> HIDE DEF all
    <3> QED BY <2>2, SeqIs
  <2>4. /\ Len(items) \in Nat /\ DOMAIN items = 1..Len(items)
        /\ Len(more) \in Nat /\ DOMAIN more = 1..Len(more)
    BY <2>1, SeqIs
  <2>5. /\ \A n \in 1..Len(items) : all[n] = items[n]
        /\ \A n \in 1..Len(more) : all[Len(items) + n] = more[n]
    BY <2>1, SeqConcat
  <2>6. QED
    BY <2>3, <2>4, <2>5
<1> HIDE DEF all
<1>2. f \in [1..Len(items) -> Seq(Marks)] /\ g \in [1..Len(more) -> Seq(Marks)]
  BY <1>1, SaidIs DEF AllSpeak
<1>3. f \in Seq(Seq(Marks)) /\ g \in Seq(Seq(Marks))
      /\ Len(f) = Len(items) /\ Len(g) = Len(more)
  BY <1>1, <1>2
<1>4. h = f \o g
  <2>1. DOMAIN h = 1..(Len(items) + Len(more)) /\ h = [n \in 1..(Len(items) + Len(more)) |-> h[n]]
    BY <1>1
  <2>2. \A n \in 1..Len(items) : h[n] = f[n]
    BY <1>1
  <2>3. ASSUME NEW n \in 1..(Len(items) + Len(more)), ~(n <= Len(items)) PROVE h[n] = g[n - Len(items)]
    <3>1. n - Len(items) \in 1..Len(more) /\ n = Len(items) + (n - Len(items))
      BY <1>1, <2>3
    <3>2. all[n] = more[n - Len(items)]
      BY <1>1, <3>1
    <3>3. QED
      BY <1>1, <3>1, <3>2
  <2> HIDE DEF f, g, h
  <2>4. /\ f \o g \in Seq(Seq(Marks)) /\ Len(f \o g) = Len(items) + Len(more)
        /\ \A n \in 1..Len(f \o g) : (f \o g)[n] = IF n <= Len(items) THEN f[n] ELSE g[n - Len(items)]
    <3> DEFINE S == Seq(Marks)
    <3> HIDE DEF S
    <3>1. f \in Seq(S) /\ g \in Seq(S)
      BY <1>3 DEF S
    <3>2. /\ f \o g \in Seq(S) /\ Len(f \o g) = Len(f) + Len(g)
          /\ \A n \in 1..(Len(f) + Len(g)) : (f \o g)[n] = IF n <= Len(f) THEN f[n] ELSE g[n - Len(f)]
      BY <3>1, ConcatProperties
    <3>3. QED
      BY <1>3, <3>2 DEF S
  <2>5. \A n \in 1..(Len(items) + Len(more)) :
           h[n] = IF n <= Len(items) THEN f[n] ELSE g[n - Len(items)]
    BY <1>1, <2>2, <2>3
  <2> DEFINE k == f \o g
  <2> HIDE DEF k
  <2>6. DOMAIN k = 1..(Len(items) + Len(more)) /\ k = [n \in 1..(Len(items) + Len(more)) |-> k[n]]
    <3>1. k \in Seq(Seq(Marks)) /\ Len(k) = Len(items) + Len(more)
      BY <2>4 DEF k
    <3>2. QED
      BY <1>1, <3>1
  <2>7. \A n \in 1..(Len(items) + Len(more)) : k[n] = h[n]
    BY <2>4, <2>5 DEF k
  <2>8. k = h
    BY <2>1, <2>6, <2>7
  <2>9. QED
    BY <2>8 DEF k
<1> HIDE DEF f, g, h
<1>5. FlattenSeq(f \o g) = FlattenSeq(f) \o FlattenSeq(g)
  BY <1>3, FlattenConcat
<1>6. QED
  BY <1>4, <1>5 DEF all, f, g, h, Texts

\* Items of other turns than t say nothing of it.
LEMMA NoTexts ==
    ASSUME NEW items, IsSeq(items), NEW t,
           \A n \in DOMAIN items : items[n].kind = "chunk" => items[n].turn # t
    PROVE  Texts(items, t) = <<>>
<1>1. Len(items) \in Nat /\ DOMAIN items = 1..Len(items)
  BY SeqIs
<1>2. [n \in DOMAIN items |-> Said(items[n], t)] = [n \in 1..Len(items) |-> <<>>]
  BY <1>1 DEF Said
<1>3. QED
  BY <1>1, <1>2, FlattenNone DEF Texts

-----------------------------------------------------------------------------
(* The invariant of the gate.                                              *)

\* Until one of these nothing was decided; after one of those a last line is due.
Reading == {"raw", "head", "read", "whole"}
Open == {"receive", "repair"} \cup Reading
Judged == {"passed", "repaired", "unrepaired"}
Ended == Judged \cup {"error"}

\* The log once it has its line, and the first turn's violations.
Logged(result) == log = <<[outcome |-> result, found |-> found]>>
FirstBroken == BrokenIn(req.stream, arrived[1])

\* Where the handler is goes with the turn, the kind of request, and the log.
GatePhase ==
    /\ req \in Gate!Requests /\ turn \in {0, 1, 2}
    /\ pc \in Open \cup Ended \cup {"done", "broken"}
    /\ pc = "receive" => turn = 0
    /\ pc \in Reading \cup Ended => turn # 0
    /\ pc = "repair" => turn = 1
    /\ turn = 2 \/ pc \in {"head", "read", "whole", "repair"} \cup Ended => Gate!Checked
    /\ pc \in {"head", "read"} \cup Ended => req.stream
    /\ pc = "whole" => ~req.stream
    /\ pc \in Open => log = <<>>
    /\ pc \in Ended => Logged(pc)
    /\ turn = 0 => log = <<>> /\ told = <<>>

\* What a chunk among the items says.
ChunkItem(item) ==
    /\ item.place \in Nat /\ item.text \in Gate!Kinds /\ item.finish \in BOOLEAN
    /\ item.turn \in 1..turn

\* The shapes of what was gathered and sent.
Shapes ==
    /\ IsSeq(arrived) /\ Len(arrived) = turn
    /\ req.stream => \A t \in 1..turn : arrived[t] \in Seq(Gate!StreamChunks)
    /\ IsSeq(held) /\ IsSeq(shown) /\ IsSeq(told)
    /\ \A n \in DOMAIN held : held[n].kind = "chunk" /\ ChunkItem(held[n]) /\ held[n].turn = turn
    /\ \A n \in DOMAIN shown : shown[n].kind = "chunk" => ChunkItem(shown[n])

\* What was gathered of the turn's calls is what its chunks hold, however they are cut.
Gathering ==
    turn # 0 =>
        /\ req.stream =>
              /\ DOMAIN gathered = IndicesIn(arrived[turn])
              /\ \A i \in DOMAIN gathered :
                    /\ gathered[i].name = Pieces(arrived[turn], i, "name")
                    /\ gathered[i].args = Pieces(arrived[turn], i, "args")
        /\ ~req.stream =>
              \/ arrived[turn] = <<>> /\ DOMAIN gathered = {}
              \/ arrived[turn] = <<gathered>> /\ gathered \in Lists

\* The first turn's violations are kept for the second, and the model is told once.
Finding ==
    /\ pc = "repair" \/ turn = 2 => found = FirstBroken /\ found # {}
    /\ pc \in Open \ {"repair"} /\ turn # 2 => found = {} /\ told = <<>>
    /\ \A k \in DOMAIN told :
          /\ told[k].calls = DOMAIN CallsIn(req.stream, arrived[1])
          /\ DOMAIN told[k].replies = told[k].calls
          /\ \A i \in FirstBroken : told[k].replies[i] = "invalid"

\* One finish chunk of a turn at most is held, and it is shown with the verdict only.
Finishing ==
    /\ ~req.stream => held = <<>>
    /\ \A n, k \in DOMAIN held : held[n].finish /\ held[k].finish => n = k
    /\ \A n \in DOMAIN held :
          held[n].finish => \E k \in 1..Len(arrived[turn]) : arrived[turn][k].finish
    /\ log = <<>> => \A n \in DOMAIN shown :
          shown[n].kind # "calls" /\ (shown[n].kind = "chunk" => ~shown[n].finish)
    /\ \A n, k \in DOMAIN shown :
          shown[n].kind = "chunk" /\ shown[k].kind = "chunk" /\ shown[n].finish /\ shown[k].finish
             => n = k /\ shown[n].turn = turn

\* The texts of a turn are shown as they come, but for those that wait with its finish chunk.
Telling ==
    /\ req.stream /\ turn # 0 /\ log = <<>> =>
          /\ Texts(shown, turn) = Sent(arrived[turn], TRUE)
          /\ Sent(arrived[turn], FALSE) = Sent(arrived[turn], TRUE) \o Texts(held, turn)
          /\ \/ Texts(held, turn) = <<>>
             \/ \E k \in 1..Len(arrived[turn]) : arrived[turn][k].finish
    /\ req.stream /\ turn = 2 => Texts(shown, 1) = Sent(arrived[1], TRUE)

\* The calls that are shown are those of the last turn, whole, ahead of its finish chunk.
Listing ==
    \A n \in DOMAIN shown : shown[n].kind = "calls" =>
        /\ shown[n].turn = turn /\ (turn = 1 => FirstBroken = {})
        /\ Named(shown[n].calls) = CallsIn(req.stream, arrived[turn])
        /\ ~req.stream => Logged(shown[n].outcome)
        /\ \A k \in DOMAIN shown :
              /\ shown[k].kind = "calls" => k = n
              /\ shown[k].kind = "chunk" /\ shown[k].finish => n < k

\* The log's line agrees with the turns as they arrived.
Logging ==
    /\ log # <<>> => \E result \in Ended :
          /\ Logged(result) /\ Gate!Checked /\ found = FirstBroken
          /\ result = "passed" <=> turn = 1
          /\ result \in {"repaired", "unrepaired"} =>
                (BrokenIn(req.stream, arrived[2]) = {} <=> result = "repaired")
    /\ \A n \in DOMAIN shown : shown[n].kind = "comment" => Logged(shown[n].outcome) /\ req.stream

\* A turn that was judged is shown whole before the last line says so.
Showing ==
    req.stream /\ (\E result \in Judged : Logged(result)) =>
        /\ Texts(shown, turn) = Sent(arrived[turn], FALSE)
        /\ IndicesIn(arrived[turn]) = {} <=> \A n \in DOMAIN shown : shown[n].kind # "calls"

GateInv ==
    /\ GatePhase /\ Shapes /\ Gathering /\ Finding /\ Finishing /\ Telling
    /\ Listing /\ Logging /\ Showing

-----------------------------------------------------------------------------
(* What each step of the gate does.                                        *)

\* It says one thing at most, of no turn's text or calls.
Quiet ==
    /\ UNCHANGED <<req, turn, arrived, gathered, held, found, told>>
    /\ \/ UNCHANGED shown
       \/ \E item :
             /\ shown' = Append(shown, item) /\ item.kind \in {"answer", "error", "comment"}
             /\ item.kind = "comment" => Logged(item.outcome) /\ req.stream /\ UNCHANGED log
    /\ \/ UNCHANGED <<pc, log>>
       \/ pc' \in {"done", "broken"} /\ UNCHANGED log
       \/ pc = "head" /\ pc' = "read" /\ UNCHANGED log
       \/ /\ turn = 2 /\ <<pc, pc'>> \in {<<"head", "error">>, <<"whole", "done">>}
          /\ log' = <<[outcome |-> "error", found |-> found]>>

\* It judges the turn, as it was gathered or as it arrives.
Judges ==
    \E bad :
       /\ pc \in {"read", "whole"} /\ UNCHANGED <<req, turn, held>>
       /\ IsSeq(arrived') /\ Len(arrived') = turn
       /\ \A t \in 1..turn : t # turn => arrived'[t] = arrived[t]
       /\ req.stream => UNCHANGED <<arrived, gathered>>
       /\ ~req.stream => arrived'[turn] = <<gathered'>> /\ gathered' \in Lists
       /\ Named(gathered') = CallsIn(req.stream, arrived'[turn])
       /\ bad = BrokenIn(req.stream, arrived'[turn])
       /\ \/ /\ turn = 1 /\ bad # {} /\ found' = bad /\ pc' = "repair" /\ UNCHANGED <<shown, log>>
             /\ \E entry : /\ told' = Append(told, entry)
                           /\ entry.calls = DOMAIN gathered' /\ DOMAIN entry.replies = DOMAIN gathered'
                           /\ \A i \in bad : entry.replies[i] = "invalid"
          \/ /\ ~(turn = 1 /\ bad # {}) /\ UNCHANGED <<found, told>>
             /\ \E result \in Judged :
                   /\ result = Gate!Outcome(bad)
                   /\ log' = <<[outcome |-> result, found |-> found]>>
                   /\ pc' = IF req.stream THEN result ELSE "done"
                   /\ \E item :
                        /\ item.kind = "calls" /\ item.turn = turn /\ item.calls = gathered'
                        /\ ~req.stream => item.outcome = result
                        /\ shown' = IF ~req.stream THEN Append(shown, item)
                                    ELSE IF DOMAIN gathered = {} THEN shown \o held
                                    ELSE Append(shown, item) \o held

\* check.py's verdict on calls that hold sequences of strings is that on their names.
LEMMA ViolationsAre ==
    ASSUME NEW stream, NEW chunks, NEW cs, Named(cs) = CallsIn(stream, chunks),
           \A i \in DOMAIN cs : cs[i].name \in Seq(STRING) /\ cs[i].args \in Seq(STRING)
    PROVE  Gate!Violations(cs) = BrokenIn(stream, chunks)
<1>1. DOMAIN CallsIn(stream, chunks) = DOMAIN cs
      /\ \A i \in DOMAIN cs : CallsIn(stream, chunks)[i] = <<cs[i].name, cs[i].args>>
  BY DEF Named
<1>2. ASSUME NEW i \in DOMAIN cs
      PROVE  Gate!Violates(cs[i]) <=>
               cs[i].name \in {<<s>> : s \in Strict} /\ cs[i].args # <<"{", "given">>
  <2> DEFINE name == cs[i].name
             args == cs[i].args
  <2>1. name \in Seq(STRING) /\ args \in Seq(STRING)
    OBVIOUS
  <2> HIDE DEF name, args
  <2>2. Len(name) = 1 /\ name[1] \in Strict <=> name \in {<<s>> : s \in Strict}
    <3>1. Len(name) = 1 => name = <<name[1]>>
      BY <2>1
    <3>2. \A s : Len(<<s>>) = 1 /\ <<s>>[1] = s
      OBVIOUS
    <3>3. QED
      BY <3>1, <3>2
  <2>3. Gate!Argument(args) = "given" <=> args = <<"{", "given">>
    <3>1. args = <<>> => Gate!Argument(args) # "given"
      BY DEF Gate!Argument
    <3>2. Len(args) = 2 => args = <<args[1], args[2]>>
      BY <2>1
    <3>3. CASE args # <<>>
      <4>1. /\ Len(<<"{", "given">>) = 2 /\ <<"{", "given">>[1] = "{"
            /\ <<"{", "given">>[2] = "given" /\ <<"{", "given">> # <<>>
        OBVIOUS
      <4>2. Gate!Argument(args) = "given" =>
               Len(args) = 2 /\ args[1] = "{" /\ args[2] = "given"
        BY <3>3 DEF Gate!Argument
      <4>3. args = <<"{", "given">> => Gate!Argument(args) = "given"
        BY <4>1 DEF Gate!Argument
      <4>4. QED
        BY <3>2, <4>2, <4>3
    <3>4. <<"{", "given">> # <<>>
      OBVIOUS
    <3>5. QED
      BY <3>1, <3>3, <3>4
  <2>4. QED
    BY <2>2, <2>3 DEF Gate!Violates, name, args
<1>3. \A i \in DOMAIN cs :
         /\ CallsIn(stream, chunks)[i][1] = cs[i].name
         /\ CallsIn(stream, chunks)[i][2] = cs[i].args
  BY <1>1
<1>4. BrokenIn(stream, chunks) = {i \in DOMAIN cs : Gate!Violates(cs[i])}
  BY <1>1, <1>2, <1>3 DEF BrokenIn
<1>5. QED
  BY <1>4 DEF Gate!Violations

\* What is gathered of a stream is what its chunks hold.
LEMMA GatheredAre ==
    ASSUME GateInv, turn # 0, req.stream
    PROVE  /\ \A i \in DOMAIN gathered : gathered[i].name \in Seq(STRING) /\ gathered[i].args \in Seq(STRING)
           /\ Named(gathered) = CallsIn(req.stream, arrived[turn])
<1>1. turn \in 1..turn /\ arrived[turn] \in Seq(Gate!StreamChunks)
  BY DEF GateInv, GatePhase, Shapes
<1>2. \A i, field : field \in {"name", "args"} => Pieces(arrived[turn], i, field) \in Seq(STRING)
  <2>1. TAKE i, field
  <2>2. HAVE field \in {"name", "args"}
  <2>3. PICK chunk \in Gate!StreamChunks : TRUE
    BY DEF Gate!StreamChunks
  <2>4. QED
    BY <1>1, <2>2, <2>3, PiecesAppend
<1>3. /\ DOMAIN gathered = IndicesIn(arrived[turn])
      /\ \A i \in DOMAIN gathered :
            /\ gathered[i].name = Pieces(arrived[turn], i, "name")
            /\ gathered[i].args = Pieces(arrived[turn], i, "args")
  BY DEF GateInv, Gathering
<1>4. CallsIn(req.stream, arrived[turn])
        = [i \in IndicesIn(arrived[turn]) |-> <<Pieces(arrived[turn], i, "name"), Pieces(arrived[turn], i, "args")>>]
  BY DEF CallsIn
<1>5. Named(gathered) = CallsIn(req.stream, arrived[turn])
  BY <1>3, <1>4 DEF Named
<1>6. QED
  BY <1>2, <1>3, <1>5

\* A turn that arrives whole is the list of its calls.
LEMMA ListIs ==
    ASSUME NEW list \in Lists, ~req.stream
    PROVE  /\ Named(list) = CallsIn(req.stream, <<list>>)
           /\ Gate!Violations(list) = BrokenIn(req.stream, <<list>>)
<1>1. <<list>> # <<>> /\ <<list>>[1] = list
  OBVIOUS
<1>2. Named(list) = CallsIn(req.stream, <<list>>)
  BY <1>1 DEF CallsIn
<1>3. QED
  BY <1>2, ViolationsAre, GateAssumption

\* The judgement of a stream, and of a turn that arrived whole.
LEMMA JudgeDoes ==
    ASSUME GateInv, Gate!JudgeStream \/ \E list \in Lists : Gate!JudgeWhole(list)
    PROVE  Judges
<1>1. /\ GatePhase /\ IsSeq(arrived) /\ Len(arrived) = turn /\ turn \in 1..turn
      /\ IsSeq(shown) /\ IsSeq(held) /\ DOMAIN arrived = 1..turn /\ turn \in {1, 2}
  <2>1. turn # 0
    BY DEF GateInv, GatePhase, Gate!JudgeStream, Gate!JudgeWhole, Reading
  <2>2. QED
    BY <2>1, SeqIs DEF GateInv, GatePhase, Shapes
<1>2. CASE Gate!JudgeStream
  <2>1. req.stream /\ pc = "read" /\ UNCHANGED <<req, turn, arrived, gathered, held>>
    BY <1>1, <1>2 DEF GatePhase, Gate!JudgeStream, Gate!gathered
  <2> DEFINE bad == Gate!Violations(gathered)
  <2>2. Named(gathered) = CallsIn(req.stream, arrived[turn]) /\ bad = BrokenIn(req.stream, arrived[turn])
    <3>1. turn # 0
      BY <1>1
    <3>2. /\ \A i \in DOMAIN gathered : gathered[i].name \in Seq(STRING) /\ gathered[i].args \in Seq(STRING)
          /\ Named(gathered) = CallsIn(req.stream, arrived[turn])
      BY <2>1, <3>1, GatheredAre
    <3>3. QED
      BY <3>2, ViolationsAre
  <2>3. bad \subseteq DOMAIN gathered
    BY DEF Gate!Violations
  <2>4. CASE Gate!MayRepair(bad)
    <3>1. /\ turn = 1 /\ bad # {} /\ found' = bad /\ pc' = "repair" /\ UNCHANGED <<shown, log>>
          /\ told' = Append(told, Gate!Tell(gathered, bad))
      BY <1>2, <2>4 DEF Gate!JudgeStream, Gate!MayRepair
    <3> DEFINE entry == Gate!Tell(gathered, bad)
    <3>2. /\ entry.calls = DOMAIN gathered /\ DOMAIN entry.replies = DOMAIN gathered
          /\ \A i \in bad : entry.replies[i] = "invalid"
      BY <2>3 DEF Gate!Tell
    <3> HIDE DEF bad, entry
    <3>3. QED
      BY ZenonT(40), <1>1, <2>1, <2>2, <3>1, <3>2 DEF Judges, entry
  <2>5. CASE ~Gate!MayRepair(bad)
    <3> DEFINE item == [kind |-> "calls", turn |-> turn, calls |-> gathered]
    <3>1. /\ ~(turn = 1 /\ bad # {}) /\ UNCHANGED <<found, told>>
          /\ log' = <<[outcome |-> Gate!Outcome(bad), found |-> found]>> /\ pc' = Gate!Outcome(bad)
          /\ shown' = shown \o (IF DOMAIN gathered = {} THEN <<>> ELSE <<item>>) \o held
      <4>1. log = <<>>
        BY <1>1, <2>1 DEF GatePhase, Open, Reading
      <4>2. Append(<<>>, [outcome |-> Gate!Outcome(bad), found |-> found])
              = <<[outcome |-> Gate!Outcome(bad), found |-> found]>>
        OBVIOUS
      <4>3. QED
        BY <1>2, <2>5, <4>1, <4>2 DEF Gate!JudgeStream, Gate!MayRepair, Gate!Record
    <3>2. Gate!Outcome(bad) \in Judged
      BY DEF Gate!Outcome, Judged
    <3>3. shown \o <<>> = shown /\ shown \o <<item>> = Append(shown, item)
      BY <1>1 DEF IsSeq
    <3>4. shown' = IF DOMAIN gathered = {} THEN shown \o held ELSE Append(shown, item) \o held
      BY <3>1, <3>3
    <3>5. item.kind = "calls" /\ item.turn = turn /\ item.calls = gathered
      OBVIOUS
    <3> HIDE DEF bad, item
    <3>6. QED
      BY <1>1, <2>1, <2>2, <3>1, <3>2, <3>4, <3>5 DEF Judges
  <2>6. QED
    BY <2>4, <2>5
<1>3. CASE \E list \in Lists : Gate!JudgeWhole(list)
  <2> PICK list \in Lists : Gate!JudgeWhole(list)
    BY <1>3
  <2>1. /\ ~req.stream /\ pc = "whole" /\ UNCHANGED <<req, turn, held>>
        /\ gathered' = list /\ arrived' = [arrived EXCEPT ![turn] = <<list>>]
    BY <1>1 DEF GatePhase, Gate!JudgeWhole
  <2> DEFINE bad == Gate!Violations(list)
  <2>2. /\ arrived'[turn] = <<list>> /\ \A t \in 1..turn : t # turn => arrived'[t] = arrived[t]
        /\ arrived' = [t \in 1..turn |-> arrived'[t]]
    BY <1>1, <2>1
  <2>3. IsSeq(arrived') /\ Len(arrived') = turn
    BY <1>1, <2>2, IsSeqOf
  <2>4. Named(list) = CallsIn(req.stream, <<list>>) /\ bad = BrokenIn(req.stream, <<list>>)
    BY <2>1, ListIs
  <2>5. bad \subseteq DOMAIN list
    BY DEF Gate!Violations
  <2>6. CASE Gate!MayRepair(bad)
    <3>1. /\ turn = 1 /\ bad # {} /\ found' = bad /\ pc' = "repair" /\ UNCHANGED <<shown, log>>
          /\ told' = Append(told, Gate!Tell(list, bad))
      BY <2>6 DEF Gate!JudgeWhole, Gate!MayRepair
    <3> DEFINE entry == Gate!Tell(list, bad)
    <3>2. /\ entry.calls = DOMAIN list /\ DOMAIN entry.replies = DOMAIN list
          /\ \A i \in bad : entry.replies[i] = "invalid"
      BY <2>5 DEF Gate!Tell
    <3> HIDE DEF bad, entry
    <3>3. QED
      BY <1>1, <2>1, <2>2, <2>3, <2>4, <3>1, <3>2 DEF Judges, entry
  <2>7. CASE ~Gate!MayRepair(bad)
    <3> DEFINE item == [kind |-> "calls", turn |-> turn, calls |-> list, outcome |-> Gate!Outcome(bad)]
    <3>1. /\ ~(turn = 1 /\ bad # {}) /\ UNCHANGED <<found, told>>
          /\ log' = <<[outcome |-> Gate!Outcome(bad), found |-> found]>> /\ pc' = "done"
          /\ shown' = Append(shown, item)
      <4>1. log = <<>>
        BY <1>1, <2>1 DEF GatePhase, Open, Reading
      <4>2. Append(<<>>, [outcome |-> Gate!Outcome(bad), found |-> found])
              = <<[outcome |-> Gate!Outcome(bad), found |-> found]>>
        OBVIOUS
      <4>3. QED
        BY <2>7, <4>1, <4>2 DEF Gate!JudgeWhole, Gate!MayRepair, Gate!Record, Gate!Show
    <3>2. Gate!Outcome(bad) \in Judged
      BY DEF Gate!Outcome, Judged
    <3>3. /\ item.kind = "calls" /\ item.turn = turn /\ item.calls = list
          /\ item.outcome = Gate!Outcome(bad)
      OBVIOUS
    <3> HIDE DEF bad, item
    <3>4. QED
      BY <1>1, <2>1, <2>2, <2>3, <2>4, <3>1, <3>2, <3>3 DEF Judges
  <2>8. QED
    BY <2>6, <2>7
<1>4. QED
  BY <1>2, <1>3

\* Any other step but a question and a chunk is a quiet one.
LEMMA QuietDoes ==
    ASSUME GateInv,
           \/ Gate!Refuse \/ Gate!Begin \/ Gate!RepairFails \/ Gate!Close \/ Gate!PassThrough
           \/ Gate!Break \/ (\E status \in {"200", "error"} : Gate!RelayRaw(status))
           \/ UNCHANGED gateVars
    PROVE  Quiet
<1>1. GatePhase
  BY DEF GateInv
<1>2. \A entry : Append(<<>>, entry) = <<entry>>
  OBVIOUS
<1> USE DEF Quiet, Gate!gathered, Gate!Show, Gate!Answer, Gate!Record
<1>3. CASE Gate!Refuse
  BY <1>3 DEF Gate!Refuse
<1>4. CASE Gate!Begin
  BY <1>4 DEF Gate!Begin
<1>5. CASE Gate!RepairFails
  <2>1. log = <<>>
    BY <1>1, <1>5 DEF Gate!RepairFails, GatePhase, Open, Reading
  <2>2. QED
    BY <1>2, <1>5, <2>1 DEF Gate!RepairFails, Quiet
<1>6. CASE Gate!Close
  <2>1. Logged(pc) /\ req.stream
    BY <1>1, <1>6 DEF Gate!Close, GatePhase, Ended, Judged
  <2>2. QED
    BY <1>6, <2>1 DEF Gate!Close
<1>7. CASE Gate!PassThrough
  <2>1. log = <<>>
    BY <1>1, <1>7 DEF Gate!PassThrough, GatePhase, Open, Reading
  <2>2. QED
    BY <1>2, <1>7, <2>1 DEF Gate!PassThrough
<1>8. CASE Gate!Break
  BY <1>8 DEF Gate!Break
<1>9. CASE \E status \in {"200", "error"} : Gate!RelayRaw(status)
  BY <1>9 DEF Gate!RelayRaw
<1>10. CASE UNCHANGED gateVars
  BY <1>10 DEF gateVars
<1>11. QED
  BY <1>3, <1>4, <1>5, <1>6, <1>7, <1>8, <1>9, <1>10

\* A question begins the next turn.
Opens ==
    /\ \/ pc = "receive" /\ turn = 0
       \/ pc = "repair" /\ turn = 1 /\ Gate!Checked
    /\ turn' = turn + 1 /\ log = <<>> /\ UNCHANGED <<req, found, told, shown, log>>
    /\ IsSeq(arrived') /\ Len(arrived') = turn + 1 /\ arrived'[turn + 1] = <<>>
    /\ \A t \in 1..turn : arrived'[t] = arrived[t]
    /\ DOMAIN gathered' = {} /\ held' = <<>>
    /\ pc' = IF ~Gate!Checked THEN "raw" ELSE IF req.stream THEN "head" ELSE "whole"

\* A chunk joins the turn, and is shown or held as an item; one that says nothing may be neither.
Receives(chunk, item) ==
    /\ pc = "read" /\ req.stream /\ turn \in {1, 2} /\ log = <<>>
    /\ UNCHANGED <<req, pc, turn, found, told, log>>
    /\ arrived[turn] \in Seq(Gate!StreamChunks) /\ arrived'[turn] = Append(arrived[turn], chunk)
    /\ IsSeq(arrived') /\ Len(arrived') = turn
    /\ \A t \in 1..turn : t # turn => arrived'[t] = arrived[t]
    /\ \A i \in 1..Len(arrived[turn]) : arrived[turn][i].finish => ~chunk.choices
    /\ gathered' = IF chunk.delta.part = None THEN gathered ELSE Gate!Gather(gathered, chunk.delta.part)
    /\ item.kind = "chunk" /\ ChunkItem(item) /\ item.turn = turn
    /\ item.place = Len(arrived[turn]) + 1 /\ item.text = chunk.delta.text
    /\ item.finish = chunk.finish
    /\ \/ (chunk.finish \/ ~chunk.choices) /\ held' = Append(held, item) /\ UNCHANGED shown
       \/ /\ ~chunk.finish /\ chunk.choices /\ UNCHANGED held
          /\ \/ shown' = Append(shown, item)
             \/ chunk.delta.text = "none" /\ UNCHANGED shown

\* What a question does.
LEMMA AskDoes ==
    ASSUME GateInv, Gate!Ask
    PROVE  Opens
<1>1. /\ (pc = "receive" /\ turn = 0) \/ (pc = "repair" /\ turn = 1 /\ Gate!Checked)
      /\ log = <<>> /\ IsSeq(arrived) /\ Len(arrived) = turn
  BY DEF GateInv, GatePhase, Shapes, Gate!Ask, Open, Reading
<1>2. arrived' = Append(arrived, <<>>)
  BY DEF Gate!Ask
<1>3. /\ IsSeq(arrived') /\ Len(arrived') = turn + 1 /\ arrived'[turn + 1] = <<>>
      /\ \A t \in 1..turn : arrived'[t] = arrived[t]
  BY <1>1, <1>2, SeqAppend
<1>4. DOMAIN gathered' = {}
  BY DEF Gate!Ask, Gate!NoCalls
<1>5. QED
  BY <1>1, <1>3, <1>4 DEF Gate!Ask, Opens, Gate!Checked

\* What a chunk does.
LEMMA ReceiveDoes ==
    ASSUME GateInv, NEW chunk \in Gate!StreamChunks, Gate!Receive(chunk)
    PROVE  \E item : Receives(chunk, item)
<1> DEFINE n == Len(arrived[turn]) + 1
           item == Gate!Relayed(turn, n, chunk)
<1>1. /\ pc = "read" /\ req.stream /\ turn \in {1, 2} /\ log = <<>>
      /\ IsSeq(arrived) /\ Len(arrived) = turn /\ turn \in 1..turn
      /\ arrived[turn] \in Seq(Gate!StreamChunks)
  BY DEF GateInv, GatePhase, Shapes, Gate!Receive, Open, Reading
<1>2. /\ arrived' = [arrived EXCEPT ![turn] = Append(@, chunk)]
      /\ UNCHANGED <<req, pc, turn, found, told, log>>
      /\ \A i \in 1..(n - 1) : arrived[turn][i].finish => ~chunk.choices
      /\ gathered' = IF chunk.delta.part = None THEN gathered ELSE Gate!Gather(gathered, chunk.delta.part)
      /\ IF chunk.finish \/ ~chunk.choices
         THEN held' = Append(held, item) /\ UNCHANGED shown
         ELSE /\ shown' = IF chunk.delta.text # "none" \/ chunk.delta.part = None
                          THEN Append(shown, item) ELSE shown
              /\ UNCHANGED held
  BY DEF Gate!Receive
<1>3. n \in Nat /\ n - 1 = Len(arrived[turn])
  BY <1>1
<1>4. DOMAIN arrived = 1..turn
  BY <1>1, SeqIs
<1>5. /\ arrived'[turn] = Append(arrived[turn], chunk)
      /\ \A t \in 1..turn : t # turn => arrived'[t] = arrived[t]
      /\ arrived' = [t \in 1..turn |-> arrived'[t]]
  BY <1>1, <1>2, <1>4
<1>6. IsSeq(arrived') /\ Len(arrived') = turn
  BY <1>1, <1>5, IsSeqOf
<1>7. /\ item.kind = "chunk" /\ item.turn = turn /\ item.place = n
      /\ item.text = chunk.delta.text /\ item.finish = chunk.finish
  BY DEF Gate!Relayed
<1> HIDE DEF item
<1>8. ChunkItem(item)
  BY <1>1, <1>3, <1>7, ChunkIs DEF ChunkItem
<1>9. \A i \in 1..Len(arrived[turn]) : arrived[turn][i].finish => ~chunk.choices
  BY <1>2, <1>3
<1>10. \/ (chunk.finish \/ ~chunk.choices) /\ held' = Append(held, item) /\ UNCHANGED shown
       \/ /\ ~chunk.finish /\ chunk.choices /\ UNCHANGED held
          /\ \/ shown' = Append(shown, item)
             \/ chunk.delta.text = "none" /\ UNCHANGED shown
  BY <1>2
<1>11. Receives(chunk, item)
  BY <1>1, <1>2, <1>5, <1>6, <1>7, <1>8, <1>9, <1>10 DEF Receives
<1>12. QED
  BY <1>11

\* What is sent and what is held are sequences of items that speak.
LEMMA ItemsSpeak ==
    ASSUME Shapes
    PROVE  /\ AllSpeak(shown) /\ AllSpeak(held) /\ IsSeq(shown) /\ IsSeq(held)
           /\ DOMAIN shown = 1..Len(shown) /\ Len(shown) \in Nat
           /\ DOMAIN held = 1..Len(held) /\ Len(held) \in Nat
           /\ \A t : Texts(shown, t) \in Seq(Marks) /\ Texts(held, t) \in Seq(Marks)
<1>1. AllSpeak(shown) /\ AllSpeak(held)
  BY DEF Shapes, AllSpeak, Speaks, ChunkItem
<1>2. ASSUME NEW t PROVE Texts(shown, t) \in Seq(Marks) /\ Texts(held, t) \in Seq(Marks)
  <2> DEFINE item == [kind |-> "none"]
  <2>1. Speaks(item)
    BY DEF Speaks
  <2> HIDE DEF item
  <2>2. QED
    BY <1>1, <2>1, TextsAppend
<1>3. QED
  BY <1>1, <1>2, SeqIs DEF AllSpeak

\* What a quiet step adds to the items.
LEMMA QuietShows ==
    ASSUME Shapes, Quiet
    PROVE  /\ IsSeq(shown') /\ DOMAIN shown \subseteq DOMAIN shown'
           /\ \A n \in DOMAIN shown : shown'[n] = shown[n]
           /\ \A n \in DOMAIN shown' : n \notin DOMAIN shown =>
                 /\ shown'[n].kind \in {"answer", "error", "comment"}
                 /\ shown'[n].kind = "comment" => Logged(shown'[n].outcome) /\ req.stream /\ UNCHANGED log
           /\ \A t : Texts(shown', t) = Texts(shown, t)
<1>1. CASE UNCHANGED shown
  BY <1>1 DEF Shapes
<1>2. CASE \E item :
             /\ shown' = Append(shown, item) /\ item.kind \in {"answer", "error", "comment"}
             /\ item.kind = "comment" => Logged(item.outcome) /\ req.stream /\ UNCHANGED log
  <2> PICK item :
             /\ shown' = Append(shown, item) /\ item.kind \in {"answer", "error", "comment"}
             /\ item.kind = "comment" => Logged(item.outcome) /\ req.stream /\ UNCHANGED log
    BY <1>2
  <2>1. /\ IsSeq(shown') /\ DOMAIN shown' = 1..(Len(shown) + 1)
        /\ \A n \in 1..Len(shown) : shown'[n] = shown[n]
        /\ shown'[Len(shown) + 1] = item
    BY SeqAppend DEF Shapes
  <2>2. DOMAIN shown = 1..Len(shown) /\ Len(shown) \in Nat
    BY ItemsSpeak
  <2>3. ASSUME NEW t PROVE Texts(shown', t) = Texts(shown, t)
    <3>1. Speaks(item) /\ Said(item, t) = <<>>
      BY DEF Speaks, Said
    <3>2. Texts(shown, t) \in Seq(Marks) /\ Texts(Append(shown, item), t) = Texts(shown, t) \o Said(item, t)
      BY <3>1, ItemsSpeak, TextsAppend
    <3>3. QED
      BY <3>1, <3>2
  <2>4. QED
    BY <2>1, <2>2, <2>3
<1>3. QED
  BY <1>1, <1>2 DEF Quiet

\* What a judgement adds to the items: the calls, if there are any, and what was held.
LEMMA JudgedShows ==
    ASSUME Shapes, Judges
    PROVE  /\ IsSeq(shown') /\ DOMAIN shown \subseteq DOMAIN shown'
           /\ \A n \in DOMAIN shown : shown'[n] = shown[n]
           /\ \A n \in DOMAIN shown' : n \notin DOMAIN shown =>
                 \/ /\ n = Len(shown) + 1 /\ shown'[n].kind = "calls" /\ shown'[n].turn = turn
                    /\ shown'[n].calls = gathered'
                    /\ ~req.stream => log' = <<[outcome |-> shown'[n].outcome, found |-> found]>>
                    /\ req.stream => DOMAIN gathered # {}
                 \/ \E k \in DOMAIN held :
                       /\ req.stream /\ shown'[n] = held[k]
                       /\ n = Len(shown) + (IF DOMAIN gathered = {} THEN 0 ELSE 1) + k
           /\ pc' = "repair" \/ (req.stream /\ DOMAIN gathered # {} =>
                 Len(shown) + 1 \in DOMAIN shown' /\ shown'[Len(shown) + 1].kind = "calls")
           /\ pc' = "repair" => UNCHANGED <<shown, log>>
           /\ \A t : Texts(shown', t) = IF pc' = "repair" \/ ~req.stream THEN Texts(shown, t)
                                        ELSE Texts(shown, t) \o Texts(held, t)
<1>1. /\ IsSeq(shown) /\ IsSeq(held) /\ AllSpeak(shown) /\ AllSpeak(held)
      /\ DOMAIN shown = 1..Len(shown) /\ Len(shown) \in Nat
      /\ DOMAIN held = 1..Len(held) /\ Len(held) \in Nat
      /\ \A t : Texts(shown, t) \in Seq(Marks)
  BY ItemsSpeak
<1>2. CASE pc' = "repair" /\ UNCHANGED <<shown, log>>
  BY <1>1, <1>2
<1>3. CASE \E result \in Judged :
             /\ pc' = (IF req.stream THEN result ELSE "done")
             /\ log' = <<[outcome |-> result, found |-> found]>>
             /\ \E item :
                  /\ item.kind = "calls" /\ item.turn = turn /\ item.calls = gathered'
                  /\ ~req.stream => item.outcome = result
                  /\ shown' = IF ~req.stream THEN Append(shown, item)
                              ELSE IF DOMAIN gathered = {} THEN shown \o held
                              ELSE Append(shown, item) \o held
  <2> PICK result \in Judged :
             /\ pc' = (IF req.stream THEN result ELSE "done")
             /\ log' = <<[outcome |-> result, found |-> found]>>
             /\ \E item :
                  /\ item.kind = "calls" /\ item.turn = turn /\ item.calls = gathered'
                  /\ ~req.stream => item.outcome = result
                  /\ shown' = IF ~req.stream THEN Append(shown, item)
                              ELSE IF DOMAIN gathered = {} THEN shown \o held
                              ELSE Append(shown, item) \o held
    BY <1>3
  <2> PICK item :
             /\ item.kind = "calls" /\ item.turn = turn /\ item.calls = gathered'
             /\ ~req.stream => item.outcome = result
             /\ shown' = IF ~req.stream THEN Append(shown, item)
                         ELSE IF DOMAIN gathered = {} THEN shown \o held
                         ELSE Append(shown, item) \o held
    OBVIOUS
  <2>0. pc' # "repair"
    BY DEF Judged
  <2> DEFINE more == Append(shown, item)
  <2>1. /\ IsSeq(more) /\ Len(more) = Len(shown) + 1 /\ DOMAIN more = 1..(Len(shown) + 1)
        /\ \A n \in 1..Len(shown) : more[n] = shown[n]
        /\ more[Len(shown) + 1] = item
    BY <1>1, SeqAppend
  <2>2. Speaks(item)
    BY DEF Speaks
  <2>3. AllSpeak(more)
    BY <1>1, <2>2, TextsAppend
  <2>4. ASSUME NEW t PROVE Texts(more, t) = Texts(shown, t)
    <3>1. Said(item, t) = <<>>
      BY DEF Said
    <3>2. Texts(more, t) = Texts(shown, t) \o Said(item, t) /\ Texts(shown, t) \in Seq(Marks)
      BY <1>1, <2>2, TextsAppend
    <3> HIDE DEF more
    <3>3. QED
      BY <3>1, <3>2
  <2>5. Len(more) = Len(shown) + 1
    BY <2>1
  <2>6. req.stream => shown' = IF DOMAIN gathered = {} THEN shown \o held ELSE more \o held
    OBVIOUS
  <2>7. ~req.stream => shown' = more
    OBVIOUS
  <2> HIDE DEF more
  <2>8. CASE ~req.stream
    <3>1. \A n \in DOMAIN shown' : n \notin DOMAIN shown => n = Len(shown) + 1
      BY <1>1, <2>1, <2>7, <2>8
    <3>2. \A n \in DOMAIN shown : n \in DOMAIN shown' /\ shown'[n] = shown[n]
      BY <1>1, <2>1, <2>7, <2>8
    <3>3. IsSeq(shown') /\ shown'[Len(shown) + 1] = item
      BY <2>1, <2>7, <2>8
    <3>4. \A t : Texts(shown', t) = Texts(shown, t)
      BY <2>4, <2>7, <2>8
    <3>5. QED
      BY <2>0, <2>8, <3>1, <3>2, <3>3, <3>4
  <2>9. CASE req.stream /\ DOMAIN gathered = {}
    <3>0. shown' = shown \o held
      BY <2>6, <2>9
    <3>1. /\ IsSeq(shown') /\ Len(shown') = Len(shown) + Len(held)
          /\ \A n \in 1..Len(shown) : shown'[n] = shown[n]
          /\ \A n \in 1..Len(held) : shown'[Len(shown) + n] = held[n]
          /\ \A n \in DOMAIN shown' :
                n \in 1..Len(shown) \/ (n > Len(shown) /\ n - Len(shown) \in 1..Len(held))
      <4>1. /\ IsSeq(shown \o held) /\ Len(shown \o held) = Len(shown) + Len(held)
            /\ \A n \in 1..Len(shown) : (shown \o held)[n] = shown[n]
            /\ \A n \in 1..Len(held) : (shown \o held)[Len(shown) + n] = held[n]
            /\ \A n \in DOMAIN (shown \o held) :
                  n \in 1..Len(shown) \/ (n > Len(shown) /\ n - Len(shown) \in 1..Len(held))
        BY <1>1, SeqConcat
      <4>2. QED
        BY <3>0, <4>1
    <3>2. DOMAIN shown' = 1..(Len(shown) + Len(held))
      BY <3>1, SeqIs
    <3>3. ASSUME NEW n \in DOMAIN shown', n \notin DOMAIN shown
          PROVE  \E k \in DOMAIN held : shown'[n] = held[k] /\ n = Len(shown) + 0 + k
      <4>1. n - Len(shown) \in DOMAIN held /\ n = Len(shown) + (n - Len(shown))
        BY <1>1, <3>1, <3>2, <3>3
      <4>2. shown'[n] = held[n - Len(shown)]
        BY <1>1, <3>1, <4>1
      <4>3. QED
        BY <1>1, <4>1, <4>2
    <3>4. ASSUME NEW t PROVE Texts(shown', t) = Texts(shown, t) \o Texts(held, t)
      <4>1. Texts(shown \o held, t) = Texts(shown, t) \o Texts(held, t)
        BY <1>1, TextsConcat
      <4>2. QED
        BY <3>0, <4>1
    <3>5. \A n \in DOMAIN shown : n \in DOMAIN shown' /\ shown'[n] = shown[n]
      BY <1>1, <3>1, <3>2
    <3>6. \A n \in DOMAIN shown' : n \notin DOMAIN shown =>
             \E k \in DOMAIN held :
                       /\ req.stream /\ shown'[n] = held[k]
                       /\ n = Len(shown) + (IF DOMAIN gathered = {} THEN 0 ELSE 1) + k
      BY <2>9, <3>3
    <3>8. DOMAIN shown \subseteq DOMAIN shown'
      BY <3>5
    <3>9. QED
      BY <2>0, <2>9, <3>1, <3>4, <3>5, <3>6, <3>8
  <2>10. CASE req.stream /\ DOMAIN gathered # {}
    <3>0. shown' = more \o held
      BY <2>6, <2>10
    <3>1. /\ IsSeq(shown') /\ Len(shown') = Len(more) + Len(held)
          /\ \A n \in 1..Len(more) : shown'[n] = more[n]
          /\ \A n \in 1..Len(held) : shown'[Len(more) + n] = held[n]
          /\ \A n \in DOMAIN shown' :
                n \in 1..Len(more) \/ (n > Len(more) /\ n - Len(more) \in 1..Len(held))
      <4>1. /\ IsSeq(more \o held) /\ Len(more \o held) = Len(more) + Len(held)
            /\ \A n \in 1..Len(more) : (more \o held)[n] = more[n]
            /\ \A n \in 1..Len(held) : (more \o held)[Len(more) + n] = held[n]
            /\ \A n \in DOMAIN (more \o held) :
                  n \in 1..Len(more) \/ (n > Len(more) /\ n - Len(more) \in 1..Len(held))
        BY <1>1, <2>1, SeqConcat
      <4>2. QED
        BY <3>0, <4>1
    <3>2. DOMAIN shown' = 1..(Len(shown) + 1 + Len(held))
      BY <2>5, <3>1, SeqIs
    <3>3. ASSUME NEW n \in DOMAIN shown', n \notin DOMAIN shown, n # Len(shown) + 1
          PROVE  \E k \in DOMAIN held : shown'[n] = held[k] /\ n = Len(shown) + 1 + k
      <4>1. n - Len(more) \in DOMAIN held /\ n = Len(more) + (n - Len(more))
        BY <1>1, <2>5, <3>1, <3>2, <3>3
      <4>2. shown'[n] = held[n - Len(more)]
        BY <1>1, <2>5, <3>1, <4>1
      <4>3. QED
        BY <1>1, <2>5, <4>1, <4>2
    <3>4. shown'[Len(shown) + 1] = item /\ Len(shown) + 1 \in DOMAIN shown'
      BY <1>1, <2>1, <3>1, <3>2
    <3>5. \A n \in DOMAIN shown : n \in DOMAIN shown' /\ shown'[n] = shown[n]
      BY <1>1, <2>1, <3>1, <3>2
    <3>6. ASSUME NEW t PROVE Texts(shown', t) = Texts(shown, t) \o Texts(held, t)
      <4>1. Texts(more \o held, t) = Texts(more, t) \o Texts(held, t)
        BY <1>1, <2>3, TextsConcat
      <4>2. QED
        BY <2>4, <3>0, <4>1
    <3>7. \A n \in DOMAIN shown' : n \notin DOMAIN shown =>
             \/ n = Len(shown) + 1
             \/ \E k \in DOMAIN held :
                       /\ req.stream /\ shown'[n] = held[k]
                       /\ n = Len(shown) + (IF DOMAIN gathered = {} THEN 0 ELSE 1) + k
      BY <2>10, <3>3
    <3>9. DOMAIN shown \subseteq DOMAIN shown'
      BY <3>5
    <3>10. QED
      BY <2>0, <2>10, <3>1, <3>4, <3>5, <3>6, <3>7, <3>9
  <2>11. QED
    BY <2>8, <2>9, <2>10
<1>4. QED
  BY <1>2, <1>3 DEF Judges

\* The step of the gate is one of four.
LEMMA GateDoes ==
    ASSUME GateInv, [Gate!Next]_gateVars
    PROVE  \/ Quiet \/ Opens \/ Judges
           \/ \E chunk \in Gate!StreamChunks : \E item : Receives(chunk, item)
  BY QuietDoes, AskDoes, ReceiveDoes, JudgeDoes DEF Gate!Next

\* Where the handler is goes on with the turn and the log.
LEMMA PhaseStep ==
    ASSUME GateInv, [Gate!Next]_gateVars
    PROVE  GatePhase'
<1>1. GatePhase
  BY DEF GateInv
<1> USE DEF GatePhase, Gate!Checked, Open, Reading, Ended, Judged, Logged
<1>2. CASE Quiet
  BY <1>1, <1>2 DEF Quiet
<1>3. CASE Opens
  BY <1>1, <1>3 DEF Opens
<1>4. CASE \E chunk \in Gate!StreamChunks : \E item : Receives(chunk, item)
  BY <1>1, <1>4 DEF Receives
<1>5. CASE Judges
  BY <1>1, <1>5 DEF Judges
<1>6. QED
  BY <1>2, <1>3, <1>4, <1>5, GateDoes

\* A sequence that stays or gets one more element holds no other.
LEMMA OneMore ==
    ASSUME NEW s, IsSeq(s), NEW x, NEW t, t = s \/ t = Append(s, x)
    PROVE  /\ IsSeq(t) /\ DOMAIN s \subseteq DOMAIN t /\ \A n \in DOMAIN s : t[n] = s[n]
           /\ \A n \in DOMAIN t : (n \in DOMAIN s /\ t[n] = s[n]) \/ t[n] = x
<1>1. Len(s) \in Nat /\ DOMAIN s = 1..Len(s)
  BY SeqIs
<1>2. CASE t = s
  BY <1>2
<1>3. CASE t = Append(s, x)
  <2>1. /\ IsSeq(t) /\ DOMAIN t = 1..(Len(s) + 1) /\ t[Len(s) + 1] = x
        /\ \A n \in 1..Len(s) : t[n] = s[n]
    BY <1>3, SeqAppend
  <2>2. \A n \in DOMAIN t : n \in DOMAIN s \/ n = Len(s) + 1
    BY <1>1, <2>1
  <2>3. QED
    BY <1>1, <2>1, <2>2
<1>4. QED
  BY <1>2, <1>3

\* The shapes stay.
LEMMA ShapesStep ==
    ASSUME GateInv, [Gate!Next]_gateVars
    PROVE  Shapes'
<1>1. /\ Shapes /\ turn \in {0, 1, 2} /\ IsSeq(arrived) /\ IsSeq(held) /\ IsSeq(shown) /\ IsSeq(told)
      /\ DOMAIN shown = 1..Len(shown) /\ Len(shown) \in Nat
      /\ DOMAIN held = 1..Len(held) /\ Len(held) \in Nat /\ Len(arrived) = turn
  BY ItemsSpeak DEF GateInv, GatePhase, Shapes
<1>2. CASE Quiet
  <2>1. /\ IsSeq(shown')
        /\ \A n \in DOMAIN shown' : shown'[n].kind = "chunk" => n \in DOMAIN shown /\ shown'[n] = shown[n]
    BY <1>1, <1>2, QuietShows
  <2>2. QED
    BY <1>1, <1>2, <2>1 DEF Quiet, Shapes, ChunkItem
<1>3. CASE Opens
  <2>1. IsSeq(<<>>) /\ DOMAIN held' = {}
    BY <1>3 DEF IsSeq, Opens
  <2>2. <<>> \in Seq(Gate!StreamChunks)
    OBVIOUS
  <2>3. ASSUME NEW t \in 1..turn', req.stream PROVE arrived'[t] \in Seq(Gate!StreamChunks)
    <3>1. t \in 1..turn \/ t = turn + 1
      BY <1>1, <1>3 DEF Opens
    <3>2. QED
      BY <1>1, <1>3, <2>2, <2>3, <3>1 DEF Opens, Shapes
  <2>4. \A n \in DOMAIN shown : shown[n].kind = "chunk" => ChunkItem(shown[n])'
    <3>1. \A m \in 1..turn : m \in 1..turn'
      BY <1>1, <1>3 DEF Opens
    <3>2. QED
      BY <1>1, <1>3, <3>1 DEF Opens, Shapes, ChunkItem
  <2>5. QED
    BY <1>1, <1>3, <2>1, <2>3, <2>4 DEF Opens, Shapes
<1>4. CASE \E chunk \in Gate!StreamChunks : \E item : Receives(chunk, item)
  <2> PICK chunk \in Gate!StreamChunks : \E item : Receives(chunk, item)
    BY <1>4
  <2> PICK item : Receives(chunk, item)
    OBVIOUS
  <2>1. /\ UNCHANGED <<req, turn, told>> /\ IsSeq(arrived') /\ Len(arrived') = turn
        /\ arrived'[turn] = Append(arrived[turn], chunk)
        /\ \A t \in 1..turn : t # turn => arrived'[t] = arrived[t]
        /\ item.kind = "chunk" /\ ChunkItem(item) /\ item.turn = turn
        /\ held' = held \/ held' = Append(held, item)
        /\ shown' = shown \/ shown' = Append(shown, item)
    BY DEF Receives
  <2>2. ASSUME NEW t \in 1..turn, req.stream PROVE arrived'[t] \in Seq(Gate!StreamChunks)
    <3>1. arrived[t] \in Seq(Gate!StreamChunks)
      BY <1>1, <2>2 DEF Shapes
    <3>2. Append(arrived[t], chunk) \in Seq(Gate!StreamChunks)
      BY <3>1
    <3>3. QED
      BY <2>1, <3>1, <3>2
  <2>3. /\ IsSeq(held')
        /\ \A n \in DOMAIN held' : (n \in DOMAIN held /\ held'[n] = held[n]) \/ held'[n] = item
    <3>1. IsSeq(held) /\ (held' = held \/ held' = Append(held, item))
      BY <1>1, <2>1
    <3>2. QED
      BY <3>1, OneMore
  <2>4. /\ IsSeq(shown')
        /\ \A n \in DOMAIN shown' : (n \in DOMAIN shown /\ shown'[n] = shown[n]) \/ shown'[n] = item
    <3>1. IsSeq(shown) /\ (shown' = shown \/ shown' = Append(shown, item))
      BY <1>1, <2>1
    <3>2. QED
      BY <3>1, OneMore
  <2>5. \A n \in DOMAIN held' : held'[n].kind = "chunk" /\ ChunkItem(held'[n]) /\ held'[n].turn = turn
    BY <1>1, <2>1, <2>3 DEF Shapes
  <2>6. \A n \in DOMAIN shown' : shown'[n].kind = "chunk" => ChunkItem(shown'[n])
    BY <1>1, <2>1, <2>4 DEF Shapes
  <2>7. QED
    BY <1>1, <2>1, <2>2, <2>3, <2>4, <2>5, <2>6 DEF Shapes, ChunkItem
<1>5. CASE Judges
  <2>1. /\ UNCHANGED <<req, turn, held>> /\ IsSeq(arrived') /\ Len(arrived') = turn
        /\ req.stream => arrived' = arrived
    BY <1>5 DEF Judges
  <2>2. IsSeq(told')
    <3>1. CASE told' = told
      BY <1>1, <3>1
    <3>2. CASE \E entry : told' = Append(told, entry)
      <4>1. PICK entry : told' = Append(told, entry)
        BY <3>2
      <4>2. IsSeq(Append(told, entry))
        BY <1>1, SeqAppend
      <4>3. QED
        BY <4>1, <4>2
    <3>3. QED
      BY <1>5, <3>1, <3>2 DEF Judges
  <2>3. /\ IsSeq(shown')
        /\ \A n \in DOMAIN shown' :
              \/ n \in DOMAIN shown /\ shown'[n] = shown[n]
              \/ shown'[n].kind = "calls"
              \/ \E k \in DOMAIN held : shown'[n] = held[k]
    BY <1>1, <1>5, JudgedShows
  <2>4. \A n \in DOMAIN shown' : shown'[n].kind = "chunk" => ChunkItem(shown'[n])
    BY <1>1, <2>3 DEF Shapes
  <2>5. QED
    BY <1>1, <2>1, <2>2, <2>3, <2>4 DEF Shapes, ChunkItem
<1>6. QED
  BY <1>2, <1>3, <1>4, <1>5, GateDoes

\* What is gathered goes on being what the chunks hold.
LEMMA GatheringStep ==
    ASSUME GateInv, [Gate!Next]_gateVars
    PROVE  Gathering'
<1>1. Gathering /\ turn \in {0, 1, 2}
  BY DEF GateInv, GatePhase
<1>2. CASE Quiet
  BY <1>1, <1>2 DEF Quiet, Gathering
<1>3. CASE Opens
  <2>1. IndicesIn(<<>>) = {}
    BY DEF IndicesIn
  <2>2. arrived'[turn'] = <<>> /\ DOMAIN gathered' = {}
    BY <1>3 DEF Opens
  <2>3. QED
    BY <2>1, <2>2 DEF Gathering
<1>4. CASE \E chunk \in Gate!StreamChunks : \E item : Receives(chunk, item)
  <2> PICK chunk \in Gate!StreamChunks : \E item : Receives(chunk, item)
    BY <1>4
  <2> PICK item : Receives(chunk, item)
    OBVIOUS
  <2> DEFINE chunks == arrived[turn]
             part == chunk.delta.part
  <2>1. /\ UNCHANGED <<req, turn>> /\ req.stream /\ turn # 0 /\ chunks \in Seq(Gate!StreamChunks)
        /\ arrived'[turn] = Append(chunks, chunk)
        /\ gathered' = IF part = None THEN gathered ELSE Gate!Gather(gathered, part)
        /\ DOMAIN gathered = IndicesIn(chunks)
        /\ \A i \in DOMAIN gathered :
              gathered[i].name = Pieces(chunks, i, "name") /\ gathered[i].args = Pieces(chunks, i, "args")
    BY <1>1 DEF Receives, Gathering
  <2> HIDE DEF chunks
  <2>2. /\ IndicesIn(arrived'[turn]) = IndicesIn(chunks) \cup (IF part = None THEN {} ELSE {part.index})
        /\ \A i : \A field \in {"name", "args"} :
              /\ Pieces(chunks, i, field) \in Seq(STRING)
              /\ Pieces(arrived'[turn], i, field) = Pieces(chunks, i, field) \o Piece(chunk, i, field)
    BY <2>1, IndicesAppend, PiecesAppend
  <2>3. \A s \in Seq(STRING) : s \o <<>> = s /\ <<>> \o s = s
    OBVIOUS
  <2>4. \A i, field : part = None \/ part.index # i => Piece(chunk, i, field) = <<>>
    BY DEF Piece
  <2>5. CASE part = None
    <3>1. gathered' = gathered /\ IndicesIn(arrived'[turn]) = DOMAIN gathered
      BY <2>1, <2>2, <2>5
    <3>2. ASSUME NEW i, NEW field \in {"name", "args"}
          PROVE  Pieces(arrived'[turn], i, field) = Pieces(chunks, i, field)
      <4>1. Piece(chunk, i, field) = <<>>
        BY <2>4, <2>5
      <4>2. Pieces(chunks, i, field) \in Seq(STRING)
        BY <2>2
      <4>3. Pieces(arrived'[turn], i, field) = Pieces(chunks, i, field) \o <<>>
        BY <2>2, <4>1
      <4>4. QED
        BY <2>3, <4>2, <4>3
    <3>3. QED
      BY <2>1, <3>1, <3>2 DEF Gathering
  <2>6. CASE part # None
    <3> DEFINE j == part.index
    <3>1. /\ Piece(chunk, j, "name") = part.name /\ Piece(chunk, j, "args") = part.args
          /\ part.name \in Seq(STRING) /\ part.args \in Seq(STRING)
      <4>1. Piece(chunk, j, "name") = part.name /\ Piece(chunk, j, "args") = part.args
        BY <2>6 DEF Piece
      <4>2. chunk.delta \in Deltas
        BY <2>6, ChunkIs
      <4>3. \A delta \in Deltas : delta.part # None =>
               delta.part.name \in Seq(STRING) /\ delta.part.args \in Seq(STRING)
        BY GateAssumption
      <4>4. QED
        BY <2>6, <4>1, <4>2, <4>3
    <3>2. /\ DOMAIN gathered' = DOMAIN gathered \cup {j}
          /\ \A i \in DOMAIN gathered' : i # j => i \in DOMAIN gathered /\ gathered'[i] = gathered[i]
      BY <2>1, <2>6 DEF Gate!Gather
    <3>3. j \in DOMAIN gathered =>
             /\ gathered'[j].name = gathered[j].name \o part.name
             /\ gathered'[j].args = gathered[j].args \o part.args
      BY <2>1, <2>6 DEF Gate!Gather, Gate!Grown
    <3>4. j \notin DOMAIN gathered =>
             gathered'[j].name = <<>> \o part.name /\ gathered'[j].args = <<>> \o part.args
      BY <2>1, <2>6 DEF Gate!Gather, Gate!Grown
    <3>5. j \notin DOMAIN gathered => Pieces(chunks, j, "name") = <<>> /\ Pieces(chunks, j, "args") = <<>>
      BY <2>1, NoPieces
    <3>6. IndicesIn(arrived'[turn]) = DOMAIN gathered'
      BY <2>1, <2>2, <2>6, <3>2
    <3> HIDE DEF part, j
    <3>7. ASSUME NEW i \in DOMAIN gathered'
          PROVE  /\ gathered'[i].name = Pieces(arrived'[turn], i, "name")
                 /\ gathered'[i].args = Pieces(arrived'[turn], i, "args")
      <4>1. CASE i = j
        BY <2>1, <2>2, <3>1, <3>3, <3>4, <3>5, <4>1
      <4>2. CASE i # j
        <5>1. Piece(chunk, i, "name") = <<>> /\ Piece(chunk, i, "args") = <<>>
          BY <2>4, <4>2 DEF j, part
        <5>2. i \in DOMAIN gathered /\ gathered'[i] = gathered[i]
          BY <3>2, <4>2
        <5>3. /\ Pieces(chunks, i, "name") \in Seq(STRING) /\ Pieces(chunks, i, "args") \in Seq(STRING)
              /\ Pieces(arrived'[turn], i, "name") = Pieces(chunks, i, "name") \o <<>>
              /\ Pieces(arrived'[turn], i, "args") = Pieces(chunks, i, "args") \o <<>>
          BY <2>2, <5>1
        <5>4. /\ Pieces(arrived'[turn], i, "name") = Pieces(chunks, i, "name")
              /\ Pieces(arrived'[turn], i, "args") = Pieces(chunks, i, "args")
          BY <2>3, <5>3
        <5>5. QED
          BY <2>1, <5>2, <5>4
      <4>3. QED
        BY <4>1, <4>2
    <3>8. QED
      BY <2>1, <3>6, <3>7 DEF Gathering
  <2>7. QED
    BY <2>5, <2>6
<1>5. CASE Judges
  BY <1>1, <1>5 DEF Judges, Gathering
<1>6. QED
  BY <1>2, <1>3, <1>4, <1>5, GateDoes

\* What was found, and told the model, is the first turn's.
LEMMA FindingStep ==
    ASSUME GateInv, [Gate!Next]_gateVars
    PROVE  Finding'
<1>1. /\ Finding /\ GatePhase /\ turn \in {0, 1, 2} /\ Shapes /\ IsSeq(told)
      /\ \A t : t \in 1..turn <=> (t = 1 /\ turn # 0) \/ (t = 2 /\ turn = 2)
  BY DEF GateInv, GatePhase, Shapes
<1> USE DEF Open, Reading, Ended, Judged
<1>2. CASE Quiet
  BY <1>1, <1>2 DEF Quiet, Finding, FirstBroken, GatePhase
<1>3. CASE Opens
  <2>1. turn # 0 => arrived'[1] = arrived[1]
    BY <1>1, <1>3 DEF Opens
  <2>2. QED
    BY <1>1, <1>3, <2>1 DEF Opens, Finding, FirstBroken, GatePhase
<1>4. CASE \E chunk \in Gate!StreamChunks : \E item : Receives(chunk, item)
  <2>1. turn = 2 => arrived'[1] = arrived[1]
    BY <1>1, <1>4 DEF Receives
  <2>2. turn # 2 => told = <<>> /\ found = {}
    BY <1>1, <1>4 DEF Receives, Finding
  <2>3. pc = "read" /\ UNCHANGED <<req, pc, turn, found, told, log>>
    BY <1>4 DEF Receives
  <2>4. CASE turn = 2
    <3>1. FirstBroken' = FirstBroken
      BY <2>1, <2>3, <2>4 DEF FirstBroken
    <3>2. arrived'[1] = arrived[1] /\ req' = req
      BY <2>1, <2>3, <2>4
    <3>3. QED
      BY <1>1, <2>3, <3>1, <3>2 DEF Finding
  <2>5. CASE turn # 2
    BY <2>2, <2>3, <2>5 DEF Finding
  <2>6. QED
    BY <2>4, <2>5
<1>5. CASE Judges
  <2>1. PICK bad :
          /\ pc \in {"read", "whole"} /\ UNCHANGED <<req, turn, held>>
          /\ \A t \in 1..turn : t # turn => arrived'[t] = arrived[t]
          /\ Named(gathered') = CallsIn(req.stream, arrived'[turn])
          /\ bad = BrokenIn(req.stream, arrived'[turn])
          /\ \/ /\ turn = 1 /\ bad # {} /\ found' = bad /\ pc' = "repair"
                /\ \E entry : /\ told' = Append(told, entry)
                              /\ entry.calls = DOMAIN gathered' /\ DOMAIN entry.replies = DOMAIN gathered'
                              /\ \A i \in bad : entry.replies[i] = "invalid"
             \/ /\ UNCHANGED <<found, told>>
                /\ pc' \in Judged \cup {"done"}
    BY <1>5 DEF Judges
  <2>2. CASE turn = 2
    <3>1. arrived'[1] = arrived[1] /\ turn' = 2 /\ req' = req /\ UNCHANGED <<found, told>>
      BY <1>1, <2>1, <2>2
    <3>2. QED
      BY <1>1, <2>1, <2>2, <3>1 DEF Finding, FirstBroken
  <2>3. CASE turn # 2
    <3>1. turn = 1 /\ told = <<>> /\ found = {} /\ turn' = 1
      BY <1>1, <2>1, <2>3 DEF Finding, GatePhase
    <3>2. CASE UNCHANGED <<found, told>> /\ pc' \in Judged \cup {"done"}
      BY <3>1, <3>2 DEF Finding
    <3>3. CASE bad # {} /\ found' = bad /\ pc' = "repair"
                /\ \E entry : /\ told' = Append(told, entry)
                              /\ entry.calls = DOMAIN gathered' /\ DOMAIN entry.replies = DOMAIN gathered'
                              /\ \A i \in bad : entry.replies[i] = "invalid"
      <4>1. PICK entry : /\ told' = Append(told, entry)
                         /\ entry.calls = DOMAIN gathered' /\ DOMAIN entry.replies = DOMAIN gathered'
                         /\ \A i \in bad : entry.replies[i] = "invalid"
        BY <3>3
      <4>2. told' = <<entry>> /\ \A k \in DOMAIN told' : told'[k] = entry
        BY <3>1, <4>1
      <4>3. DOMAIN CallsIn(req.stream, arrived'[1]) = DOMAIN gathered'
        BY <2>1, <3>1 DEF Named
      <4>4. bad = FirstBroken'
        BY <2>1, <3>1 DEF FirstBroken
      <4>5. QED
        BY <2>1, <3>1, <3>3, <4>1, <4>2, <4>3, <4>4 DEF Finding
    <3>4. QED
      BY <2>1, <3>1, <3>2, <3>3
  <2>4. QED
    BY <2>2, <2>3
<1>6. QED
  BY <1>2, <1>3, <1>4, <1>5, GateDoes

\* What waits is the turn's, its finish chunk with it, until the verdict shows it.
LEMMA FinishingStep ==
    ASSUME GateInv, [Gate!Next]_gateVars
    PROVE  Finishing'
<1>1. /\ Finishing /\ Shapes /\ GatePhase
      /\ IsSeq(held) /\ Len(held) \in Nat /\ DOMAIN held = 1..Len(held)
      /\ IsSeq(shown) /\ Len(shown) \in Nat /\ DOMAIN shown = 1..Len(shown)
  BY ItemsSpeak DEF GateInv
<1>2. CASE Quiet
  <2>1. \A n \in DOMAIN shown' :
           \/ n \in DOMAIN shown /\ shown'[n] = shown[n]
           \/ shown'[n].kind \in {"answer", "error", "comment"}
    BY <1>1, <1>2, QuietShows
  <2>2. log' = <<>> => log = <<>>
    BY <1>2 DEF Quiet
  <2>3. UNCHANGED <<req, turn, arrived, held>>
    BY <1>2 DEF Quiet
  <2>4. QED
    BY <1>1, <2>1, <2>2, <2>3 DEF Finishing
<1>3. CASE Opens
  <2>1. held' = <<>> /\ DOMAIN held' = {} /\ log = <<>> /\ UNCHANGED <<req, shown, log>>
    BY <1>3 DEF Opens
  <2>2. QED
    BY <1>1, <2>1 DEF Finishing
<1>4. CASE \E chunk \in Gate!StreamChunks : \E item : Receives(chunk, item)
  <2> PICK chunk \in Gate!StreamChunks : \E item : Receives(chunk, item)
    BY <1>4
  <2> PICK item : Receives(chunk, item)
    OBVIOUS
  <2> DEFINE chunks == arrived[turn]
  <2>1. /\ req.stream /\ log = <<>> /\ UNCHANGED <<req, turn, log>>
        /\ chunks \in Seq(Gate!StreamChunks) /\ arrived'[turn] = Append(chunks, chunk)
        /\ \A i \in 1..Len(chunks) : chunks[i].finish => ~chunk.choices
        /\ item.kind = "chunk" /\ item.turn = turn /\ item.finish = chunk.finish
    BY DEF Receives
  <2>2. /\ held' = held \/ held' = Append(held, item)
        /\ shown' = shown \/ (shown' = Append(shown, item) /\ ~item.finish)
    BY DEF Receives
  <2>3. chunk.finish => chunk.choices
    BY ChunkIs
  <2>4. item.finish => \A n \in DOMAIN held : ~held[n].finish
    BY <1>1, <2>1, <2>3 DEF Finishing
  <2>5. /\ Len(arrived'[turn]) = Len(chunks) + 1 /\ Len(chunks) \in Nat
        /\ arrived'[turn][Len(chunks) + 1] = chunk
        /\ \A k \in 1..Len(chunks) : arrived'[turn][k] = chunks[k]
    BY <2>1
  <2> HIDE DEF chunks
  <2>6. /\ \A n \in DOMAIN held : n \in DOMAIN held' /\ held'[n] = held[n]
        /\ \A n \in DOMAIN held' : (n \in DOMAIN held /\ held'[n] = held[n])
                                      \/ (n = Len(held) + 1 /\ held'[n] = item)
    <3>1. CASE held' = held
      BY <3>1
    <3>2. CASE held' = Append(held, item)
      <4>1. /\ DOMAIN held' = 1..(Len(held) + 1) /\ held'[Len(held) + 1] = item
            /\ \A n \in 1..Len(held) : held'[n] = held[n]
        BY <1>1, <3>2, SeqAppend
      <4>2. QED
        BY <1>1, <4>1
    <3>3. QED
      BY <2>2, <3>1, <3>2
  <2>7. \A n \in DOMAIN shown' : \/ n \in DOMAIN shown /\ shown'[n] = shown[n]
                                 \/ shown'[n] = item /\ ~item.finish
    <3>1. CASE shown' = shown
      BY <3>1
    <3>2. CASE shown' = Append(shown, item) /\ ~item.finish
      <4>1. /\ DOMAIN shown' = 1..(Len(shown) + 1) /\ shown'[Len(shown) + 1] = item
            /\ \A n \in 1..Len(shown) : shown'[n] = shown[n]
        BY <1>1, <3>2, SeqAppend
      <4>2. QED
        BY <1>1, <3>2, <4>1
    <3>3. QED
      BY <2>2, <3>1, <3>2
  <2>8. \A n, k \in DOMAIN held' : held'[n].finish /\ held'[k].finish => n = k
    BY <1>1, <2>4, <2>6 DEF Finishing
  <2>9. ASSUME NEW n \in DOMAIN held', held'[n].finish
        PROVE  \E k \in 1..Len(arrived'[turn]) : arrived'[turn][k].finish
    <3>1. CASE n \in DOMAIN held /\ held'[n] = held[n]
      <4>1. PICK k \in 1..Len(chunks) : chunks[k].finish
        BY <1>1, <2>9, <3>1 DEF Finishing, chunks
      <4>2. QED
        BY <2>5, <4>1
    <3>2. CASE held'[n] = item
      BY <2>1, <2>5, <2>9, <3>2
    <3>3. QED
      BY <2>6, <3>1, <3>2
  <2>10. \A n \in DOMAIN shown' :
            shown'[n].kind # "calls" /\ (shown'[n].kind = "chunk" => ~shown'[n].finish)
    BY <1>1, <2>1, <2>7 DEF Finishing
  <2>11. QED
    BY <2>1, <2>8, <2>9, <2>10 DEF Finishing
<1>5. CASE Judges
  <2>1. /\ UNCHANGED <<req, turn, held>> /\ log = <<>>
        /\ req.stream => arrived' = arrived
    BY <1>1, <1>5 DEF Judges, GatePhase, Open, Reading
  <2>0. Finishing
    BY <1>1
  <2>2. \A n \in DOMAIN shown :
           shown[n].kind # "calls" /\ (shown[n].kind = "chunk" => ~shown[n].finish)
    BY <2>0, <2>1 DEF Finishing
  <2>3. /\ \A n, k \in DOMAIN held : held[n].finish /\ held[k].finish => n = k
        /\ \A n \in DOMAIN held : held[n].kind = "chunk" /\ held[n].turn = turn
    BY <1>1 DEF Finishing, Shapes
  <2>4. /\ \A n \in DOMAIN shown : shown'[n] = shown[n]
        /\ \A n \in DOMAIN shown' : n \notin DOMAIN shown =>
              \/ shown'[n].kind = "calls"
              \/ \E k \in DOMAIN held :
                    /\ shown'[n] = held[k]
                    /\ n = Len(shown) + (IF DOMAIN gathered = {} THEN 0 ELSE 1) + k
    BY <1>1, <1>5, JudgedShows
  <2>5. \A n \in DOMAIN shown' : shown'[n].kind = "chunk" /\ shown'[n].finish =>
           \E k \in DOMAIN held :
                    /\ shown'[n] = held[k] /\ held[k].finish
                    /\ n = Len(shown) + (IF DOMAIN gathered = {} THEN 0 ELSE 1) + k
    BY <2>2, <2>4
  <2>6. \A n, k \in DOMAIN shown' :
          shown'[n].kind = "chunk" /\ shown'[k].kind = "chunk" /\ shown'[n].finish /\ shown'[k].finish
             => n = k /\ shown'[n].turn = turn
    <3>1. TAKE n, k \in DOMAIN shown'
    <3>2. HAVE shown'[n].kind = "chunk" /\ shown'[k].kind = "chunk" /\ shown'[n].finish /\ shown'[k].finish
    <3>3. PICK i \in DOMAIN held :
             /\ shown'[n] = held[i] /\ held[i].finish
             /\ n = Len(shown) + (IF DOMAIN gathered = {} THEN 0 ELSE 1) + i
      BY <2>5, <3>2
    <3>4. PICK j \in DOMAIN held :
             /\ shown'[k] = held[j] /\ held[j].finish
             /\ k = Len(shown) + (IF DOMAIN gathered = {} THEN 0 ELSE 1) + j
      BY <2>5, <3>2
    <3>5. i = j
      BY <2>3, <3>3, <3>4
    <3>6. QED
      BY <2>3, <3>3, <3>4, <3>5
  <2>7. log' = <<>> => shown' = shown
    <3>0. \A entry : <<entry>> # <<>>
      OBVIOUS
    <3>1. pc' # "repair" => log' # <<>>
      BY <1>5, <3>0 DEF Judges
    <3>2. pc' = "repair" => shown' = shown
      BY <1>1, <1>5, JudgedShows
    <3>3. QED
      BY <3>1, <3>2
  <2>8. ~req.stream => held' = <<>> /\ DOMAIN held' = {}
    <3>1. DOMAIN <<>> = {}
      OBVIOUS
    <3>2. ~req.stream => held = <<>>
      BY <2>0 DEF Finishing
    <3>3. QED
      BY <2>1, <3>1, <3>2
  <2>9. \A n \in DOMAIN held' :
          held'[n].finish => \E k \in 1..Len(arrived'[turn]) : arrived'[turn][k].finish
    <3>1. \A n \in DOMAIN held :
            held[n].finish => \E k \in 1..Len(arrived[turn]) : arrived[turn][k].finish
      BY <2>0 DEF Finishing
    <3>2. QED
      BY <2>1, <2>8, <3>1
  <2>10. log' = <<>> => \A n \in DOMAIN shown' :
           shown'[n].kind # "calls" /\ (shown'[n].kind = "chunk" => ~shown'[n].finish)
    BY <2>2, <2>7
  <2>11. \A n, k \in DOMAIN held' : held'[n].finish /\ held'[k].finish => n = k
    BY <2>1, <2>3
  <2>12. QED
    BY <2>1, <2>6, <2>8, <2>9, <2>10, <2>11 DEF Finishing
<1>6. QED
  BY <1>2, <1>3, <1>4, <1>5, GateDoes

\* The texts of a turn go on being those that were sent, but for what waits.
LEMMA TellingStep ==
    ASSUME GateInv, [Gate!Next]_gateVars
    PROVE  Telling'
<1>1. /\ Telling /\ Finishing /\ Shapes /\ GatePhase /\ turn \in {0, 1, 2}
      /\ AllSpeak(held) /\ AllSpeak(shown)
      /\ \A t : Texts(shown, t) \in Seq(Marks) /\ Texts(held, t) \in Seq(Marks)
  BY ItemsSpeak DEF GateInv, GatePhase
<1>2. CASE Quiet
  <2>1. UNCHANGED <<req, turn, arrived, held>> /\ (log' = <<>> => log = <<>>)
    BY <1>2 DEF Quiet
  <2>2. \A t : Texts(shown', t) = Texts(shown, t)
    BY <1>1, <1>2, QuietShows
  <2>3. QED
    BY <1>1, <2>1, <2>2 DEF Telling
<1>3. CASE Opens
  <2>1. /\ turn' = turn + 1 /\ turn \in {0, 1} /\ log = <<>> /\ UNCHANGED <<req, shown, log>>
        /\ held' = <<>> /\ arrived'[turn + 1] = <<>>
        /\ \A t \in 1..turn : arrived'[t] = arrived[t]
    BY <1>3 DEF Opens
  <2>2. \A withheld : Sent(<<>>, withheld) = <<>>
    BY DEF Sent, FlattenSeq
  <2>3. \A t : Texts(<<>>, t) = <<>>
    BY DEF Texts, FlattenSeq
  <2>4. Texts(shown, turn + 1) = <<>>
    <3>1. \A n \in DOMAIN shown : shown[n].kind = "chunk" => shown[n].turn # turn + 1
      BY <1>1, <2>1 DEF Shapes, ChunkItem
    <3>2. IsSeq(shown)
      BY <1>1 DEF AllSpeak
    <3>3. QED
      BY <3>1, <3>2, NoTexts
  <2>5. <<>> \o <<>> = <<>>
    OBVIOUS
  <2>6. turn = 1 /\ req.stream => Texts(shown, 1) = Sent(arrived'[1], TRUE)
    <3>1. turn = 1 => arrived'[1] = arrived[1]
      BY <2>1
    <3>2. turn = 1 /\ req.stream => Texts(shown, turn) = Sent(arrived[turn], TRUE)
      BY <1>1, <2>1 DEF Telling
    <3>3. QED
      BY <3>1, <3>2
  <2>7. turn' = 2 => turn = 1
    BY <2>1
  <2>8. /\ Texts(shown', turn') = Sent(arrived'[turn'], TRUE)
        /\ Sent(arrived'[turn'], FALSE) = Sent(arrived'[turn'], TRUE) \o Texts(held', turn')
        /\ Texts(held', turn') = <<>>
    BY <2>1, <2>2, <2>3, <2>4, <2>5
  <2>9. req.stream /\ turn' = 2 => Texts(shown', 1) = Sent(arrived'[1], TRUE)
    BY <2>1, <2>6, <2>7
  <2>10. QED
    BY <2>1, <2>8, <2>9 DEF Telling
<1>4. CASE \E chunk \in Gate!StreamChunks : \E item : Receives(chunk, item)
  <2> PICK chunk \in Gate!StreamChunks : \E item : Receives(chunk, item)
    BY <1>4
  <2> PICK item : Receives(chunk, item)
    OBVIOUS
  <2> DEFINE chunks == arrived[turn]
             n == Len(chunks) + 1
  <2>1. /\ req.stream /\ turn \in {1, 2} /\ log = <<>> /\ UNCHANGED <<req, turn, log>>
        /\ chunks \in Seq(Gate!StreamChunks) /\ arrived'[turn] = Append(chunks, chunk)
        /\ \A t \in 1..turn : t # turn => arrived'[t] = arrived[t]
        /\ \A i \in 1..Len(chunks) : chunks[i].finish => ~chunk.choices
        /\ item.kind = "chunk" /\ item.turn = turn /\ item.finish = chunk.finish
        /\ ChunkItem(item) /\ item.place = n /\ item.text = chunk.delta.text
    BY DEF Receives
  <2>2. \/ (chunk.finish \/ ~chunk.choices) /\ held' = Append(held, item) /\ UNCHANGED shown
        \/ /\ ~chunk.finish /\ chunk.choices /\ UNCHANGED held
           /\ \/ shown' = Append(shown, item)
              \/ chunk.delta.text = "none" /\ UNCHANGED shown
    BY DEF Receives
  <2>3. /\ Texts(shown, turn) = Sent(chunks, TRUE)
        /\ Sent(chunks, FALSE) = Sent(chunks, TRUE) \o Texts(held, turn)
        /\ Texts(held, turn) = <<>> \/ \E k \in 1..Len(chunks) : chunks[k].finish
        /\ turn = 2 => Texts(shown, 1) = Sent(arrived[1], TRUE)
    <3>1. Telling /\ req.stream /\ turn # 0 /\ log = <<>>
      BY <1>1, <2>1
    <3>2. QED
      BY <3>1 DEF Telling
  <2>4. Speaks(item)
    BY <2>1 DEF Speaks, ChunkItem
  <2>5. /\ Said(item, turn) = Text(n, chunk, FALSE)
        /\ Text(n, chunk, TRUE) = IF chunk.finish THEN <<>> ELSE Text(n, chunk, FALSE)
        /\ ~chunk.choices => Text(n, chunk, FALSE) = <<>> /\ ~chunk.finish
        /\ chunk.delta.text = "none" => Text(n, chunk, FALSE) = <<>>
        /\ turn = 2 => Said(item, 1) = <<>>
    <3>1. ~chunk.choices => chunk.delta.text = "none" /\ ~chunk.finish
      BY ChunkIs
    <3> HIDE DEF n
    <3>2. QED
      BY <2>1, <3>1 DEF Said, Text
  <2> DEFINE X == Text(n, chunk, FALSE)
             Y == Text(n, chunk, TRUE)
             S == Sent(chunks, FALSE)
             W == Sent(chunks, TRUE)
             H == Texts(held, turn)
  <2>6. /\ S \in Seq(Marks) /\ W \in Seq(Marks) /\ X \in Seq(Marks) /\ Y \in Seq(Marks) /\ H \in Seq(Marks)
        /\ Sent(arrived'[turn], FALSE) = S \o X /\ Sent(arrived'[turn], TRUE) = W \o Y
    <3>0. FALSE \in BOOLEAN /\ TRUE \in BOOLEAN /\ chunks \in Seq(Gate!StreamChunks)
      BY <2>1
    <3>1. Sent(Append(chunks, chunk), FALSE) = S \o X /\ S \in Seq(Marks) /\ X \in Seq(Marks)
      BY <3>0, SentAppend
    <3>2. Sent(Append(chunks, chunk), TRUE) = W \o Y /\ W \in Seq(Marks) /\ Y \in Seq(Marks)
      BY <3>0, SentAppend
    <3>3. QED
      BY <1>1, <2>1, <3>1, <3>2
  <2>7. /\ Texts(Append(shown, item), turn) = Texts(shown, turn) \o X
        /\ Texts(Append(held, item), turn) = H \o X
        /\ turn = 2 => Texts(Append(shown, item), 1) = Texts(shown, 1) \o <<>>
    <3>1. Texts(Append(shown, item), turn) = Texts(shown, turn) \o Said(item, turn)
      BY <1>1, <2>4, TextsAppend
    <3>2. Texts(Append(held, item), turn) = Texts(held, turn) \o Said(item, turn)
      BY <1>1, <2>4, TextsAppend
    <3>3. Texts(Append(shown, item), 1) = Texts(shown, 1) \o Said(item, 1)
      BY <1>1, <2>4, TextsAppend
    <3>4. QED
      BY <2>5, <3>1, <3>2, <3>3
  <2>8. \A s \in Seq(Marks) : s \o <<>> = s
    OBVIOUS
  <2>9. \A s, u, v \in Seq(Marks) : (s \o u) \o v = s \o (u \o v)
    OBVIOUS
  <2>10. /\ Len(arrived'[turn]) = n /\ arrived'[turn][n] = chunk /\ n \in 1..n
         /\ \A k \in 1..Len(chunks) : arrived'[turn][k] = chunks[k] /\ k \in 1..n
    BY <2>1
  <2>11. (\E k \in 1..Len(chunks) : chunks[k].finish)
            => \E k \in 1..Len(arrived'[turn]) : arrived'[turn][k].finish
    <3> HIDE DEF n, chunks
    <3> QED BY <2>10
  <2>12. chunk.finish => \E k \in 1..Len(arrived'[turn]) : arrived'[turn][k].finish
    <3> HIDE DEF n, chunks
    <3> QED BY <2>10
  <2>13. turn = 2 => arrived'[1] = arrived[1]
    BY <2>1
  <2>14. Texts(shown, turn) \in Seq(Marks) /\ Texts(shown, 1) \in Seq(Marks)
    BY <1>1
  <2> HIDE DEF X, Y, S, W, H, n, chunks
  <2>15. CASE (chunk.finish \/ ~chunk.choices) /\ held' = Append(held, item) /\ UNCHANGED shown
    <3>1. Y = <<>>
      BY <2>5, <2>15 DEF X, Y
    <3>2. Sent(arrived'[turn], TRUE) = W
      BY <2>6, <2>8, <3>1
    <3>3. Texts(held', turn) = H \o X
      BY <2>7, <2>15
    <3>4. Sent(arrived'[turn], FALSE) = W \o (H \o X)
      <4>1. S = W \o H
        BY <2>3 DEF S, W, H
      <4>2. QED
        BY ZenonT(40), <2>6, <2>9, <4>1
    <3>5. Texts(held', turn) = <<>> \/ \E k \in 1..Len(arrived'[turn]) : arrived'[turn][k].finish
      <4>1. CASE chunk.finish
        BY <2>12, <4>1
      <4>2. CASE ~chunk.finish
        <5>1. X = <<>>
          BY <2>5, <2>15, <4>2 DEF X
        <5>2. Texts(held', turn) = H
          BY <2>6, <2>8, <3>3, <5>1
        <5>3. QED
          BY <2>3, <2>11, <5>2 DEF H
      <4>3. QED
        BY <4>1, <4>2
    <3>6. Texts(shown', turn) = W
      BY <2>3, <2>15 DEF W
    <3>7. turn = 2 => Texts(shown', 1) = Sent(arrived'[1], TRUE)
      BY <2>3, <2>13, <2>15
    <3>8. QED
      BY <2>1, <3>2, <3>3, <3>4, <3>5, <3>6, <3>7 DEF Telling
  <2>16. CASE /\ ~chunk.finish /\ chunk.choices /\ UNCHANGED held
              /\ \/ shown' = Append(shown, item)
                 \/ chunk.delta.text = "none" /\ UNCHANGED shown
    <3>1. H = <<>>
      BY <2>1, <2>3, <2>16 DEF H
    <3>2. Y = X
      BY <2>5, <2>16 DEF X, Y
    <3>3. S = W
      BY <2>3, <2>6, <2>8, <3>1 DEF S, W, H
    <3>4. Texts(shown', turn) = W \o X
      <4>1. CASE shown' = Append(shown, item)
        BY <2>3, <2>7, <4>1 DEF W
      <4>2. CASE chunk.delta.text = "none" /\ UNCHANGED shown
        <5>1. X = <<>>
          BY <2>5, <4>2 DEF X
        <5>2. Texts(shown', turn) = W
          BY <2>3, <4>2 DEF W
        <5>3. QED
          BY <2>6, <2>8, <5>1, <5>2
      <4>3. QED
        BY <2>16, <4>1, <4>2
    <3>5. W \o X \in Seq(Marks)
      BY <2>6
    <3>6. Texts(held', turn) = <<>>
      BY <2>16, <3>1 DEF H
    <3>7. /\ Sent(arrived'[turn], TRUE) = W \o X
          /\ Sent(arrived'[turn], FALSE) = (W \o X) \o <<>>
      BY <2>6, <2>8, <3>2, <3>3, <3>5
    <3>8. turn = 2 => Texts(shown', 1) = Sent(arrived'[1], TRUE)
      <4>1. turn = 2 => Texts(shown', 1) = Texts(shown, 1)
        BY <2>7, <2>8, <2>14, <2>16
      <4>2. QED
        BY <2>3, <2>13, <4>1
    <3>9. QED
      BY <2>1, <3>4, <3>6, <3>7, <3>8 DEF Telling
  <2>17. QED
    BY <2>2, <2>15, <2>16
<1>5. CASE Judges
  <2>1. /\ UNCHANGED <<req, turn, held>> /\ turn \in {1, 2} /\ log = <<>>
        /\ req.stream => arrived' = arrived
    BY <1>1, <1>5 DEF Judges, GatePhase, Open, Reading
  <2>2. log' = <<>> => shown' = shown
    <3>0. \A entry : <<entry>> # <<>>
      OBVIOUS
    <3>1. pc' # "repair" => log' # <<>>
      BY <1>5, <3>0 DEF Judges
    <3>2. pc' = "repair" => shown' = shown
      BY <1>1, <1>5, JudgedShows
    <3>3. QED
      BY <3>1, <3>2
  <2>3. turn = 2 => Texts(shown', 1) = Texts(shown, 1)
    <3>1. turn = 2 => Texts(held, 1) = <<>>
      <4>1. turn = 2 => \A n \in DOMAIN held : held[n].kind = "chunk" => held[n].turn # 1
        BY <1>1 DEF Shapes
      <4>2. IsSeq(held)
        BY <1>1 DEF AllSpeak
      <4>3. QED
        BY <4>1, <4>2, NoTexts
    <3>2. Texts(shown', 1) = Texts(shown, 1) \/ Texts(shown', 1) = Texts(shown, 1) \o Texts(held, 1)
      BY <1>1, <1>5, JudgedShows
    <3>3. Texts(shown, 1) \in Seq(Marks)
      BY <1>1
    <3>4. Texts(shown, 1) \o <<>> = Texts(shown, 1)
      BY <3>3
    <3>5. QED
      BY <3>1, <3>2, <3>4
  <2>4. req.stream /\ turn = 2 => Texts(shown', 1) = Sent(arrived'[1], TRUE)
    BY <1>1, <2>1, <2>3 DEF Telling
  <2>5. req.stream /\ log' = <<>> =>
          /\ Texts(shown', turn) = Sent(arrived'[turn], TRUE)
          /\ Sent(arrived'[turn], FALSE) = Sent(arrived'[turn], TRUE) \o Texts(held', turn)
          /\ \/ Texts(held', turn) = <<>>
             \/ \E k \in 1..Len(arrived'[turn]) : arrived'[turn][k].finish
    <3>1. Telling /\ turn # 0 /\ log = <<>>
      BY <1>1, <2>1
    <3>2. req.stream =>
            /\ Texts(shown, turn) = Sent(arrived[turn], TRUE)
            /\ Sent(arrived[turn], FALSE) = Sent(arrived[turn], TRUE) \o Texts(held, turn)
            /\ \/ Texts(held, turn) = <<>>
               \/ \E k \in 1..Len(arrived[turn]) : arrived[turn][k].finish
      BY <3>1 DEF Telling
    <3>3. QED
      BY <2>1, <2>2, <3>2
  <2>6. QED
    BY <2>1, <2>4, <2>5 DEF Telling
<1>6. QED
  BY <1>2, <1>3, <1>4, <1>5, GateDoes

\* What holds of a turn that is judged.
LEMMA JudgedIs ==
    ASSUME GateInv, Judges
    PROVE  /\ turn \in {1, 2} /\ turn' = turn /\ req' = req /\ log = <<>> /\ Gate!Checked
           /\ turn = 2 => arrived'[1] = arrived[1]
           /\ pc' = "repair" => UNCHANGED <<shown, log>>
           /\ pc' # "repair" =>
                 /\ \A n \in DOMAIN shown' : shown'[n].kind = "calls" =>
                       /\ n = Len(shown) + 1 /\ shown'[n].turn = turn /\ shown'[n].calls = gathered'
                       /\ ~req.stream => log' = <<[outcome |-> shown'[n].outcome, found |-> found]>>
                       /\ req.stream => DOMAIN gathered # {}
                 /\ \A n \in DOMAIN shown' : shown'[n].kind = "chunk" /\ shown'[n].finish =>
                       n > Len(shown) + (IF DOMAIN gathered = {} THEN 0 ELSE 1) /\ req.stream
<1>1. /\ GatePhase /\ Shapes /\ Finishing
      /\ Len(shown) \in Nat /\ DOMAIN shown = 1..Len(shown)
      /\ Len(held) \in Nat /\ DOMAIN held = 1..Len(held)
  BY ItemsSpeak DEF GateInv
<1>2. /\ turn \in {1, 2} /\ turn' = turn /\ req' = req /\ log = <<>> /\ Gate!Checked
      /\ turn = 2 => arrived'[1] = arrived[1]
  <2>1. /\ pc \in {"read", "whole"} /\ UNCHANGED <<req, turn, held>>
        /\ \A t \in 1..turn : t # turn => arrived'[t] = arrived[t]
    BY DEF Judges
  <2>2. turn \in {1, 2} /\ log = <<>> /\ Gate!Checked
    BY <1>1, <2>1 DEF GatePhase, Open, Reading
  <2>3. turn = 2 => 1 \in 1..turn
    OBVIOUS
  <2>4. QED
    BY <2>1, <2>2, <2>3
<1>3. pc' = "repair" => UNCHANGED <<shown, log>>
  BY <1>1, JudgedShows
<1>4. \A n \in DOMAIN shown : shown[n].kind # "calls" /\ (shown[n].kind = "chunk" => ~shown[n].finish)
  BY <1>1, <1>2 DEF Finishing
<1>5. \A k \in DOMAIN held : held[k].kind = "chunk"
  BY <1>1 DEF Shapes
<1>6. /\ \A n \in DOMAIN shown : shown'[n] = shown[n]
      /\ \A n \in DOMAIN shown' : n \notin DOMAIN shown =>
                 \/ /\ n = Len(shown) + 1 /\ shown'[n].kind = "calls" /\ shown'[n].turn = turn
                    /\ shown'[n].calls = gathered'
                    /\ ~req.stream => log' = <<[outcome |-> shown'[n].outcome, found |-> found]>>
                    /\ req.stream => DOMAIN gathered # {}
                 \/ \E k \in DOMAIN held :
                       /\ req.stream /\ shown'[n] = held[k]
                       /\ n = Len(shown) + (IF DOMAIN gathered = {} THEN 0 ELSE 1) + k
  BY <1>1, JudgedShows
<1>7. \A n \in DOMAIN shown' : shown'[n].kind = "calls" =>
                       /\ n = Len(shown) + 1 /\ shown'[n].turn = turn /\ shown'[n].calls = gathered'
                       /\ ~req.stream => log' = <<[outcome |-> shown'[n].outcome, found |-> found]>>
                       /\ req.stream => DOMAIN gathered # {}
  BY <1>4, <1>5, <1>6
<1>8. \A n \in DOMAIN shown' : shown'[n].kind = "chunk" /\ shown'[n].finish =>
         \E k \in DOMAIN held :
            req.stream /\ n = Len(shown) + (IF DOMAIN gathered = {} THEN 0 ELSE 1) + k
  BY <1>4, <1>6
<1>9. \A n \in DOMAIN shown' : shown'[n].kind = "chunk" /\ shown'[n].finish =>
         n > Len(shown) + (IF DOMAIN gathered = {} THEN 0 ELSE 1) /\ req.stream
  BY <1>1, <1>8
<1>10. QED
  BY <1>2, <1>3, <1>7, <1>9

\* The log gets its line from a judgement, or from a repair that is refused.
LEMMA LogStep ==
    ASSUME GateInv, [Gate!Next]_gateVars
    PROVE  /\ log # <<>> => log' = log
           /\ Quiet /\ log' # log =>
                 /\ log = <<>> /\ log' = <<[outcome |-> "error", found |-> found]>> /\ turn = 2
                 /\ \A n \in DOMAIN shown : shown[n].kind \notin {"calls", "comment"}
                 /\ Gate!Checked
           /\ log = <<>> => \A n \in DOMAIN shown : shown[n].kind \notin {"calls", "comment"}
<1>1. GatePhase /\ Finishing /\ Logging
  BY DEF GateInv
<1>2. \A entry : <<entry>> # <<>>
  OBVIOUS
<1>3. log = <<>> => \A n \in DOMAIN shown : shown[n].kind # "calls"
  BY <1>1 DEF Finishing
<1>4. log = <<>> => \A n \in DOMAIN shown : shown[n].kind # "comment"
  BY <1>1, <1>2 DEF Logging, Logged
<1>5. Quiet /\ log' # log => /\ log = <<>> /\ Gate!Checked /\ turn = 2
                            /\ log' = <<[outcome |-> "error", found |-> found]>>
  BY <1>1 DEF Quiet, GatePhase, Open, Reading
<1>6. log # <<>> => log' = log
  <2>1. CASE Quiet
    BY <1>5, <2>1
  <2>2. CASE Opens
    BY <2>2 DEF Opens
  <2>3. CASE \E chunk \in Gate!StreamChunks : \E item : Receives(chunk, item)
    BY <2>3 DEF Receives
  <2>4. CASE Judges
    BY <2>4, JudgedIs
  <2>5. QED
    BY <2>1, <2>2, <2>3, <2>4, GateDoes
<1>7. QED
  BY <1>3, <1>4, <1>5, <1>6

\* The calls that are shown stay those of the last turn.
LEMMA ListingStep ==
    ASSUME GateInv, [Gate!Next]_gateVars
    PROVE  Listing'
<1>1. /\ Listing /\ Shapes /\ GatePhase
      /\ IsSeq(shown) /\ Len(shown) \in Nat /\ DOMAIN shown = 1..Len(shown)
  BY ItemsSpeak DEF GateInv
<1>2. log = <<>> => \A n \in DOMAIN shown : shown[n].kind # "calls"
  BY LogStep
<1>3. CASE Quiet
  <2>1. /\ \A n \in DOMAIN shown' : shown'[n].kind \in {"calls", "chunk"} =>
              n \in DOMAIN shown /\ shown'[n] = shown[n]
    BY <1>1, <1>3, QuietShows
  <2>2. UNCHANGED <<req, turn, arrived, found>>
    BY <1>3 DEF Quiet
  <2>3. CASE log = <<>>
    BY <1>2, <2>1, <2>3 DEF Listing
  <2>4. CASE log # <<>>
    <3>1. log' = log
      BY <2>4, LogStep
    <3>2. FirstBroken' = FirstBroken
      BY <2>2 DEF FirstBroken
    <3>3. \A result : Logged(result)' <=> Logged(result)
      BY <2>2, <3>1 DEF Logged
    <3>4. Listing
      BY <1>1
    <3>5. ASSUME NEW n \in DOMAIN shown', shown'[n].kind = "calls"
          PROVE  /\ shown'[n].turn = turn' /\ (turn' = 1 => FirstBroken' = {})
                 /\ Named(shown'[n].calls) = CallsIn(req'.stream, arrived'[turn'])
                 /\ ~req'.stream => log' = <<[outcome |-> shown'[n].outcome, found |-> found']>>
                 /\ \A k \in DOMAIN shown' :
                       /\ shown'[k].kind = "calls" => k = n
                       /\ shown'[k].kind = "chunk" /\ shown'[k].finish => n < k
      <4>1. n \in DOMAIN shown /\ shown'[n] = shown[n] /\ shown[n].kind = "calls"
        BY <2>1, <3>5
      <4>2. /\ shown[n].turn = turn /\ (turn = 1 => FirstBroken = {})
            /\ Named(shown[n].calls) = CallsIn(req.stream, arrived[turn])
            /\ ~req.stream => Logged(shown[n].outcome)
            /\ \A k \in DOMAIN shown :
                  /\ shown[k].kind = "calls" => k = n
                  /\ shown[k].kind = "chunk" /\ shown[k].finish => n < k
        BY <3>4, <4>1 DEF Listing
      <4>3. ~req'.stream => log' = <<[outcome |-> shown'[n].outcome, found |-> found']>>
        BY <2>2, <3>1, <4>1, <4>2 DEF Logged
      <4>4. QED
        BY <2>1, <2>2, <3>2, <4>1, <4>2, <4>3
    <3>6. QED
      BY <3>5 DEF Listing, Logged
  <2>5. QED
    BY <2>3, <2>4
<1>4. CASE Opens
  <2>1. log = <<>> /\ shown' = shown
    BY <1>4 DEF Opens
  <2>2. QED
    BY <1>2, <2>1 DEF Listing
<1>5. CASE \E chunk \in Gate!StreamChunks : \E item : Receives(chunk, item)
  <2> PICK chunk \in Gate!StreamChunks : \E item : Receives(chunk, item)
    BY <1>5
  <2> PICK item : Receives(chunk, item)
    OBVIOUS
  <2>1. log = <<>> /\ item.kind = "chunk" /\ (shown' = shown \/ shown' = Append(shown, item))
    BY DEF Receives
  <2>2. \A n \in DOMAIN shown' : (n \in DOMAIN shown /\ shown'[n] = shown[n]) \/ shown'[n] = item
    BY <1>1, <2>1, OneMore
  <2>3. \A n \in DOMAIN shown' : shown'[n].kind # "calls"
    BY <1>2, <2>1, <2>2
  <2>4. QED
    BY <2>3 DEF Listing
<1>6. CASE Judges
  <2>1. /\ turn \in {1, 2} /\ turn' = turn /\ req' = req /\ log = <<>>
        /\ turn = 2 => arrived'[1] = arrived[1]
    BY <1>6, JudgedIs
  <2>2. CASE pc' = "repair"
    <3>1. shown' = shown
      BY <1>6, <2>2, JudgedIs
    <3>2. QED
      BY <1>2, <2>1, <3>1 DEF Listing
  <2>3. CASE pc' # "repair"
    <3>1. /\ \A n \in DOMAIN shown' : shown'[n].kind = "calls" =>
                /\ n = Len(shown) + 1 /\ shown'[n].turn = turn /\ shown'[n].calls = gathered'
                /\ ~req.stream => log' = <<[outcome |-> shown'[n].outcome, found |-> found]>>
                /\ req.stream => DOMAIN gathered # {}
          /\ \A n \in DOMAIN shown' : shown'[n].kind = "chunk" /\ shown'[n].finish =>
                n > Len(shown) + (IF DOMAIN gathered = {} THEN 0 ELSE 1) /\ req.stream
      BY <1>6, <2>3, JudgedIs
    <3>2. /\ Named(gathered') = CallsIn(req.stream, arrived'[turn]) /\ found' = found
          /\ turn = 1 => BrokenIn(req.stream, arrived'[turn]) = {}
      BY <1>6, <2>3 DEF Judges
    <3>3. turn = 1 => FirstBroken' = {}
      BY <2>1, <3>2 DEF FirstBroken
    <3>4. ASSUME NEW n \in DOMAIN shown', shown'[n].kind = "calls"
          PROVE  /\ shown'[n].turn = turn' /\ (turn' = 1 => FirstBroken' = {})
                 /\ Named(shown'[n].calls) = CallsIn(req'.stream, arrived'[turn'])
                 /\ ~req'.stream => log' = <<[outcome |-> shown'[n].outcome, found |-> found']>>
                 /\ \A k \in DOMAIN shown' :
                       /\ shown'[k].kind = "calls" => k = n
                       /\ shown'[k].kind = "chunk" /\ shown'[k].finish => n < k
      <4>1. /\ n = Len(shown) + 1 /\ shown'[n].turn = turn /\ shown'[n].calls = gathered'
            /\ ~req.stream => log' = <<[outcome |-> shown'[n].outcome, found |-> found]>>
            /\ req.stream => DOMAIN gathered # {}
        BY <3>1, <3>4
      <4>2. ~req'.stream => log' = <<[outcome |-> shown'[n].outcome, found |-> found']>>
        BY <2>1, <3>2, <4>1 DEF Logged
      <4>3. \A k \in DOMAIN shown' :
                  /\ shown'[k].kind = "calls" => k = n
                  /\ shown'[k].kind = "chunk" /\ shown'[k].finish => n < k
        <5>1. TAKE k \in DOMAIN shown'
        <5>2. shown'[k].kind = "calls" => k = n
          BY <3>1, <4>1
        <5>3. ASSUME shown'[k].kind = "chunk" /\ shown'[k].finish PROVE n < k
          <6>1. k > Len(shown) + 1
            BY <3>1, <4>1, <5>3
          <6>2. QED
            BY <1>1, <4>1, <6>1
        <5>4. QED
          BY <5>2, <5>3
      <4>4. QED
        BY <2>1, <3>2, <3>3, <4>1, <4>2, <4>3
    <3>5. QED
      BY <3>4 DEF Listing, Logged
  <2>4. QED
    BY <2>2, <2>3
<1>7. QED
  BY <1>3, <1>4, <1>5, <1>6, GateDoes

\* The log's line agrees with the turns when it is written, and stays.
LEMMA LoggingStep ==
    ASSUME GateInv, [Gate!Next]_gateVars
    PROVE  Logging'
<1>1. /\ Logging /\ Finding /\ Shapes /\ GatePhase /\ IsSeq(shown)
  BY ItemsSpeak DEF GateInv
<1>2. /\ log = <<>> => \A n \in DOMAIN shown : shown[n].kind # "comment"
      /\ log # <<>> => log' = log
  BY LogStep
<1>3. CASE Quiet
  <2>1. \A n \in DOMAIN shown' : shown'[n].kind = "comment" =>
           \/ n \in DOMAIN shown /\ shown'[n] = shown[n]
           \/ Logged(shown'[n].outcome) /\ req.stream /\ log' = log
    BY <1>1, <1>3, QuietShows
  <2>2. UNCHANGED <<req, turn, arrived, found>>
    BY <1>3 DEF Quiet
  <2>3. FirstBroken' = FirstBroken /\ (Gate!Checked)' = Gate!Checked
    BY <2>2 DEF FirstBroken, Gate!Checked
  <2>4. CASE log' = log
    <3>1. ASSUME NEW result PROVE Logged(result)' <=> Logged(result)
      BY <2>2, <2>4 DEF Logged
    <3>2. log' # <<>> => \E result \in Ended :
          /\ Logged(result)' /\ (Gate!Checked)' /\ found' = FirstBroken'
          /\ result = "passed" <=> turn' = 1
          /\ result \in {"repaired", "unrepaired"} =>
                (BrokenIn(req'.stream, arrived'[2]) = {} <=> result = "repaired")
      <4>1. HAVE log' # <<>>
      <4>2. PICK result \in Ended :
              /\ Logged(result) /\ Gate!Checked /\ found = FirstBroken
              /\ result = "passed" <=> turn = 1
              /\ result \in {"repaired", "unrepaired"} =>
                    (BrokenIn(req.stream, arrived[2]) = {} <=> result = "repaired")
        BY <1>1, <2>4, <4>1 DEF Logging
      <4>3. QED
        BY <2>2, <2>3, <3>1, <4>2
    <3>3. \A n \in DOMAIN shown' : shown'[n].kind = "comment" =>
             log' = <<[outcome |-> shown'[n].outcome, found |-> found']>> /\ req'.stream
      BY <1>1, <2>1, <2>2, <2>4 DEF Logging, Logged
    <3> DEFINE Comments == \A n \in DOMAIN shown : shown[n].kind = "comment" => Logged(shown[n].outcome) /\ req.stream
    <3>4. Comments'
      BY <3>3 DEF Logged
    <3> HIDE DEF Comments
    <3>5. QED
      BY <3>2, <3>4 DEF Logging, Comments
  <2>5. CASE log' # log
    <3>1. /\ log' = <<[outcome |-> "error", found |-> found]>> /\ turn = 2 /\ Gate!Checked
          /\ \A n \in DOMAIN shown : shown[n].kind # "comment"
      BY <1>3, <2>5, LogStep
    <3>2. found = FirstBroken
      BY <1>1, <3>1 DEF Finding
    <3>3. \A n \in DOMAIN shown' : shown'[n].kind # "comment"
      BY <2>1, <2>5, <3>1
    <3>4. Logged("error")' /\ (Gate!Checked)' /\ found' = FirstBroken' /\ turn' = 2
      BY <2>2, <2>3, <3>1, <3>2 DEF Logged
    <3>5. QED
      BY <3>3, <3>4 DEF Logging, Ended
  <2>6. QED
    BY <2>4, <2>5
<1>4. CASE Opens
  <2>1. log = <<>> /\ shown' = shown /\ log' = log
    BY <1>4 DEF Opens
  <2>2. QED
    BY <1>2, <2>1 DEF Logging
<1>5. CASE \E chunk \in Gate!StreamChunks : \E item : Receives(chunk, item)
  <2> PICK chunk \in Gate!StreamChunks : \E item : Receives(chunk, item)
    BY <1>5
  <2> PICK item : Receives(chunk, item)
    OBVIOUS
  <2>1. /\ log = <<>> /\ log' = log /\ item.kind = "chunk"
        /\ shown' = shown \/ shown' = Append(shown, item)
    BY DEF Receives
  <2>2. \A n \in DOMAIN shown' : (n \in DOMAIN shown /\ shown'[n] = shown[n]) \/ shown'[n] = item
    BY <1>1, <2>1, OneMore
  <2>3. \A n \in DOMAIN shown' : shown'[n].kind # "comment"
    BY <1>2, <2>1, <2>2
  <2>4. QED
    BY <2>1, <2>3 DEF Logging
<1>6. CASE Judges
  <2>1. /\ turn \in {1, 2} /\ turn' = turn /\ req' = req /\ log = <<>> /\ Gate!Checked
        /\ turn = 2 => arrived'[1] = arrived[1]
    BY <1>6, JudgedIs
  <2>2. CASE pc' = "repair"
    <3>1. shown' = shown /\ log' = log
      BY <1>6, <2>2, JudgedIs
    <3>2. QED
      BY <1>2, <2>1, <3>1 DEF Logging
  <2>3. CASE pc' # "repair"
    <3> DEFINE bad == BrokenIn(req.stream, arrived'[turn])
    <3>1. PICK result \in Judged :
             /\ result = Gate!Outcome(bad) /\ log' = <<[outcome |-> result, found |-> found]>>
             /\ found' = found /\ ~(turn = 1 /\ bad # {})
      BY <1>6, <2>3 DEF Judges
    <3>2. found = FirstBroken'
      <4>1. CASE turn = 1
        <5>1. pc \in {"read", "whole"}
          BY <1>6 DEF Judges
        <5>2. found = {}
          BY <1>1, <4>1, <5>1 DEF Finding, Open, Reading
        <5>3. QED
          BY <2>1, <3>1, <4>1, <5>2 DEF FirstBroken
      <4>2. CASE turn = 2
        BY <1>1, <2>1, <4>2 DEF Finding, FirstBroken
      <4>3. QED
        BY <2>1, <4>1, <4>2
    <3>3. /\ result = "passed" <=> turn = 1
          /\ result \in {"repaired", "unrepaired"} =>
                turn = 2 /\ (bad = {} <=> result = "repaired")
      BY <2>1, <3>1 DEF Gate!Outcome
    <3>4. \A n \in DOMAIN shown' : shown'[n].kind # "comment"
      <4>1. \A k \in DOMAIN held : held[k].kind = "chunk"
        BY <1>1 DEF Shapes
      <4>2. \A n \in DOMAIN shown' :
               \/ n \in DOMAIN shown /\ shown'[n] = shown[n]
               \/ shown'[n].kind = "calls"
               \/ \E k \in DOMAIN held : shown'[n] = held[k]
        BY <1>1, <1>6, JudgedShows
      <4>3. QED
        BY <1>2, <2>1, <4>1, <4>2
    <3>5. Logged(result)' /\ (Gate!Checked)' /\ found' = FirstBroken'
      BY <2>1, <3>1, <3>2 DEF Logged, Gate!Checked
    <3>6. result \in {"repaired", "unrepaired"} =>
             (BrokenIn(req'.stream, arrived'[2]) = {} <=> result = "repaired")
      BY <2>1, <3>3
    <3>7. result \in Ended
      BY DEF Ended
    <3> HIDE DEF bad
    <3>8. QED
      BY <2>1, <3>3, <3>4, <3>5, <3>6, <3>7 DEF Logging
  <2>4. QED
    BY <2>2, <2>3
<1>7. QED
  BY <1>3, <1>4, <1>5, <1>6, GateDoes

\* A turn that was judged is shown whole, and stays so.
LEMMA ShowingStep ==
    ASSUME GateInv, [Gate!Next]_gateVars
    PROVE  Showing'
<1>1. /\ Showing /\ Telling /\ Gathering /\ Shapes /\ GatePhase
  BY DEF GateInv
<1>2. /\ log = <<>> => \A n \in DOMAIN shown : shown[n].kind # "calls"
      /\ log # <<>> => log' = log
  BY LogStep
<1>3. \A entry : <<entry>> # <<>>
  OBVIOUS
<1>4. CASE Quiet
  <2>1. /\ \A n \in DOMAIN shown : n \in DOMAIN shown' /\ shown'[n] = shown[n]
        /\ \A n \in DOMAIN shown' : n \notin DOMAIN shown => shown'[n].kind # "calls"
        /\ \A t : Texts(shown', t) = Texts(shown, t)
    BY <1>1, <1>4, QuietShows
  <2>2. UNCHANGED <<req, turn, arrived, found>>
    BY <1>4 DEF Quiet
  <2>3. CASE log' = log
    <3>1. ASSUME NEW result PROVE Logged(result)' <=> Logged(result)
      BY <2>2, <2>3 DEF Logged
    <3>2. (\A n \in DOMAIN shown' : shown'[n].kind # "calls")
             <=> \A n \in DOMAIN shown : shown[n].kind # "calls"
      BY <2>1
    <3>3. ASSUME req.stream, \E result \in Judged : Logged(result)
          PROVE  /\ Texts(shown', turn) = Sent(arrived[turn], FALSE)
                 /\ IndicesIn(arrived[turn]) = {} <=> \A n \in DOMAIN shown' : shown'[n].kind # "calls"
      BY <1>1, <2>1, <3>2, <3>3 DEF Showing
    <3>4. (\E result \in Judged : Logged(result)') => \E result \in Judged : Logged(result)
      BY <3>1
    <3>5. QED
      BY <2>2, <3>3, <3>4 DEF Showing
  <2>4. CASE log' # log
    <3>1. log' = <<[outcome |-> "error", found |-> found]>>
      BY <1>4, <2>4, LogStep
    <3>2. ASSUME NEW result \in Judged PROVE ~Logged(result)'
      <4>1. <<[outcome |-> result, found |-> found']>> # <<[outcome |-> "error", found |-> found]>>
        <5>1. [outcome |-> result, found |-> found'].outcome # [outcome |-> "error", found |-> found].outcome
          BY <3>2 DEF Judged
        <5>2. QED
          BY <5>1
      <4>2. QED
        BY <3>1, <4>1 DEF Logged
    <3>3. QED
      BY <3>2 DEF Showing
  <2>5. QED
    BY <2>3, <2>4
<1>5. CASE Opens \/ (\E chunk \in Gate!StreamChunks : \E item : Receives(chunk, item))
             \/ (Judges /\ pc' = "repair")
  <2>1. log' = <<>>
    <3>1. CASE Opens
      BY <3>1 DEF Opens
    <3>2. CASE \E chunk \in Gate!StreamChunks : \E item : Receives(chunk, item)
      BY <3>2 DEF Receives
    <3>3. CASE Judges /\ pc' = "repair"
      BY <3>3, JudgedIs
    <3>4. QED
      BY <1>5, <3>1, <3>2, <3>3
  <2>2. ASSUME NEW result PROVE ~Logged(result)'
    BY <1>3, <2>1 DEF Logged
  <2>3. QED
    BY <2>2 DEF Showing
<1>6. CASE Judges /\ pc' # "repair"
  <2>1. /\ turn \in {1, 2} /\ turn' = turn /\ req' = req /\ log = <<>>
    BY <1>6, JudgedIs
  <2>2. SUFFICES ASSUME req.stream
                 PROVE  /\ Texts(shown', turn) = Sent(arrived'[turn], FALSE)
                        /\ IndicesIn(arrived'[turn]) = {}
                              <=> \A n \in DOMAIN shown' : shown'[n].kind # "calls"
    BY <2>1 DEF Showing
  <2>3. arrived' = arrived
    BY <1>6, <2>2 DEF Judges
  <2>4. /\ Texts(shown, turn) = Sent(arrived[turn], TRUE)
        /\ Sent(arrived[turn], FALSE) = Sent(arrived[turn], TRUE) \o Texts(held, turn)
    <3>1. Telling /\ turn # 0
      BY <1>1, <2>1
    <3>2. QED
      BY <2>1, <2>2, <3>1 DEF Telling
  <2>5. Texts(shown', turn) = Texts(shown, turn) \o Texts(held, turn)
    BY <1>1, <1>6, <2>2, JudgedShows
  <2>6. DOMAIN gathered = IndicesIn(arrived[turn])
    BY <1>1, <2>1, <2>2 DEF Gathering
  <2>7. DOMAIN gathered # {} => \E n \in DOMAIN shown' : shown'[n].kind = "calls"
    BY <1>1, <1>6, <2>2, JudgedShows
  <2>8. \A n \in DOMAIN shown' : shown'[n].kind = "calls" => DOMAIN gathered # {}
    BY <1>6, <2>2, JudgedIs
  <2>9. QED
    BY <2>3, <2>4, <2>5, <2>6, <2>7, <2>8
<1>7. QED
  BY <1>4, <1>5, <1>6, GateDoes

\* The gate's own words for the same things.
LEMMA GateWords ==
    /\ \A t : Gate!Indices(t) = IndicesIn(arrived[t])
    /\ \A t : Gate!CallsOf(t) = CallsIn(req.stream, arrived[t])
    /\ \A t : Gate!Broken(t) = BrokenIn(req.stream, arrived[t])
    /\ \A t, withheld : Gate!TextsOf(t, withheld) = Sent(arrived[t], withheld)
    /\ \A t : Gate!TextsShown(t) = Texts(shown, t)
    /\ \A n : Gate!CallsShown(n) = Named(shown[n].calls)
<1>0. ASSUME NEW ss PROVE Gate!FlattenSeq(ss) = FlattenSeq(ss)
  BY Zenon DEF Gate!FlattenSeq, FlattenSeq
<1>1. \A t : Gate!Indices(t) = IndicesIn(arrived[t])
  BY DEF Gate!Indices, IndicesIn
<1>2. ASSUME NEW t, NEW i, NEW field PROVE Gate!Joined(t, i, field) = Pieces(arrived[t], i, field)
  <2> DEFINE said == [n \in DOMAIN arrived[t] |->
                        IF arrived[t][n].delta.part # None /\ arrived[t][n].delta.part.index = i
                        THEN arrived[t][n].delta.part[field] ELSE <<>>]
  <2>1. Gate!Joined(t, i, field) = FlattenSeq(said)
    BY <1>0, Zenon DEF Gate!Joined
  <2>2. Pieces(arrived[t], i, field) = FlattenSeq(said)
    BY Zenon DEF Pieces, Piece
  <2>3. QED
    BY <2>1, <2>2
<1>3. \A t : Gate!CallsOf(t) = CallsIn(req.stream, arrived[t])
  BY <1>1, <1>2 DEF Gate!CallsOf, CallsIn, Gate!NoCalls, Named
<1>4. \A t : Gate!Broken(t) = BrokenIn(req.stream, arrived[t])
  BY <1>3 DEF Gate!Broken, BrokenIn
<1>5. ASSUME NEW t, NEW withheld PROVE Gate!TextsOf(t, withheld) = Sent(arrived[t], withheld)
  BY <1>0, Zenon DEF Gate!TextsOf, Sent, Text
<1>6. ASSUME NEW t PROVE Gate!TextsShown(t) = Texts(shown, t)
  BY <1>0, Zenon DEF Gate!TextsShown, Texts, Said
<1>7. \A n : Gate!CallsShown(n) = Named(shown[n].calls)
  BY DEF Gate!CallsShown, Named
<1>8. QED
  BY <1>1, <1>3, <1>4, <1>5, <1>6, <1>7

\* The gate's invariant holds where it begins.
LEMMA GateStart ==
    ASSUME Gate!Init
    PROVE  GateInv
<1> DEFINE start == <<>>
<1>1. /\ req \in Gate!Requests /\ pc = "receive" /\ turn = 0
      /\ arrived = start /\ DOMAIN gathered = {} /\ held = start
      /\ found = {} /\ told = start /\ shown = start /\ log = start
  BY DEF Gate!Init, Gate!NoCalls
<1>2. IsSeq(start) /\ Len(start) = 0 /\ DOMAIN start = {}
  BY DEF IsSeq
<1>3. \A entry : start # <<entry>>
  OBVIOUS
<1> HIDE DEF start
<1>4. GatePhase
  BY <1>1 DEF GatePhase, Open, Reading, Ended, Judged, start
<1>5. Shapes
  <2>1. 1..turn = {}
    BY <1>1
  <2>2. QED
    BY <1>1, <1>2, <2>1 DEF Shapes
<1>6. Gathering
  BY <1>1 DEF Gathering
<1>7. Finding
  BY <1>1, <1>2 DEF Finding, Open, Reading, start
<1>8. Finishing
  BY <1>1, <1>2 DEF Finishing, start
<1>9. Telling
  BY <1>1 DEF Telling
<1>10. Listing
  BY <1>1, <1>2 DEF Listing
<1>11. Logging
  BY <1>1, <1>2 DEF Logging, start
<1>12. Showing
  BY <1>1, <1>3 DEF Showing, Logged
<1>13. QED
  BY <1>4, <1>5, <1>6, <1>7, <1>8, <1>9, <1>10, <1>11, <1>12 DEF GateInv

\* Every step of the gate keeps it.
LEMMA GateStep ==
    ASSUME GateInv, [Gate!Next]_gateVars
    PROVE  GateInv'
<1>1. GatePhase' /\ Shapes' /\ Gathering'
  BY PhaseStep, ShapesStep, GatheringStep
<1>2. Finding' /\ Finishing' /\ Telling'
  BY FindingStep, FinishingStep, TellingStep
<1>3. Listing' /\ Logging' /\ Showing'
  BY ListingStep, LoggingStep, ShowingStep
<1>4. QED
  BY <1>1, <1>2, <1>3 DEF GateInv

\* The other ways a client calls the head leave the gate alone.
LEMMA GateMoves ==
    ASSUME [MCNext]_<<way, vars, gateVars, probeVars>>
    PROVE  [Gate!Next]_gateVars
<1>1. Asking => UNCHANGED gateVars
  BY DEF Asking
<1>2. Probing => UNCHANGED gateVars
  BY DEF Probing
<1>3. CASE UNCHANGED <<way, vars, gateVars, probeVars>>
  BY <1>3
<1>4. CASE MCNext
  BY <1>1, <1>2, <1>4 DEF MCNext, Gate!Next
<1>5. QED
  BY <1>3, <1>4

\* The gate's invariant is one of every behaviour of the clients.
LEMMA GateHolds == MCSpec => []GateInv
<1>1. MCInit => GateInv
  BY GateStart DEF MCInit
<1>2. GateInv /\ [MCNext]_<<way, vars, gateVars, probeVars>> => GateInv'
  BY GateMoves, GateStep
<1>3. QED
  BY <1>1, <1>2, PTL DEF MCSpec

\* The gate withholds a turn whose calls break their schema, however its calls were cut
\* into chunks, and no turn has two lists of calls or two finish chunks.
THEOREM CallsWithheld == MCSpec => []Withheld
<1>1. GateInv => Withheld
  <2> SUFFICES ASSUME GateInv PROVE Gate!Withheld
    BY DEF Withheld
  <2>1. Finishing /\ Listing
    BY DEF GateInv
  <2>2. Gate!Broken(1) = FirstBroken
    BY GateWords DEF FirstBroken
  <2>3. \A n \in DOMAIN shown : shown[n].kind = "calls" =>
           /\ shown[n].turn = turn /\ (turn = 1 => FirstBroken = {})
           /\ \A k \in DOMAIN shown : shown[k].kind = "calls" => k = n
    BY <2>1 DEF Listing
  <2>4. \A n, k \in DOMAIN shown :
          shown[n].kind = "chunk" /\ shown[k].kind = "chunk" /\ shown[n].finish /\ shown[k].finish
             => n = k /\ shown[n].turn = turn
    BY <2>1 DEF Finishing
  <2>5. QED
    BY <2>2, <2>3, <2>4 DEF Gate!Withheld, Gate!Is
<1>2. QED
  BY <1>1, GateHolds, PTL

\* What the gate logs, and tells the client, is what happened: at most one record, after
\* at most one repair, with the first turn's violations and the outcome of the last.
THEOREM OutcomesTrue == MCSpec => []OutcomeIsTrue
<1>1. GateInv => OutcomeIsTrue
  <2> SUFFICES ASSUME GateInv PROVE Gate!OutcomeIsTrue
    BY DEF OutcomeIsTrue
  <2>1. GatePhase /\ Finding /\ Listing /\ Logging /\ turn \in {0, 1, 2} /\ Finishing
    BY DEF GateInv, GatePhase
  <2>2. Gate!Broken(1) = FirstBroken /\ Gate!Broken(2) = BrokenIn(req.stream, arrived[2])
    BY GateWords DEF FirstBroken
  <2>3. turn <= 2 /\ (turn = 2 => Gate!Broken(1) # {})
    BY <2>1, <2>2 DEF Finding
  <2>4. \A n \in DOMAIN shown : shown[n].kind = "comment" => Logged(shown[n].outcome)
    BY <2>1 DEF Logging
  <2>5. Len(log) <= 1 /\ \A l \in DOMAIN log :
          /\ Gate!Checked /\ log[l].found = Gate!Broken(1)
          /\ log[l].outcome = "passed" <=> turn = 1
          /\ log[l].outcome \in {"repaired", "unrepaired"} =>
                (Gate!Broken(2) = {} <=> log[l].outcome = "repaired")
    <3>1. CASE log = <<>>
      BY <3>1
    <3>2. CASE log # <<>>
      <4>1. PICK result \in Ended :
              /\ Logged(result) /\ Gate!Checked /\ found = FirstBroken
              /\ result = "passed" <=> turn = 1
              /\ result \in {"repaired", "unrepaired"} =>
                    (BrokenIn(req.stream, arrived[2]) = {} <=> result = "repaired")
        BY <2>1, <3>2 DEF Logging
      <4>2. Len(log) = 1 /\ DOMAIN log = {1} /\ log[1] = [outcome |-> result, found |-> found]
        BY <4>1 DEF Logged
      <4>3. log[1].outcome = result /\ log[1].found = found
        BY <4>2
      <4>4. QED
        BY <2>2, <4>1, <4>2, <4>3
    <3>3. QED
      BY <3>1, <3>2
  <2>6. \A n \in DOMAIN shown : shown[n].kind = "calls" =>
           (~req.stream => log[1].outcome = shown[n].outcome)
    <3>1. ASSUME NEW n \in DOMAIN shown, shown[n].kind = "calls", ~req.stream
          PROVE  log[1].outcome = shown[n].outcome
      <4>1. log = <<[outcome |-> shown[n].outcome, found |-> found]>>
        BY <2>1, <3>1 DEF Listing, Logged
      <4>2. QED
        BY <4>1
    <3>2. QED
      BY <3>1
  <2>7. QED
    BY <2>3, <2>4, <2>5, <2>6 DEF Gate!OutcomeIsTrue, Gate!Is, Logged
<1>2. QED
  BY <1>1, GateHolds, PTL

\* A stream that ends shows every text of the turn it ends with and every call whole,
\* before the finish chunk; and the model is told of a withheld turn with one reply to
\* each of its calls.
THEOREM TurnsWhole == MCSpec => []TurnIsWhole
<1>1. GateInv => TurnIsWhole
  <2> SUFFICES ASSUME GateInv PROVE Gate!TurnIsWhole
    BY DEF TurnIsWhole
  <2>1. GatePhase /\ Finding /\ Telling /\ Listing /\ Logging /\ Showing
    BY DEF GateInv
  <2>2. ASSUME NEW n \in DOMAIN shown, shown[n].kind = "comment", shown[n].outcome # "error"
        PROVE  /\ Texts(shown, turn) = Sent(arrived[turn], FALSE)
               /\ turn = 2 => Texts(shown, 1) = Sent(arrived[1], TRUE)
               /\ IndicesIn(arrived[turn]) = {} <=> \A k \in DOMAIN shown : shown[k].kind # "calls"
               /\ req.stream
    <3>1. Logged(shown[n].outcome)
      BY <2>1, <2>2 DEF Logging
    <3>2. log # <<>> /\ req.stream
      <4>1. <<[outcome |-> shown[n].outcome, found |-> found]>> # <<>>
        OBVIOUS
      <4>2. req.stream
        BY <2>1, <2>2 DEF Logging
      <4>3. QED
        BY <3>1, <4>1, <4>2 DEF Logged
    <3>3. PICK result \in Ended : Logged(result)
      BY <2>1, <3>2 DEF Logging
    <3>4. result = shown[n].outcome
      <4>1. [outcome |-> result, found |-> found] = [outcome |-> shown[n].outcome, found |-> found]
        BY <3>1, <3>3 DEF Logged
      <4>2. QED
        BY <4>1
    <3>5. result \in Judged
      BY <2>2, <3>4 DEF Ended
    <3>6. QED
      <4>1. /\ Texts(shown, turn) = Sent(arrived[turn], FALSE)
            /\ IndicesIn(arrived[turn]) = {} <=> \A k \in DOMAIN shown : shown[k].kind # "calls"
        BY <2>1, <3>2, <3>3, <3>5 DEF Showing
      <4>2. turn = 2 => Texts(shown, 1) = Sent(arrived[1], TRUE)
        BY <2>1, <3>2 DEF Telling
      <4>3. QED
        BY <3>2, <4>1, <4>2
  <2>3. /\ Gate!TextsShown(turn) = Texts(shown, turn) /\ Gate!TextsShown(1) = Texts(shown, 1)
        /\ Gate!TextsOf(turn, FALSE) = Sent(arrived[turn], FALSE)
        /\ Gate!TextsOf(1, TRUE) = Sent(arrived[1], TRUE)
        /\ Gate!CallsOf(turn) = CallsIn(req.stream, arrived[turn])
        /\ Gate!CallsOf(1) = CallsIn(req.stream, arrived[1]) /\ Gate!Broken(1) = FirstBroken
        /\ \A n : Gate!CallsShown(n) = Named(shown[n].calls)
    BY GateWords DEF FirstBroken
  <2>4. req.stream => DOMAIN CallsIn(req.stream, arrived[turn]) = IndicesIn(arrived[turn])
    BY DEF CallsIn
  <2>5. \A n \in DOMAIN shown : shown[n].kind = "calls" =>
           /\ Named(shown[n].calls) = CallsIn(req.stream, arrived[turn])
           /\ \A k \in DOMAIN shown : shown[k].kind = "chunk" /\ shown[k].finish => n < k
    BY <2>1 DEF Listing
  <2>6. \A k \in DOMAIN told :
          /\ told[k].calls = DOMAIN CallsIn(req.stream, arrived[1])
          /\ DOMAIN told[k].replies = told[k].calls
          /\ \A i \in FirstBroken : told[k].replies[i] = "invalid"
    BY <2>1 DEF Finding
  <2>7. \A n \in Gate!Is("comment") : shown[n].outcome # "error" =>
          /\ Gate!TextsShown(turn) = Gate!TextsOf(turn, FALSE)
          /\ turn = 2 => Gate!TextsShown(1) = Gate!TextsOf(1, TRUE)
          /\ DOMAIN Gate!CallsOf(turn) = {} <=> Gate!Is("calls") = {}
          /\ \A k \in Gate!Is("chunk") : shown[k].finish => \A c \in Gate!Is("calls") : c < k
    BY <2>2, <2>3, <2>4, <2>5 DEF Gate!Is
  <2>8. \A n \in Gate!Is("calls") : Gate!CallsShown(n) = Gate!CallsOf(turn)
    BY <2>3, <2>5 DEF Gate!Is
  <2>9. QED
    BY <2>3, <2>6, <2>7, <2>8 DEF Gate!TurnIsWhole
<1>2. QED
  BY <1>1, GateHolds, PTL

------------------------------------------------------------------------------
(* What a trace notes of a request: what was computed, not where it lies. *)

\* The traces count, and read sequences, as the proofs do.
LEMMA ProbeWords ==
    /\ \A S : Pr!Cardinality(S) = Cardinality(S)
    /\ \A f : Pr!Range(f) = {f[x] : x \in DOMAIN f}
    /\ \A s : Pr!Reverse(s) = [i \in 1..Len(s) |-> s[(Len(s) - i) + 1]]
    /\ \A S : Pr!Min(S) = CHOOSE x \in S : \A y \in S : x <= y
<1>1. \A S : Pr!Cardinality(S) = Cardinality(S)
  BY Zenon DEF Pr!Cardinality, Cardinality
<1>2. \A f : Pr!Range(f) = {f[x] : x \in DOMAIN f}
  BY DEF Pr!Range
<1>3. \A s : Pr!Reverse(s) = [i \in 1..Len(s) |-> s[(Len(s) - i) + 1]]
  BY DEF Pr!Reverse
<1>4. \A S : Pr!Min(S) = CHOOSE x \in S : \A y \in S : x <= y
  BY DEF Pr!Min
<1>5. QED
  BY <1>1, <1>2, <1>3, <1>4

\* Two numbers in their order.
LEMMA TwoAscend == ASSUME NEW a \in Int, NEW b \in Int, a < b
                   PROVE  Pr!Ascending({a, b}) = <<a, b>>
<1> DEFINE below(x) == {y \in {a, b} : y < x}
           s == Pr!Ascending({a, b})
<1>1. below(a) = {} /\ below(b) = {a}
  OBVIOUS
<1>2. Cardinality({a}) = 1 /\ IsFiniteSet({a})
  BY FS_Singleton
<1>3. Cardinality({a} \cup {b}) = 2 /\ {a} \cup {b} = {a, b}
  BY <1>2, FS_AddElement
<1>4. /\ Pr!Cardinality({a, b}) = 2
      /\ Pr!Cardinality(below(a)) = 0 /\ Pr!Cardinality(below(b)) = 1
  BY <1>1, <1>2, <1>3, FS_EmptySet, ProbeWords
<1>5. s = [i \in 1..Pr!Cardinality({a, b}) |->
             CHOOSE x \in {a, b} : Pr!Cardinality(below(x)) = i - 1]
  BY DEF Pr!Ascending
<1> HIDE DEF below, s
<1>6. (CHOOSE x \in {a, b} : Pr!Cardinality(below(x)) = 1 - 1) = a
      /\ (CHOOSE x \in {a, b} : Pr!Cardinality(below(x)) = 2 - 1) = b
  BY <1>4
<1>7. s = [i \in 1..2 |-> IF i = 1 THEN a ELSE b]
  BY <1>4, <1>5, <1>6
<1>8. QED
  BY <1>7 DEF s

\* And three.
LEMMA ThreeAscend == ASSUME NEW a \in Int, NEW b \in Int, NEW c \in Int, a < b, b < c
                     PROVE  Pr!Ascending({a, b, c}) = <<a, b, c>>
<1> DEFINE S == {a, b, c}
           below(x) == {y \in S : y < x}
           s == Pr!Ascending(S)
<1>1. below(a) = {} /\ below(b) = {a} /\ below(c) = {a} \cup {b} /\ S = ({a} \cup {b}) \cup {c}
  OBVIOUS
<1>2. Cardinality({a}) = 1 /\ IsFiniteSet({a})
  BY FS_Singleton
<1>3. IsFiniteSet({a} \cup {b}) /\ Cardinality({a} \cup {b}) = 2
  BY <1>2, FS_AddElement
<1>4. Cardinality(({a} \cup {b}) \cup {c}) = 3
  BY <1>3, FS_AddElement
<1>5. /\ Pr!Cardinality(S) = 3 /\ Pr!Cardinality(below(a)) = 0
      /\ Pr!Cardinality(below(b)) = 1 /\ Pr!Cardinality(below(c)) = 2
  BY <1>1, <1>2, <1>3, <1>4, FS_EmptySet, ProbeWords
<1>6. s = [i \in 1..Pr!Cardinality(S) |-> CHOOSE x \in S : Pr!Cardinality(below(x)) = i - 1]
  BY DEF Pr!Ascending
<1>7. \A x \in S : x = a \/ x = b \/ x = c
  OBVIOUS
<1>8. a \in S /\ b \in S /\ c \in S
  OBVIOUS
<1> HIDE DEF below, s, S
<1>9. /\ (CHOOSE x \in S : Pr!Cardinality(below(x)) = 1 - 1) = a
      /\ (CHOOSE x \in S : Pr!Cardinality(below(x)) = 2 - 1) = b
      /\ (CHOOSE x \in S : Pr!Cardinality(below(x)) = 3 - 1) = c
  BY <1>5, <1>7, <1>8
<1>10. s = [i \in 1..3 |-> IF i = 1 THEN a ELSE IF i = 2 THEN b ELSE c]
  BY <1>5, <1>6, <1>9
<1>11. QED
  BY <1>10 DEF s, S

\* The last of a step's candidates.
Third(run, f) == IF Pr!Changed(run, f, "indexer") # 0 THEN 3 ELSE 2

\* The candidates, in whatever order they were found.
LEMMA FoundIs ==
    ASSUME NEW run \in TracedRuns, NEW f
    PROVE  /\ DOMAIN Pr!Found(run, f) = 1..3
           /\ Pr!Range(Pr!Found(run, f)) = {-1, 1, Third(run, f)}
<1> DEFINE t == Third(run, f)
           s == IF run.reversed THEN <<t, 1>> ELSE <<1, t>>
<1>1. t \in {2, 3}
  BY DEF Third
<1>2. Pr!Reverse(<<1, t>>) = <<t, 1>>
  <2>1. Len(<<1, t>>) = 2
    OBVIOUS
  <2>2. Pr!Reverse(<<1, t>>) = [i \in 1..2 |-> <<1, t>>[(2 - i) + 1]]
    BY <2>1, ProbeWords
  <2>3. \A i \in 1..2 : <<1, t>>[(2 - i) + 1] = IF i = 1 THEN t ELSE 1
    OBVIOUS
  <2> HIDE DEF t
  <2>4. Pr!Reverse(<<1, t>>) = [i \in 1..2 |-> IF i = 1 THEN t ELSE 1]
    BY <2>2, <2>3
  <2>5. QED
    BY <2>4
<1>3. Pr!Found(run, f) = s \o <<-1>>
  BY <1>2 DEF Pr!Found, Third
<1>4. /\ DOMAIN (s \o <<-1>>) = 1..3 /\ (s \o <<-1>>)[3] = -1
      /\ {(s \o <<-1>>)[1], (s \o <<-1>>)[2]} = {1, t}
  OBVIOUS
<1> DEFINE g == s \o <<-1>>
<1> HIDE DEF t, s, g
<1>5. DOMAIN g = 1..3 /\ g[3] = -1 /\ {g[1], g[2]} = {1, t}
  BY <1>4 DEF g
<1>6. {g[x] : x \in DOMAIN g} = {g[1], g[2], g[3]}
  <2>1. 1..3 = {1, 2, 3}
    OBVIOUS
  <2>2. QED
    BY <1>5, <2>1
<1>7. Pr!Range(g) = {-1, 1, t}
  BY <1>5, <1>6, ProbeWords
<1>8. QED
  BY <1>3, <1>5, <1>7 DEF g, t

\* Their print, which is of them as a set.
LEMMA PrintIs ==
    ASSUME NEW run \in TracedRuns, NEW f
    PROVE  Pr!IndexPrint(Pr!Found(run, f)) = <<-1, 1, Third(run, f)>>
<1>1. Third(run, f) \in {2, 3}
  BY DEF Third
<1>2. Pr!Ascending({-1, 1, Third(run, f)}) = <<-1, 1, Third(run, f)>>
  BY <1>1, ThreeAscend
<1>3. QED
  BY <1>2, FoundIs DEF Pr!IndexPrint

\* The candidates' places, in the candidates' order.
LEMMA PhysicalIs ==
    ASSUME NEW run \in TracedRuns, NEW f
    PROVE  Pr!Physical(run, f) =
             [i \in 1..3 |-> IF i = 1 THEN run.slot[1]
                             ELSE IF i = 2 THEN run.slot[Third(run, f)] ELSE -1]
<1> DEFINE seen == Pr!Found(run, f)
           t == Third(run, f)
           sorted == Pr!Ascending({c \in Pr!Range(seen) : c >= 0})
<1>1. t \in {2, 3}
  BY DEF Third
<1>2. DOMAIN seen = 1..3 /\ Pr!Range(seen) = {-1, 1, t}
  BY FoundIs
<1>3. {c \in Pr!Range(seen) : c >= 0} = {1, t}
  BY <1>1, <1>2
<1>4. sorted = <<1, t>>
  BY <1>1, <1>3, TwoAscend
<1>5. Pr!Physical(run, f) =
        [i \in DOMAIN seen |-> IF i \in DOMAIN sorted THEN run.slot[sorted[i]] ELSE -1]
  BY DEF Pr!Physical
<1> HIDE DEF seen, t, sorted
<1>6. DOMAIN sorted = {1, 2} /\ sorted[1] = 1 /\ sorted[2] = t
  BY <1>4
<1>7. QED
  BY <1>2, <1>5, <1>6 DEF t

\* How many of them there are.
LEMMA CountIs ==
    ASSUME NEW run \in TracedRuns, NEW f
    PROVE  Pr!Cardinality({i \in DOMAIN Pr!Physical(run, f) : Pr!Physical(run, f)[i] >= 0}) = 2
<1> DEFINE p == Pr!Physical(run, f)
           t == Third(run, f)
<1>1. t \in {2, 3} /\ run.slot[1] \in Nat /\ run.slot[t] \in Nat
  BY ProbeAssumption DEF Third
<1>2. p = [i \in 1..3 |-> IF i = 1 THEN run.slot[1] ELSE IF i = 2 THEN run.slot[t] ELSE -1]
  BY PhysicalIs
<1> HIDE DEF p, t
<1>3. {i \in DOMAIN p : p[i] >= 0} = {1} \cup {2}
  BY <1>1, <1>2
<1>4. IsFiniteSet({1}) /\ Cardinality({1}) = 1
  BY FS_Singleton
<1>5. Cardinality({1} \cup {2}) = 2
  BY <1>4, FS_AddElement
<1>6. QED
  BY <1>3, <1>5, ProbeWords DEF p

\* What they hold, wherever they are.
LEMMA TouchedIs ==
    ASSUME NEW run \in TracedRuns, NEW f
    PROVE  Pr!Touched(run, f) =
             [i \in 1..3 |-> IF i = 1 THEN 1 + 100 * Pr!Changed(run, f, "cache")
                             ELSE IF i = 2 THEN Third(run, f) + 100 * Pr!Changed(run, f, "cache")
                             ELSE 0]
<1> DEFINE p == Pr!Physical(run, f)
           t == Third(run, f)
           c == Pr!Changed(run, f, "cache")
<1>1. /\ t \in {2, 3} /\ run.slot \in [1..3 -> Nat]
      /\ \A a, b \in 1..3 : run.slot[a] = run.slot[b] => a = b
  BY ProbeAssumption DEF Third
<1>2. p = [i \in 1..3 |-> IF i = 1 THEN run.slot[1] ELSE IF i = 2 THEN run.slot[t] ELSE -1]
  BY PhysicalIs
<1>3. \A a \in 1..3 : Pr!Holds(run, f, run.slot[a]) = a + 100 * c
  <2>1. ASSUME NEW a \in 1..3 PROVE Pr!Holds(run, f, run.slot[a]) = a + 100 * c
    <3>1. DOMAIN run.slot = 1..3
      BY <1>1
    <3>2. (CHOOSE b \in DOMAIN run.slot : run.slot[b] = run.slot[a]) = a
      BY <1>1, <3>1
    <3>3. \E b \in DOMAIN run.slot : run.slot[b] = run.slot[a]
      BY <3>1
    <3>4. QED
      BY <3>2, <3>3 DEF Pr!Holds
  <2>2. QED
    BY <2>1
<1>4. Pr!Touched(run, f) =
        [i \in DOMAIN p |-> IF p[i] < 0 THEN 0 ELSE Pr!Holds(run, f, p[i])]
  BY DEF Pr!Touched
<1> HIDE DEF p, t, c
<1>5. DOMAIN p = 1..3 /\ p[1] = run.slot[1] /\ p[2] = run.slot[t] /\ p[3] = -1
  BY <1>2
<1>6. p[1] \in Nat /\ p[2] \in Nat /\ 1 \in 1..3 /\ t \in 1..3
  BY <1>1, <1>5
<1>7. Pr!Holds(run, f, p[1]) = 1 + 100 * c /\ Pr!Holds(run, f, p[2]) = t + 100 * c
  BY <1>3, <1>5, <1>6
<1>8. \A i \in 1..3 : (IF p[i] < 0 THEN 0 ELSE Pr!Holds(run, f, p[i])) =
                      (IF i = 1 THEN 1 + 100 * c ELSE IF i = 2 THEN t + 100 * c ELSE 0)
  BY <1>5, <1>6, <1>7
<1>9. QED
  BY <1>4, <1>5, <1>8 DEF t, c

------------------------------------------------------------------------------
(* Two traces, note by note. *)

Modules == {"embed_tokens", "indexer", "self_attn", "norm"}
NoteNames == Modules \cup {name \o ":in" : name \in Modules}
               \cup {"sparse_nope:query", "sparse_nope:candidates_per_row",
                     "sparse_nope:cache_rows", "sparse_nope:output"}
Notes == [name : NoteNames, rows : Nat, tensor : Seq(Int)]

\* Traces of equally many notes.
Match(s, t) == s \in Seq(Notes) /\ t \in Seq(Notes) /\ Len(s) = Len(t)
\* Traces that differ first in a note of this name and so many rows.
FirstAt(s, t, name, rows) ==
    /\ Match(s, t)
    /\ \E i \in 1..Len(s) :
         /\ s[i] # t[i] /\ t[i].name = name /\ t[i].rows = rows
         /\ \A j \in 1..(i - 1) : s[j] = t[j]

\* Steps follow each other.
LEMMA JoinMatch ==
    ASSUME NEW a, NEW b, NEW c, NEW d, Match(a, b), Match(c, d)
    PROVE  Match(a \o c, b \o d)
BY DEF Match

\* What differs first in a part does so in what it begins.
LEMMA JoinFirst ==
    ASSUME NEW a, NEW b, NEW c, NEW d, NEW name, NEW rows, FirstAt(a, b, name, rows), Match(c, d)
    PROVE  FirstAt(a \o c, b \o d, name, rows)
<1> DEFINE s == a \o c
           t == b \o d
<1>1. Match(a, b)
  BY DEF FirstAt
<1>2. Match(s, t)
  BY <1>1, JoinMatch
<1>3. PICK i \in 1..Len(a) : /\ a[i] # b[i] /\ b[i].name = name /\ b[i].rows = rows
                             /\ \A j \in 1..(i - 1) : a[j] = b[j]
  BY DEF FirstAt
<1>4. /\ Len(a) \in Nat /\ Len(b) = Len(a) /\ Len(s) = Len(a) + Len(c) /\ Len(c) \in Nat
      /\ \A j \in 1..Len(a) : s[j] = a[j] /\ t[j] = b[j]
  BY <1>1 DEF Match
<1> HIDE DEF s, t
<1>5. i \in 1..Len(s) /\ s[i] # t[i] /\ t[i].name = name /\ t[i].rows = rows
  BY <1>3, <1>4
<1>6. \A j \in 1..(i - 1) : s[j] = t[j]
  BY <1>3, <1>4
<1>7. QED
  BY <1>2, <1>5, <1>6 DEF FirstAt, s, t

\* And in what follows an equal part.
LEMMA JoinLater ==
    ASSUME NEW a, NEW c, NEW d, NEW name, NEW rows, a \in Seq(Notes), FirstAt(c, d, name, rows)
    PROVE  FirstAt(a \o c, a \o d, name, rows)
<1> DEFINE s == a \o c
           t == a \o d
<1>1. Match(c, d) /\ Match(a, a)
  BY DEF FirstAt, Match
<1>2. Match(s, t)
  BY <1>1, JoinMatch
<1>3. PICK i \in 1..Len(c) : /\ c[i] # d[i] /\ d[i].name = name /\ d[i].rows = rows
                             /\ \A j \in 1..(i - 1) : c[j] = d[j]
  BY DEF FirstAt
<1>4. /\ Len(a) \in Nat /\ Len(c) \in Nat /\ Len(d) = Len(c) /\ Len(s) = Len(a) + Len(c)
      /\ \A j \in 1..Len(a) : s[j] = a[j] /\ t[j] = a[j]
      /\ \A j \in 1..Len(c) : s[Len(a) + j] = c[j] /\ t[Len(a) + j] = d[j]
  BY <1>1 DEF Match
<1> DEFINE n == Len(a)
           k == n + i
<1> HIDE DEF s, t
<1>5. k \in 1..Len(s) /\ s[k] # t[k] /\ t[k].name = name /\ t[k].rows = rows
  BY <1>3, <1>4
<1>6. ASSUME NEW j \in 1..(k - 1) PROVE s[j] = t[j]
  <2>1. CASE j <= n
    BY <1>4, <2>1
  <2>2. CASE j > n
    <3>1. j - n \in 1..(i - 1) /\ j - n \in 1..Len(c) /\ j = n + (j - n)
      BY <1>3, <1>4, <2>2
    <3>2. s[n + (j - n)] = c[j - n] /\ t[n + (j - n)] = d[j - n]
      BY <1>4, <3>1
    <3>3. QED
      BY <1>3, <3>1, <3>2
  <2>3. QED
    BY <1>4, <2>1, <2>2
<1>7. QED
  BY <1>2, <1>5, <1>6 DEF FirstAt, s, t

\* A single note.
LEMMA OneNote ==
    ASSUME NEW u \in Notes, NEW v \in Notes
    PROVE  /\ Match(<<u>>, <<v>>)
           /\ u # v => FirstAt(<<u>>, <<v>>, v.name, v.rows)
<1>1. <<u>> \in Seq(Notes) /\ <<v>> \in Seq(Notes) /\ Len(<<u>>) = 1 /\ Len(<<v>>) = 1
      /\ <<u>>[1] = u /\ <<v>>[1] = v
  OBVIOUS
<1>2. 1 \in 1..Len(<<u>>) /\ \A j \in 1..(1 - 1) : <<u>>[j] = <<v>>[j]
  BY <1>1
<1>3. QED
  BY <1>1, <1>2 DEF FirstAt, Match

\* The first difference of two traces is that of its note; of equal ones there is none.
LEMMA DifferenceIs ==
    ASSUME NEW s \in Seq(Notes), NEW t \in Seq(Notes)
    PROVE  /\ s = t => Pr!FirstDifference(s, t) = <<>>
           /\ \A name, rows : FirstAt(s, t, name, rows) =>
                /\ Pr!FirstDifference(s, t)[1].name = name
                /\ Pr!FirstDifference(s, t)[1].rows = rows
<1> DEFINE moved == {i \in DOMAIN s : i \in DOMAIN t /\ s[i] # t[i]}
<1>1. Pr!FirstDifference(s, t) = IF moved = {} THEN <<>> ELSE <<t[Pr!Min(moved)]>>
  BY DEF Pr!FirstDifference
<1>2. s = t => moved = {}
  OBVIOUS
<1>3. ASSUME NEW name, NEW rows, FirstAt(s, t, name, rows)
      PROVE  Pr!FirstDifference(s, t)[1].name = name /\ Pr!FirstDifference(s, t)[1].rows = rows
  <2>1. PICK i \in 1..Len(s) : /\ s[i] # t[i] /\ t[i].name = name /\ t[i].rows = rows
                               /\ \A j \in 1..(i - 1) : s[j] = t[j]
    BY <1>3 DEF FirstAt
  <2>2. DOMAIN s = 1..Len(s) /\ DOMAIN t = 1..Len(s) /\ Len(s) \in Nat
    BY <1>3 DEF FirstAt, Match
  <2>3. i \in moved /\ \A j \in moved : j \in Int /\ i <= j
    BY <2>1, <2>2
  <2> HIDE DEF moved
  <2>4. (CHOOSE x \in moved : \A y \in moved : x <= y) = i
    <3>1. i \in Int /\ \A x \in moved : (\A y \in moved : x <= y) => x = i
      BY <2>3
    <3>2. QED
      BY <2>3, <3>1
  <2>5. Pr!Min(moved) = i
    BY <2>4, ProbeWords
  <2>6. Pr!FirstDifference(s, t) = <<t[i]>>
    BY <1>1, <2>3, <2>5
  <2>7. QED
    BY <2>1, <2>6
<1>4. QED
  BY <1>1, <1>2, <1>3

\* The repeat fixture finds the same where the calls are of the same modules.
LEMMA RepeatDifferenceIs ==
    ASSUME NEW s \in Seq(Notes), NEW t \in Seq(Notes), Len(s) = Len(t),
           \A i \in 1..Len(s) : s[i].name = t[i].name
    PROVE  Pr!FirstOf(s, t) = Pr!FirstDifference(s, t)
<1> DEFINE L == Len(s)
           nth(i) == {j \in 1..i : t[j].name = t[i].name}
           kept(i) == {j \in DOMAIN s : s[j].name = t[i].name /\ Pr!Nth(s, j) = Pr!Nth(t, i)}
           moved == {i \in DOMAIN t : \A j \in kept(i) : s[j] # t[i]}
           shared == {i \in DOMAIN s : i \in DOMAIN t /\ s[i] # t[i]}
<1>1. L \in Nat /\ DOMAIN s = 1..L /\ DOMAIN t = 1..L
  OBVIOUS
<1>2. \A i \in 1..L : /\ Pr!Nth(s, i) = Cardinality(nth(i)) /\ Pr!Nth(t, i) = Cardinality(nth(i))
  <2>1. ASSUME NEW i \in 1..L
        PROVE  Pr!Nth(s, i) = Cardinality(nth(i)) /\ Pr!Nth(t, i) = Cardinality(nth(i))
    <3>1. {j \in 1..i : s[j].name = s[i].name} = nth(i)
      BY <1>1
    <3>2. QED
      BY <3>1, ProbeWords DEF Pr!Nth
  <2>2. QED
    BY <2>1
<1>3. ASSUME NEW i \in 1..L, NEW j \in 1..L, j < i, t[j].name = t[i].name
      PROVE  Cardinality(nth(j)) # Cardinality(nth(i))
  <2>1. IsFiniteSet(1..i)
    BY FS_Interval
  <2>2. nth(i) \in SUBSET (1..i) /\ nth(j) \in SUBSET nth(i) /\ i \in nth(i) /\ i \notin nth(j)
    BY <1>3
  <2> HIDE DEF nth
  <2>3. IsFiniteSet(nth(i))
    BY <2>1, <2>2, FS_Subset
  <2>4. QED
    BY <2>2, <2>3, FS_Subset
<1>4. ASSUME NEW i \in 1..L PROVE kept(i) = {i}
  <2>1. \A j \in 1..L : s[j].name = t[i].name /\ Pr!Nth(s, j) = Pr!Nth(t, i) => j = i
    <3>1. ASSUME NEW j \in 1..L, s[j].name = t[i].name, Pr!Nth(s, j) = Pr!Nth(t, i), j # i
          PROVE  FALSE
      <4>1. t[j].name = t[i].name /\ Cardinality(nth(j)) = Cardinality(nth(i))
        BY <1>2, <3>1
      <4>2. j < i \/ i < j
        BY <3>1
      <4> HIDE DEF nth
      <4>3. QED
        BY <1>3, <4>1, <4>2
    <3>2. QED
      BY <3>1
  <2>2. i \in kept(i)
    BY <1>1, <1>2
  <2>3. QED
    BY <1>1, <2>1, <2>2
<1>5. moved = shared
  <2> HIDE DEF kept
  <2>1. \A i \in 1..L : (\A j \in kept(i) : s[j] # t[i]) <=> s[i] # t[i]
    BY <1>4
  <2>2. QED
    BY <1>1, <2>1
<1>6. Pr!FirstOf(s, t) = IF moved = {} THEN <<>> ELSE <<t[Pr!Min(moved)]>>
  BY DEF Pr!FirstOf
<1>7. Pr!FirstDifference(s, t) = IF shared = {} THEN <<>> ELSE <<t[Pr!Min(shared)]>>
  BY DEF Pr!FirstDifference
<1>8. QED
  BY <1>5, <1>6, <1>7

------------------------------------------------------------------------------
(* A step of a request, as a trace with these switches has it. *)

Faults == {"embed", "indexer", "cache", "attend", "norm"}

HookAs(inputs, name, rows, in, out) ==
    (IF inputs \/ name = "embed_tokens" THEN <<Pr!Note(name \o ":in", rows, in)>> ELSE <<>>)
    \o <<Pr!Note(name, rows, out)>>
EmbedAs(inputs, run, f) ==
    HookAs(inputs, "embed_tokens", Pr!Rows(run, f),
           <<run.ids + 100 * Pr!Changed(run, f - 1, "norm")>>, <<Pr!Changed(run, f, "embed")>>)
IndexerAs(inputs, run, f) ==
    HookAs(inputs, "indexer", Pr!Rows(run, f), <<Pr!Changed(run, f, "embed")>>,
           Pr!IndexPrint(Pr!Found(run, f)))
AfterAs(st, run, f) ==
    <<Pr!Note("sparse_nope:output", Pr!Rows(run, f),
              <<Pr!Changed(run, f, "attend"),
                IF Pr!UsesFa2(run, f) /\ st = "full" THEN 1 ELSE 0>>)>>
AttentionAs(st, run, f) ==
    IF Pr!UsesFa2(run, f) /\ st # "full"
    THEN Pr!Before(run, f) \o Pr!Before(run, f) \o AfterAs(st, run, f) \o AfterAs(st, run, f)
    ELSE Pr!Before(run, f) \o AfterAs(st, run, f)
AttnAs(inputs, run, f) ==
    HookAs(inputs, "self_attn", Pr!Rows(run, f), <<Pr!Changed(run, f, "embed")>>,
           <<Pr!Changed(run, f, "attend")>>)
NormAs(inputs, run, f) ==
    HookAs(inputs, "norm", Pr!Rows(run, f), <<Pr!Changed(run, f, "attend")>>,
           <<Pr!Changed(run, f, "norm")>>)
InnerAs(functions, st, run, f) == IF functions THEN AttentionAs(st, run, f) ELSE <<>>
StepAs(inputs, functions, st, run, f) ==
    EmbedAs(inputs, run, f) \o IndexerAs(inputs, run, f) \o InnerAs(functions, st, run, f)
    \o AttnAs(inputs, run, f) \o NormAs(inputs, run, f)

\* It is the step the running trace sees.
LEMMA StepIs ==
    ASSUME NEW run, NEW f
    PROVE  Pr!Step(run, f) = StepAs(trace.inputs, trace.functions, stage, run, f)
BY DEF Pr!Step, Pr!Hook, Pr!Attention, Pr!After, StepAs, EmbedAs, IndexerAs, InnerAs, AttnAs,
       NormAs, HookAs, AfterAs, AttentionAs

\* The operations in their order, and what a fault changes of them.
LEMMA PlacesAre ==
    /\ Pr!Place("embed") = 1 /\ Pr!Place("indexer") = 2 /\ Pr!Place("cache") = 3
    /\ Pr!Place("attend") = 4 /\ Pr!Place("norm") = 5
<1> DEFINE ops == <<"embed", "indexer", "cache", "attend", "norm">>
<1>1. DOMAIN ops = 1..5 /\ ops[1] = "embed" /\ ops[2] = "indexer" /\ ops[3] = "cache"
      /\ ops[4] = "attend" /\ ops[5] = "norm"
  OBVIOUS
<1>2. \A op : Pr!Place(op) = CHOOSE i \in DOMAIN ops : ops[i] = op
  BY DEF Pr!Place, Pr!Operations
<1> HIDE DEF ops
<1>3. \A i \in DOMAIN ops : i = 1 \/ i = 2 \/ i = 3 \/ i = 4 \/ i = 5
  BY <1>1
<1>4. /\ (CHOOSE i \in DOMAIN ops : ops[i] = "embed") = 1
      /\ (CHOOSE i \in DOMAIN ops : ops[i] = "indexer") = 2
      /\ (CHOOSE i \in DOMAIN ops : ops[i] = "cache") = 3
      /\ (CHOOSE i \in DOMAIN ops : ops[i] = "attend") = 4
      /\ (CHOOSE i \in DOMAIN ops : ops[i] = "norm") = 5
  BY <1>1, <1>3
<1>5. QED
  BY <1>2, <1>4

\* How often an operation's value is another: once its fault's place is behind it.
LEMMA ChangedIs ==
    ASSUME NEW run \in TracedRuns, NEW f \in Int, NEW op \in Faults
    PROVE  /\ Pr!Changed(run, f, op) \in Nat
           /\ run.wrong \in Faults => Pr!Place(run.wrong) \in 1..5
           /\ Pr!Changed(run, f, op) =
                IF run.wrong # "none" /\ (run.at < f
                     \/ (run.at = f /\ Pr!Place(run.wrong) <= Pr!Place(op)))
                THEN 10 * run.at + Pr!Place(run.wrong) ELSE 0
<1>1. run.at \in {1, 2} /\ (run.wrong = "none" \/ run.wrong \in Faults)
  BY ProbeAssumption DEF Faults
<1>2. run.wrong \in Faults => Pr!Place(run.wrong) \in 1..5
  BY PlacesAre DEF Faults
<1>3. Pr!Changed(run, f, op) =
                IF run.wrong # "none" /\ (run.at < f
                     \/ (run.at = f /\ Pr!Place(run.wrong) <= Pr!Place(op)))
                THEN 10 * run.at + Pr!Place(run.wrong) ELSE 0
  BY DEF Pr!Changed
<1>4. QED
  BY <1>1, <1>2, <1>3

\* Two requests that ask for the same.
Alike(o, n) == o \in TracedRuns /\ n \in TracedRuns /\ o.ids = n.ids /\ o.hit = n.hit
\* An operation of a step comes out the same in both.
Equal(o, n, f, op) == Pr!Changed(o, f, op) = Pr!Changed(n, f, op)

\* Two like requests give every operation the same rows, and the same calls.
LEMMA AlikeIs ==
    ASSUME NEW o, NEW n, Alike(o, n), NEW f \in Int
    PROVE  /\ o \in TracedRuns /\ n \in TracedRuns /\ o.ids = n.ids /\ o.ids \in Nat
           /\ Pr!Rows(o, f) = Pr!Rows(n, f) /\ Pr!Rows(n, f) \in Nat
           /\ Pr!Gathers(o, f) = Pr!Gathers(n, f) /\ Pr!UsesFa2(o, f) = Pr!UsesFa2(n, f)
           /\ \A op \in Faults : Pr!Changed(o, f, op) \in Nat /\ Pr!Changed(n, f, op) \in Nat
           /\ \A run \in {o, n} : Pr!Changed(run, f - 1, "norm") \in Nat
<1>1. o \in TracedRuns /\ n \in TracedRuns /\ o.ids = n.ids /\ o.ids \in Nat /\ o.hit = n.hit
  BY ProbeAssumption DEF Alike
<1>2. Pr!Rows(o, f) = Pr!Rows(n, f) /\ Pr!Rows(n, f) \in Nat
  BY <1>1 DEF Pr!Rows, Pr!DecodeMaxRows
<1>3. Pr!Gathers(o, f) = Pr!Gathers(n, f) /\ Pr!UsesFa2(o, f) = Pr!UsesFa2(n, f)
  BY <1>2 DEF Pr!Gathers, Pr!UsesFa2
<1>4. \A op \in Faults : Pr!Changed(o, f, op) \in Nat /\ Pr!Changed(n, f, op) \in Nat
  BY <1>1, ChangedIs
<1>5. "norm" \in Faults /\ f - 1 \in Int
  BY DEF Faults
<1>6. QED
  BY <1>1, <1>2, <1>3, <1>4, <1>5, ChangedIs

\* A module's hook.
LEMMA HookIs ==
    ASSUME NEW inputs, NEW name \in Modules, NEW rows \in Nat,
           NEW in1 \in Seq(Int), NEW in2 \in Seq(Int), NEW out1 \in Seq(Int), NEW out2 \in Seq(Int)
    PROVE  LET s == HookAs(inputs, name, rows, in1, out1)
               t == HookAs(inputs, name, rows, in2, out2)
           IN  /\ Match(s, t)
               /\ in1 = in2 /\ out1 # out2 => FirstAt(s, t, name, rows)
<1> DEFINE a == IF inputs \/ name = "embed_tokens"
                THEN <<Pr!Note(name \o ":in", rows, in1)>> ELSE <<>>
           b == IF inputs \/ name = "embed_tokens"
                THEN <<Pr!Note(name \o ":in", rows, in2)>> ELSE <<>>
           u == Pr!Note(name, rows, out1)
           v == Pr!Note(name, rows, out2)
<1>1. name \in NoteNames /\ name \o ":in" \in NoteNames
  BY DEF NoteNames
<1>2. /\ Pr!Note(name \o ":in", rows, in1) \in Notes
      /\ Pr!Note(name \o ":in", rows, in2) \in Notes
      /\ u \in Notes /\ v \in Notes
  BY <1>1 DEF Pr!Note, Notes
<1>3. (out1 # out2 => u # v) /\ v.name = name /\ v.rows = rows
  BY DEF Pr!Note
<1>4. Match(a, b)
  <2>1. CASE inputs \/ name = "embed_tokens"
    BY <1>2, <2>1, OneNote
  <2>2. CASE ~(inputs \/ name = "embed_tokens")
    BY <2>2 DEF Match
  <2>3. QED
    BY <2>1, <2>2
<1>5. in1 = in2 => a = b
  OBVIOUS
<1>6. HookAs(inputs, name, rows, in1, out1) = a \o <<u>>
      /\ HookAs(inputs, name, rows, in2, out2) = b \o <<v>>
  BY DEF HookAs
<1> HIDE DEF a, b, u, v
<1>7. Match(<<u>>, <<v>>) /\ (out1 # out2 => FirstAt(<<u>>, <<v>>, name, rows))
  BY <1>2, <1>3, OneNote
<1>8. Match(a \o <<u>>, b \o <<v>>)
  BY <1>4, <1>7, JoinMatch
<1>9. in1 = in2 /\ out1 # out2 => FirstAt(a \o <<u>>, b \o <<v>>, name, rows)
  BY <1>4, <1>5, <1>7, JoinLater DEF Match
<1>10. QED
  BY <1>6, <1>8, <1>9

\* The modules' hooks: each part of a step differs where an operation of it does.
LEMMA EmbedIs ==
    ASSUME NEW o, NEW n, Alike(o, n), NEW f \in Int, NEW inputs
    PROVE  LET s == EmbedAs(inputs, o, f)
               t == EmbedAs(inputs, n, f)
           IN  /\ Match(s, t)
               /\ Equal(o, n, f - 1, "norm") /\ Equal(o, n, f, "embed") => s = t
               /\ Equal(o, n, f - 1, "norm") /\ ~Equal(o, n, f, "embed") =>
                    FirstAt(s, t, "embed_tokens", Pr!Rows(n, f))
<1> DEFINE in(run) == <<run.ids + 100 * Pr!Changed(run, f - 1, "norm")>>
           out(run) == <<Pr!Changed(run, f, "embed")>>
<1>1. /\ in(o) \in Seq(Int) /\ in(n) \in Seq(Int) /\ out(o) \in Seq(Int) /\ out(n) \in Seq(Int)
      /\ Pr!Rows(n, f) \in Nat /\ Pr!Rows(o, f) = Pr!Rows(n, f) /\ "embed_tokens" \in Modules
  <2>1. /\ o.ids \in Nat /\ n.ids \in Nat
        /\ Pr!Changed(o, f - 1, "norm") \in Nat /\ Pr!Changed(n, f - 1, "norm") \in Nat
    BY AlikeIs
  <2>2. in(o) \in Seq(Int) /\ in(n) \in Seq(Int)
    BY <2>1
  <2>3. out(o) \in Seq(Int) /\ out(n) \in Seq(Int)
    BY AlikeIs DEF Faults
  <2>4. QED
    BY <2>2, <2>3, AlikeIs DEF Modules
<1>2. Equal(o, n, f - 1, "norm") => in(o) = in(n)
  BY AlikeIs DEF Equal
<1>3. Equal(o, n, f, "embed") <=> out(o) = out(n)
  BY DEF Equal
<1>4. /\ EmbedAs(inputs, o, f) = HookAs(inputs, "embed_tokens", Pr!Rows(n, f), in(o), out(o))
      /\ EmbedAs(inputs, n, f) = HookAs(inputs, "embed_tokens", Pr!Rows(n, f), in(n), out(n))
  BY <1>1 DEF EmbedAs
<1> DEFINE hook(run) == HookAs(inputs, "embed_tokens", Pr!Rows(n, f), in(run), out(run))
<1> HIDE DEF in, out
<1>5. /\ Match(hook(o), hook(n))
      /\ in(o) = in(n) /\ out(o) # out(n) => FirstAt(hook(o), hook(n), "embed_tokens", Pr!Rows(n, f))
  BY <1>1, HookIs
<1>6. in(o) = in(n) /\ out(o) = out(n) => hook(o) = hook(n)
  OBVIOUS
<1>7. EmbedAs(inputs, o, f) = hook(o) /\ EmbedAs(inputs, n, f) = hook(n)
  BY <1>4
<1> HIDE DEF hook
<1>8. QED
  BY <1>2, <1>3, <1>5, <1>6, <1>7

\* The indexer's hooks tell its inputs' and its own faults first.
LEMMA IndexerIs ==
    ASSUME NEW o, NEW n, Alike(o, n), NEW f \in Int, NEW inputs
    PROVE  LET s == IndexerAs(inputs, o, f)
               t == IndexerAs(inputs, n, f)
           IN  /\ Match(s, t)
               /\ Equal(o, n, f, "embed") /\ Third(o, f) = Third(n, f) => s = t
               /\ Equal(o, n, f, "embed") /\ Third(o, f) # Third(n, f) =>
                    FirstAt(s, t, "indexer", Pr!Rows(n, f))
<1> DEFINE in(run) == <<Pr!Changed(run, f, "embed")>>
           out(run) == <<-1, 1, Third(run, f)>>
<1>1. /\ in(o) \in Seq(Int) /\ in(n) \in Seq(Int) /\ "indexer" \in Modules
      /\ Pr!Rows(n, f) \in Nat /\ Pr!Rows(o, f) = Pr!Rows(n, f)
  BY AlikeIs DEF Faults, Modules
<1>2. out(o) \in Seq(Int) /\ out(n) \in Seq(Int)
  BY DEF Third
<1>3. (Equal(o, n, f, "embed") <=> in(o) = in(n)) /\ (Third(o, f) = Third(n, f) <=> out(o) = out(n))
  BY DEF Equal
<1>4. /\ IndexerAs(inputs, o, f) = HookAs(inputs, "indexer", Pr!Rows(n, f), in(o), out(o))
      /\ IndexerAs(inputs, n, f) = HookAs(inputs, "indexer", Pr!Rows(n, f), in(n), out(n))
  BY <1>1, AlikeIs, PrintIs DEF IndexerAs
<1> DEFINE hook(run) == HookAs(inputs, "indexer", Pr!Rows(n, f), in(run), out(run))
<1> HIDE DEF in, out
<1>5. /\ Match(hook(o), hook(n))
      /\ in(o) = in(n) /\ out(o) # out(n) => FirstAt(hook(o), hook(n), "indexer", Pr!Rows(n, f))
  BY <1>1, <1>2, HookIs
<1>6. in(o) = in(n) /\ out(o) = out(n) => hook(o) = hook(n)
  OBVIOUS
<1>7. IndexerAs(inputs, o, f) = hook(o) /\ IndexerAs(inputs, n, f) = hook(n)
  BY <1>4
<1> HIDE DEF hook
<1>8. QED
  BY <1>3, <1>5, <1>6, <1>7

\* The attention's hooks tell its inputs' and its own faults first.
LEMMA AttnIs ==
    ASSUME NEW o, NEW n, Alike(o, n), NEW f \in Int, NEW inputs
    PROVE  LET s == AttnAs(inputs, o, f)
               t == AttnAs(inputs, n, f)
           IN  /\ Match(s, t)
               /\ Equal(o, n, f, "embed") /\ Equal(o, n, f, "attend") => s = t
               /\ Equal(o, n, f, "embed") /\ ~Equal(o, n, f, "attend") =>
                    FirstAt(s, t, "self_attn", Pr!Rows(n, f))
<1> DEFINE in(run) == <<Pr!Changed(run, f, "embed")>>
           out(run) == <<Pr!Changed(run, f, "attend")>>
<1>1. /\ in(o) \in Seq(Int) /\ in(n) \in Seq(Int) /\ out(o) \in Seq(Int) /\ out(n) \in Seq(Int)
      /\ Pr!Rows(n, f) \in Nat /\ Pr!Rows(o, f) = Pr!Rows(n, f) /\ "self_attn" \in Modules
  BY AlikeIs DEF Faults, Modules
<1>2. (Equal(o, n, f, "embed") <=> in(o) = in(n)) /\ (Equal(o, n, f, "attend") <=> out(o) = out(n))
  BY DEF Equal
<1>3. /\ AttnAs(inputs, o, f) = HookAs(inputs, "self_attn", Pr!Rows(n, f), in(o), out(o))
      /\ AttnAs(inputs, n, f) = HookAs(inputs, "self_attn", Pr!Rows(n, f), in(n), out(n))
  BY <1>1 DEF AttnAs
<1> DEFINE hook(run) == HookAs(inputs, "self_attn", Pr!Rows(n, f), in(run), out(run))
<1> HIDE DEF in, out
<1>4. /\ Match(hook(o), hook(n))
      /\ in(o) = in(n) /\ out(o) # out(n) => FirstAt(hook(o), hook(n), "self_attn", Pr!Rows(n, f))
  BY <1>1, HookIs
<1>5. in(o) = in(n) /\ out(o) = out(n) => hook(o) = hook(n)
  OBVIOUS
<1>6. AttnAs(inputs, o, f) = hook(o) /\ AttnAs(inputs, n, f) = hook(n)
  BY <1>3
<1> HIDE DEF hook
<1>7. QED
  BY <1>2, <1>4, <1>5, <1>6

\* The norm's hooks tell its inputs' and its own faults first.
LEMMA NormIs ==
    ASSUME NEW o, NEW n, Alike(o, n), NEW f \in Int, NEW inputs
    PROVE  LET s == NormAs(inputs, o, f)
               t == NormAs(inputs, n, f)
           IN  /\ Match(s, t)
               /\ Equal(o, n, f, "attend") /\ Equal(o, n, f, "norm") => s = t
               /\ Equal(o, n, f, "attend") /\ ~Equal(o, n, f, "norm") =>
                    FirstAt(s, t, "norm", Pr!Rows(n, f))
<1> DEFINE in(run) == <<Pr!Changed(run, f, "attend")>>
           out(run) == <<Pr!Changed(run, f, "norm")>>
<1>1. /\ in(o) \in Seq(Int) /\ in(n) \in Seq(Int) /\ out(o) \in Seq(Int) /\ out(n) \in Seq(Int)
      /\ Pr!Rows(n, f) \in Nat /\ Pr!Rows(o, f) = Pr!Rows(n, f) /\ "norm" \in Modules
  BY AlikeIs DEF Faults, Modules
<1>2. (Equal(o, n, f, "attend") <=> in(o) = in(n)) /\ (Equal(o, n, f, "norm") <=> out(o) = out(n))
  BY DEF Equal
<1>3. /\ NormAs(inputs, o, f) = HookAs(inputs, "norm", Pr!Rows(n, f), in(o), out(o))
      /\ NormAs(inputs, n, f) = HookAs(inputs, "norm", Pr!Rows(n, f), in(n), out(n))
  BY <1>1 DEF NormAs
<1> DEFINE hook(run) == HookAs(inputs, "norm", Pr!Rows(n, f), in(run), out(run))
<1> HIDE DEF in, out
<1>4. /\ Match(hook(o), hook(n))
      /\ in(o) = in(n) /\ out(o) # out(n) => FirstAt(hook(o), hook(n), "norm", Pr!Rows(n, f))
  BY <1>1, HookIs
<1>5. in(o) = in(n) /\ out(o) = out(n) => hook(o) = hook(n)
  OBVIOUS
<1>6. NormAs(inputs, o, f) = hook(o) /\ NormAs(inputs, n, f) = hook(n)
  BY <1>3
<1> HIDE DEF hook
<1>7. QED
  BY <1>2, <1>4, <1>5, <1>6

\* What goes into the attention: the cache rows of a short step, wherever they are.
LEMMA BeforeIs ==
    ASSUME NEW o, NEW n, Alike(o, n), NEW f \in Int
    PROVE  LET s == Pr!Before(o, f)
               t == Pr!Before(n, f)
               same == Equal(o, n, f, "cache") /\ Third(o, f) = Third(n, f)
           IN  /\ Match(s, t)
               /\ Equal(o, n, f, "embed") /\ (same \/ ~Pr!Gathers(n, f)) => s = t
               /\ /\ Equal(o, n, f, "embed") /\ Pr!Gathers(n, f)
                  /\ Third(o, f) = Third(n, f) /\ ~Equal(o, n, f, "cache")
                  => FirstAt(s, t, "sparse_nope:cache_rows", Pr!Rows(n, f))
<1> DEFINE r == Pr!Rows(n, f)
           query(run) == Pr!Note("sparse_nope:query", r, <<Pr!Changed(run, f, "embed")>>)
           count == Pr!Note("sparse_nope:candidates_per_row", r, <<2>>)
           cache(run) == Pr!Note("sparse_nope:cache_rows", r, Pr!Touched(run, f))
           rest(run) == IF Pr!Gathers(n, f) THEN <<cache(run)>> ELSE <<>>
<1>1. /\ o \in TracedRuns /\ n \in TracedRuns /\ r \in Nat /\ Pr!Rows(o, f) = r
      /\ Pr!Gathers(o, f) = Pr!Gathers(n, f)
      /\ \A run \in {o, n} : /\ Pr!Changed(run, f, "embed") \in Nat
                             /\ Pr!Changed(run, f, "cache") \in Nat
  BY AlikeIs DEF Faults
<1>2. \A run \in {o, n} : Pr!Before(run, f) = <<query(run), count>> \o rest(run)
  <2>1. ASSUME NEW run \in {o, n} PROVE Pr!Before(run, f) = <<query(run), count>> \o rest(run)
    <3>1. run \in TracedRuns /\ Pr!Rows(run, f) = r /\ Pr!Gathers(run, f) = Pr!Gathers(n, f)
      BY <1>1
    <3>2. Pr!Cardinality({i \in DOMAIN Pr!Physical(run, f) : Pr!Physical(run, f)[i] >= 0}) = 2
      BY <3>1, CountIs
    <3>3. QED
      BY <3>1, <3>2 DEF Pr!Before
  <2>2. QED
    BY <2>1
<1>3. \A run \in {o, n} : /\ Pr!Touched(run, f) \in Seq(Int)
                          /\ Pr!Touched(run, f)[1] = 1 + 100 * Pr!Changed(run, f, "cache")
  <2>1. ASSUME NEW run \in {o, n}
        PROVE  /\ Pr!Touched(run, f) \in Seq(Int)
               /\ Pr!Touched(run, f)[1] = 1 + 100 * Pr!Changed(run, f, "cache")
    <3> DEFINE c == Pr!Changed(run, f, "cache")
    <3>1. /\ c \in Nat /\ Third(run, f) \in {2, 3}
          /\ Pr!Touched(run, f) = [i \in 1..3 |-> IF i = 1 THEN 1 + 100 * c
                                     ELSE IF i = 2 THEN Third(run, f) + 100 * c ELSE 0]
      BY <1>1, TouchedIs DEF Third
    <3> HIDE DEF c
    <3>2. QED
      BY <3>1 DEF c
  <2>2. QED
    BY <2>1
<1>4. Equal(o, n, f, "cache") /\ Third(o, f) = Third(n, f) => Pr!Touched(o, f) = Pr!Touched(n, f)
  BY <1>1, TouchedIs DEF Equal
<1>5. ~Equal(o, n, f, "cache") => Pr!Touched(o, f) # Pr!Touched(n, f)
  BY <1>1, <1>3 DEF Equal
<1>6. {"sparse_nope:query", "sparse_nope:candidates_per_row", "sparse_nope:cache_rows"}
        \in SUBSET NoteNames
  BY DEF NoteNames
<1>7. /\ query(o) \in Notes /\ query(n) \in Notes /\ count \in Notes
      /\ cache(o) \in Notes /\ cache(n) \in Notes
  BY <1>1, <1>3, <1>6 DEF Notes, Pr!Note
<1>8. /\ Equal(o, n, f, "embed") => query(o) = query(n)
      /\ Pr!Touched(o, f) # Pr!Touched(n, f) => cache(o) # cache(n)
      /\ Pr!Touched(o, f) = Pr!Touched(n, f) => cache(o) = cache(n)
      /\ cache(n).name = "sparse_nope:cache_rows" /\ cache(n).rows = r
  BY DEF Pr!Note, Equal
<1> HIDE DEF r, query, count, cache
<1>9. Match(<<query(o), count>>, <<query(n), count>>)
  BY <1>7 DEF Match
<1>10. Match(rest(o), rest(n))
  <2>1. CASE Pr!Gathers(n, f)
    BY <1>7, <2>1, OneNote
  <2>2. CASE ~Pr!Gathers(n, f)
    BY <2>2 DEF Match
  <2>3. QED
    BY <2>1, <2>2
<1>11. Pr!Gathers(n, f) /\ cache(o) # cache(n) =>
         FirstAt(rest(o), rest(n), "sparse_nope:cache_rows", r)
  BY <1>7, <1>8, OneNote
<1>12. cache(o) = cache(n) \/ ~Pr!Gathers(n, f) => rest(o) = rest(n)
  OBVIOUS
<1> HIDE DEF rest
<1>13. Match(<<query(o), count>> \o rest(o), <<query(n), count>> \o rest(n))
  BY <1>9, <1>10, JoinMatch
<1>14. query(o) = query(n) /\ FirstAt(rest(o), rest(n), "sparse_nope:cache_rows", r) =>
         FirstAt(<<query(o), count>> \o rest(o), <<query(n), count>> \o rest(n),
                 "sparse_nope:cache_rows", r)
  BY <1>9, JoinLater DEF Match
<1>15. Pr!Before(o, f) = <<query(o), count>> \o rest(o)
       /\ Pr!Before(n, f) = <<query(n), count>> \o rest(n)
  BY <1>2
<1>16. QED
  BY <1>4, <1>5, <1>8, <1>11, <1>12, <1>13, <1>14, <1>15 DEF r

\* And what comes out of it.
LEMMA AfterIs ==
    ASSUME NEW o, NEW n, Alike(o, n), NEW f \in Int, NEW st
    PROVE  LET s == AfterAs(st, o, f)
               t == AfterAs(st, n, f)
           IN  /\ Match(s, t)
               /\ Equal(o, n, f, "attend") => s = t
               /\ ~Equal(o, n, f, "attend") =>
                    FirstAt(s, t, "sparse_nope:output", Pr!Rows(n, f))
<1> DEFINE fast == IF Pr!UsesFa2(n, f) /\ st = "full" THEN 1 ELSE 0
           note(run) == Pr!Note("sparse_nope:output", Pr!Rows(n, f),
                                <<Pr!Changed(run, f, "attend"), fast>>)
<1>1. /\ Pr!Rows(n, f) \in Nat /\ Pr!Rows(o, f) = Pr!Rows(n, f)
      /\ Pr!UsesFa2(o, f) = Pr!UsesFa2(n, f)
      /\ Pr!Changed(o, f, "attend") \in Nat /\ Pr!Changed(n, f, "attend") \in Nat
  BY AlikeIs DEF Faults
<1>2. AfterAs(st, o, f) = <<note(o)>> /\ AfterAs(st, n, f) = <<note(n)>>
  BY <1>1 DEF AfterAs
<1>3. "sparse_nope:output" \in NoteNames /\ fast \in Int
  BY DEF NoteNames
<1> HIDE DEF fast
<1>4. note(o) \in Notes /\ note(n) \in Notes
  BY <1>1, <1>3 DEF Notes, Pr!Note
<1>5. /\ Equal(o, n, f, "attend") => note(o) = note(n)
      /\ ~Equal(o, n, f, "attend") => note(o) # note(n)
      /\ note(n).name = "sparse_nope:output" /\ note(n).rows = Pr!Rows(n, f)
  <2>1. <<Pr!Changed(o, f, "attend"), fast>> = <<Pr!Changed(n, f, "attend"), fast>>
          <=> Equal(o, n, f, "attend")
    BY DEF Equal
  <2>2. QED
    BY <2>1 DEF Pr!Note
<1> HIDE DEF note
<1>6. QED
  BY <1>2, <1>4, <1>5, OneNote

\* The attention, in whichever part of the FA2 path answers.
LEMMA AttentionIs ==
    ASSUME NEW o, NEW n, Alike(o, n), NEW f \in Int, NEW st
    PROVE  LET s == AttentionAs(st, o, f)
               t == AttentionAs(st, n, f)
           IN  /\ Match(s, t)
               /\ Pr!Before(o, f) = Pr!Before(n, f) =>
                    /\ Equal(o, n, f, "attend") => s = t
                    /\ ~Equal(o, n, f, "attend") =>
                         FirstAt(s, t, "sparse_nope:output", Pr!Rows(n, f))
               /\ \A name, rows : FirstAt(Pr!Before(o, f), Pr!Before(n, f), name, rows) =>
                    FirstAt(s, t, name, rows)
<1> DEFINE b == Pr!Before(o, f)
           d == Pr!Before(n, f)
           x == AfterAs(st, o, f)
           y == AfterAs(st, n, f)
           out == "sparse_nope:output"
           r == Pr!Rows(n, f)
<1>1. /\ Match(b, d) /\ Match(x, y)
      /\ Equal(o, n, f, "attend") => x = y
      /\ ~Equal(o, n, f, "attend") => FirstAt(x, y, out, r)
  BY BeforeIs, AfterIs
<1>2. Pr!UsesFa2(o, f) = Pr!UsesFa2(n, f)
  BY AlikeIs
<1>3. CASE Pr!UsesFa2(n, f) /\ st # "full"
  <2>1. AttentionAs(st, o, f) = b \o b \o x \o x /\ AttentionAs(st, n, f) = d \o d \o y \o y
    BY <1>2, <1>3 DEF AttentionAs
  <2> HIDE DEF b, d, x, y, out, r
  <2>2. Match(b \o b, d \o d)
    BY <1>1, JoinMatch
  <2>3. Match(b \o b \o x, d \o d \o y)
    BY <1>1, <2>2, JoinMatch
  <2>4. Match(b \o b \o x \o x, d \o d \o y \o y)
    BY <1>1, <2>3, JoinMatch
  <2>5. ASSUME NEW name, NEW rows, FirstAt(b, d, name, rows)
        PROVE  FirstAt(b \o b \o x \o x, d \o d \o y \o y, name, rows)
    <3>1. FirstAt(b \o b, d \o d, name, rows)
      BY <1>1, <2>5, JoinFirst
    <3>2. FirstAt(b \o b \o x, d \o d \o y, name, rows)
      BY <1>1, <3>1, JoinFirst
    <3>3. QED
      BY <1>1, <3>2, JoinFirst
  <2>6. ASSUME b = d, FirstAt(x, y, out, r)
        PROVE  FirstAt(b \o b \o x \o x, d \o d \o y \o y, out, r)
    <3>1. b \o b \in Seq(Notes) /\ b \o b = d \o d
      BY <2>2, <2>6 DEF Match
    <3>2. FirstAt((b \o b) \o x, (b \o b) \o y, out, r)
      BY <2>6, <3>1, JoinLater
    <3>3. FirstAt(b \o b \o x, d \o d \o y, out, r)
      BY <3>1, <3>2
    <3>4. QED
      BY <1>1, <3>3, JoinFirst
  <2>7. b = d /\ x = y => b \o b \o x \o x = d \o d \o y \o y
    OBVIOUS
  <2>8. QED
    BY <1>1, <2>1, <2>4, <2>5, <2>6, <2>7 DEF b, d, out, r
<1>4. CASE ~(Pr!UsesFa2(n, f) /\ st # "full")
  <2>1. AttentionAs(st, o, f) = b \o x /\ AttentionAs(st, n, f) = d \o y
    BY <1>2, <1>4 DEF AttentionAs
  <2> HIDE DEF b, d, x, y, out, r
  <2>2. Match(b \o x, d \o y)
    BY <1>1, JoinMatch
  <2>3. \A name, rows : FirstAt(b, d, name, rows) => FirstAt(b \o x, d \o y, name, rows)
    BY <1>1, JoinFirst
  <2>4. b = d /\ FirstAt(x, y, out, r) => FirstAt(b \o x, d \o y, out, r)
    BY <1>1, JoinLater DEF Match
  <2>5. b = d /\ x = y => b \o x = d \o y
    OBVIOUS
  <2>6. QED
    BY <1>1, <2>1, <2>2, <2>3, <2>4, <2>5 DEF b, d, out, r
<1>5. QED
  BY <1>3, <1>4

\* The parts of a step, one after the other.
LEMMA PartsFollow ==
    ASSUME NEW a1, NEW a2, NEW a3, NEW a4, NEW a5, NEW b1, NEW b2, NEW b3, NEW b4, NEW b5,
           Match(a1, b1), Match(a2, b2), Match(a3, b3), Match(a4, b4), Match(a5, b5)
    PROVE  LET s == a1 \o a2 \o a3 \o a4 \o a5
               t == b1 \o b2 \o b3 \o b4 \o b5
           IN  /\ Match(s, t)
               /\ \A name, rows :
                    \/ FirstAt(a1, b1, name, rows)
                    \/ a1 = b1 /\ FirstAt(a2, b2, name, rows)
                    \/ a1 = b1 /\ a2 = b2 /\ FirstAt(a3, b3, name, rows)
                    \/ a1 = b1 /\ a2 = b2 /\ a3 = b3 /\ FirstAt(a4, b4, name, rows)
                    \/ a1 = b1 /\ a2 = b2 /\ a3 = b3 /\ a4 = b4 /\ FirstAt(a5, b5, name, rows)
                    => FirstAt(s, t, name, rows)
<1> DEFINE s2 == a1 \o a2
           t2 == b1 \o b2
           s3 == s2 \o a3
           t3 == t2 \o b3
           s4 == s3 \o a4
           t4 == t3 \o b4
           s5 == s4 \o a5
           t5 == t4 \o b5
<1>1. Match(s2, t2)
  BY JoinMatch
<1> HIDE DEF s2, t2
<1>2. Match(s3, t3)
  BY <1>1, JoinMatch
<1> HIDE DEF s3, t3
<1>3. Match(s4, t4)
  BY <1>2, JoinMatch
<1> HIDE DEF s4, t4
<1>4. Match(s5, t5)
  BY <1>3, JoinMatch
<1>5. ASSUME NEW name, NEW rows,
             \/ FirstAt(a1, b1, name, rows)
             \/ a1 = b1 /\ FirstAt(a2, b2, name, rows)
             \/ a1 = b1 /\ a2 = b2 /\ FirstAt(a3, b3, name, rows)
             \/ a1 = b1 /\ a2 = b2 /\ a3 = b3 /\ FirstAt(a4, b4, name, rows)
             \/ a1 = b1 /\ a2 = b2 /\ a3 = b3 /\ a4 = b4 /\ FirstAt(a5, b5, name, rows)
      PROVE  FirstAt(s5, t5, name, rows)
  <2>1. a1 \in Seq(Notes)
    BY DEF Match
  <2>2. FirstAt(a1, b1, name, rows) \/ (a1 = b1 /\ FirstAt(a2, b2, name, rows))
          => FirstAt(s2, t2, name, rows)
    BY <2>1, JoinFirst, JoinLater DEF s2, t2
  <2>3. a1 = b1 /\ a2 = b2 => s2 = t2 /\ s2 \in Seq(Notes)
    BY <1>1 DEF s2, t2, Match
  <2>4. FirstAt(s2, t2, name, rows) \/ (s2 = t2 /\ s2 \in Seq(Notes) /\ FirstAt(a3, b3, name, rows))
          => FirstAt(s3, t3, name, rows)
    BY JoinFirst, JoinLater DEF s3, t3
  <2>5. s2 = t2 /\ a3 = b3 => s3 = t3 /\ s3 \in Seq(Notes)
    BY <1>2 DEF s3, t3, Match
  <2>6. FirstAt(s3, t3, name, rows) \/ (s3 = t3 /\ s3 \in Seq(Notes) /\ FirstAt(a4, b4, name, rows))
          => FirstAt(s4, t4, name, rows)
    BY JoinFirst, JoinLater DEF s4, t4
  <2>7. s3 = t3 /\ a4 = b4 => s4 = t4 /\ s4 \in Seq(Notes)
    BY <1>3 DEF s4, t4, Match
  <2>8. FirstAt(s4, t4, name, rows) \/ (s4 = t4 /\ s4 \in Seq(Notes) /\ FirstAt(a5, b5, name, rows))
          => FirstAt(s5, t5, name, rows)
    BY JoinFirst, JoinLater
  <2>9. QED
    BY <1>5, <2>2, <2>3, <2>4, <2>5, <2>6, <2>7, <2>8
<1>6. s5 = a1 \o a2 \o a3 \o a4 \o a5 /\ t5 = b1 \o b2 \o b3 \o b4 \o b5
  BY DEF s2, s3, s4, t2, t3, t4
<1> HIDE DEF s5, t5
<1>7. QED
  BY <1>4, <1>5, <1>6

\* The operation `op' of step f is the first that comes out otherwise.
Cause(o, n, f, op) ==
    /\ op \in Faults /\ Equal(o, n, f - 1, "norm")
    /\ \A p \in Faults : Equal(o, n, f, p) <=> Pr!Place(p) < Pr!Place(op)
    /\ op = "indexer" => Third(o, f) # Third(n, f)
SeenAs(functions, run, f, op) ==
    CASE op = "embed" -> "embed_tokens"
      [] op = "indexer" -> "indexer"
      [] op = "norm" -> "norm"
      [] OTHER -> IF ~functions THEN "self_attn"
                  ELSE IF op = "cache" /\ Pr!Gathers(run, f)
                  THEN "sparse_nope:cache_rows" ELSE "sparse_nope:output"

\* What goes on within a layer, where the functions are traced.
LEMMA InnerIs ==
    ASSUME NEW o, NEW n, Alike(o, n), NEW f \in Int, NEW functions, NEW st
    PROVE  LET s == InnerAs(functions, st, o, f)
               t == InnerAs(functions, st, n, f)
           IN  /\ Match(s, t)
               /\ (\A p \in {"embed", "cache", "attend"} : Equal(o, n, f, p))
                    /\ Third(o, f) = Third(n, f) => s = t
               /\ ~functions => s = t
               /\ \A op \in {"cache", "attend"} : functions /\ Cause(o, n, f, op) =>
                    FirstAt(s, t, SeenAs(functions, n, f, op), Pr!Rows(n, f))
               /\ Cause(o, n, f, "norm") => s = t
<1> DEFINE s == InnerAs(functions, st, o, f)
           t == InnerAs(functions, st, n, f)
           r == Pr!Rows(n, f)
           b == Pr!Before(o, f)
           d == Pr!Before(n, f)
<1>1. CASE ~functions
  <2>1. s = <<>> /\ t = <<>>
    BY <1>1 DEF InnerAs
  <2> HIDE DEF s, t
  <2>2. Match(s, t)
    BY <2>1 DEF Match
  <2>3. QED
    BY <1>1, <2>1, <2>2 DEF s, t
<1>2. CASE functions
  <2>1. s = AttentionAs(st, o, f) /\ t = AttentionAs(st, n, f)
    BY <1>2 DEF InnerAs
  <2> HIDE DEF s, t
  <2>2. /\ Match(s, t)
        /\ b = d /\ Equal(o, n, f, "attend") => s = t
        /\ b = d /\ ~Equal(o, n, f, "attend") => FirstAt(s, t, "sparse_nope:output", r)
        /\ \A name, rows : FirstAt(b, d, name, rows) => FirstAt(s, t, name, rows)
    BY <2>1, AttentionIs
  <2>3. /\ Equal(o, n, f, "embed") /\ ((Equal(o, n, f, "cache") /\ Third(o, f) = Third(n, f))
                                         \/ ~Pr!Gathers(n, f)) => b = d
        /\ Equal(o, n, f, "embed") /\ Pr!Gathers(n, f) /\ Third(o, f) = Third(n, f)
             /\ ~Equal(o, n, f, "cache") => FirstAt(b, d, "sparse_nope:cache_rows", r)
    BY BeforeIs
  <2> HIDE DEF b, d, r
  <2>4. Equal(o, n, f, "indexer") => Third(o, f) = Third(n, f)
    BY DEF Equal, Third
  <2>5. ASSUME Cause(o, n, f, "cache")
        PROVE  FirstAt(s, t, SeenAs(functions, n, f, "cache"), r)
    <3>1. /\ Equal(o, n, f, "embed") /\ Equal(o, n, f, "indexer")
          /\ ~Equal(o, n, f, "cache") /\ ~Equal(o, n, f, "attend")
      BY <2>5, PlacesAre DEF Cause, Faults
    <3>2. SeenAs(functions, n, f, "cache") =
            IF Pr!Gathers(n, f) THEN "sparse_nope:cache_rows" ELSE "sparse_nope:output"
      BY <1>2 DEF SeenAs
    <3>3. QED
      BY <2>2, <2>3, <2>4, <3>1, <3>2
  <2>6. ASSUME Cause(o, n, f, "attend")
        PROVE  FirstAt(s, t, SeenAs(functions, n, f, "attend"), r)
    <3>1. /\ Equal(o, n, f, "embed") /\ Equal(o, n, f, "indexer")
          /\ Equal(o, n, f, "cache") /\ ~Equal(o, n, f, "attend")
      BY <2>6, PlacesAre DEF Cause, Faults
    <3>2. SeenAs(functions, n, f, "attend") = "sparse_nope:output"
      BY <1>2 DEF SeenAs
    <3>3. QED
      BY <2>2, <2>3, <2>4, <3>1, <3>2
  <2>7. ASSUME Cause(o, n, f, "norm") PROVE s = t
    <3>1. /\ Equal(o, n, f, "embed") /\ Equal(o, n, f, "indexer")
          /\ Equal(o, n, f, "cache") /\ Equal(o, n, f, "attend")
      BY <2>7, PlacesAre DEF Cause, Faults
    <3>2. QED
      BY <2>2, <2>3, <2>4, <3>1
  <2>8. (\A p \in {"embed", "cache", "attend"} : Equal(o, n, f, p))
          /\ Third(o, f) = Third(n, f) => s = t
    BY <2>2, <2>3
  <2>9. QED
    BY <1>2, <2>2, <2>5, <2>6, <2>7, <2>8 DEF s, t, r
<1>3. QED
  BY <1>1, <1>2

\* A step differs first in the call of its cause, or in the next that a trace sees.
LEMMA StepTells ==
    ASSUME NEW o, NEW n, Alike(o, n), NEW f \in Int, NEW inputs, NEW functions, NEW st
    PROVE  LET s == StepAs(inputs, functions, st, o, f)
               t == StepAs(inputs, functions, st, n, f)
           IN  /\ Match(s, t)
               /\ Equal(o, n, f - 1, "norm") /\ (\A p \in Faults : Equal(o, n, f, p)) => s = t
               /\ \A op : Cause(o, n, f, op) =>
                    FirstAt(s, t, SeenAs(functions, n, f, op), Pr!Rows(n, f))
<1> DEFINE a1 == EmbedAs(inputs, o, f)
           b1 == EmbedAs(inputs, n, f)
           a2 == IndexerAs(inputs, o, f)
           b2 == IndexerAs(inputs, n, f)
           a3 == InnerAs(functions, st, o, f)
           b3 == InnerAs(functions, st, n, f)
           a4 == AttnAs(inputs, o, f)
           b4 == AttnAs(inputs, n, f)
           a5 == NormAs(inputs, o, f)
           b5 == NormAs(inputs, n, f)
           s == StepAs(inputs, functions, st, o, f)
           t == StepAs(inputs, functions, st, n, f)
           r == Pr!Rows(n, f)
           Eq(p) == Equal(o, n, f, p)
           prev == Equal(o, n, f - 1, "norm")
           third == Third(o, f) = Third(n, f)
<1>1. /\ Match(a1, b1) /\ (prev /\ Eq("embed") => a1 = b1)
      /\ prev /\ ~Eq("embed") => FirstAt(a1, b1, "embed_tokens", r)
  BY EmbedIs
<1>2. /\ Match(a2, b2) /\ (Eq("embed") /\ third => a2 = b2)
      /\ Eq("embed") /\ ~third => FirstAt(a2, b2, "indexer", r)
  BY IndexerIs
<1>3. /\ Match(a3, b3)
      /\ Eq("embed") /\ Eq("cache") /\ Eq("attend") /\ third => a3 = b3
      /\ ~functions => a3 = b3
      /\ \A op \in {"cache", "attend"} : functions /\ Cause(o, n, f, op) =>
           FirstAt(a3, b3, SeenAs(functions, n, f, op), r)
      /\ Cause(o, n, f, "norm") => a3 = b3
  BY InnerIs
<1>4. /\ Match(a4, b4) /\ (Eq("embed") /\ Eq("attend") => a4 = b4)
      /\ Eq("embed") /\ ~Eq("attend") => FirstAt(a4, b4, "self_attn", r)
  BY AttnIs
<1>5. /\ Match(a5, b5) /\ (Eq("attend") /\ Eq("norm") => a5 = b5)
      /\ Eq("attend") /\ ~Eq("norm") => FirstAt(a5, b5, "norm", r)
  BY NormIs
<1>6. Eq("indexer") => third
  BY DEF Equal, Third
<1>7. s = a1 \o a2 \o a3 \o a4 \o a5 /\ t = b1 \o b2 \o b3 \o b4 \o b5
  BY DEF StepAs
<1> HIDE DEF a1, a2, a3, a4, a5, b1, b2, b3, b4, b5, s, t, r, third
<1>8. /\ Match(s, t)
      /\ \A name, rows :
           \/ FirstAt(a1, b1, name, rows)
           \/ a1 = b1 /\ FirstAt(a2, b2, name, rows)
           \/ a1 = b1 /\ a2 = b2 /\ FirstAt(a3, b3, name, rows)
           \/ a1 = b1 /\ a2 = b2 /\ a3 = b3 /\ FirstAt(a4, b4, name, rows)
           \/ a1 = b1 /\ a2 = b2 /\ a3 = b3 /\ a4 = b4 /\ FirstAt(a5, b5, name, rows)
           => FirstAt(s, t, name, rows)
  BY <1>1, <1>2, <1>3, <1>4, <1>5, <1>7, PartsFollow
<1>9. ASSUME prev, \A p \in Faults : Eq(p) PROVE s = t
  <2>1. Eq("embed") /\ Eq("indexer") /\ Eq("cache") /\ Eq("attend") /\ Eq("norm")
    BY <1>9 DEF Faults
  <2>2. a1 = b1 /\ a2 = b2 /\ a3 = b3 /\ a4 = b4 /\ a5 = b5
    BY <1>1, <1>2, <1>3, <1>4, <1>5, <1>6, <1>9, <2>1
  <2>3. QED
    BY <1>7, <2>2
<1>10. ASSUME NEW op, Cause(o, n, f, op) PROVE FirstAt(s, t, SeenAs(functions, n, f, op), r)
  <2>1. op \in Faults /\ prev /\ (op = "indexer" => ~third)
    BY <1>10 DEF Cause, third
  <2>2. \A p \in Faults : Eq(p) <=> Pr!Place(p) < Pr!Place(op)
    BY <1>10 DEF Cause
  <2>3. CASE op = "embed"
    <3>1. ~Eq("embed")
      BY <2>2, <2>3, PlacesAre DEF Faults
    <3>2. SeenAs(functions, n, f, op) = "embed_tokens"
      BY <2>3 DEF SeenAs
    <3>3. QED
      BY <1>1, <1>8, <2>1, <3>1, <3>2
  <2>4. CASE op = "indexer"
    <3>1. Eq("embed")
      BY <2>2, <2>4, PlacesAre DEF Faults
    <3>2. SeenAs(functions, n, f, op) = "indexer"
      BY <2>4 DEF SeenAs
    <3>3. QED
      BY <1>1, <1>2, <1>8, <2>1, <2>4, <3>1, <3>2
  <2>5. CASE op \in {"cache", "attend"}
    <3>1. Eq("embed") /\ Eq("indexer") /\ ~Eq("attend")
      BY <2>2, <2>5, PlacesAre DEF Faults
    <3>2. a1 = b1 /\ a2 = b2
      BY <1>1, <1>2, <1>6, <2>1, <3>1
    <3>3. CASE functions
      BY <1>3, <1>8, <1>10, <2>5, <3>2, <3>3
    <3>4. CASE ~functions
      <4>1. SeenAs(functions, n, f, op) = "self_attn"
        BY <2>5, <3>4 DEF SeenAs
      <4>2. QED
        BY <1>3, <1>4, <1>8, <3>1, <3>2, <3>4, <4>1
    <3>5. QED
      BY <3>3, <3>4
  <2>6. CASE op = "norm"
    <3>1. Eq("embed") /\ Eq("indexer") /\ Eq("attend") /\ ~Eq("norm")
      BY <2>2, <2>6, PlacesAre DEF Faults
    <3>2. a1 = b1 /\ a2 = b2 /\ a3 = b3 /\ a4 = b4
      BY <1>1, <1>2, <1>3, <1>4, <1>6, <1>10, <2>1, <2>6, <3>1
    <3>3. SeenAs(functions, n, f, op) = "norm"
      BY <2>6 DEF SeenAs
    <3>4. QED
      BY <1>5, <1>8, <3>1, <3>2, <3>3
  <2>7. QED
    BY <2>1, <2>3, <2>4, <2>5, <2>6 DEF Faults
<1>11. QED
  BY <1>8, <1>9, <1>10 DEF s, t, r

\* And of the repeat fixture, which sees the modules' outputs only.
RepeatSeen(op) == IF op = "embed" THEN "embed_tokens"
                  ELSE IF op = "norm" THEN "norm" ELSE "self_attn"
LEMMA RepeatTells ==
    ASSUME NEW o, NEW n, Alike(o, n), NEW f \in Int
    PROVE  LET s == Pr!RepeatStep(o, f)
               t == Pr!RepeatStep(n, f)
           IN  /\ Match(s, t) /\ Len(s) = 3 /\ \A i \in 1..3 : s[i].name = t[i].name
               /\ (\A p \in Faults : Equal(o, n, f, p)) => s = t
               /\ \A op : Cause(o, n, f, op) => FirstAt(s, t, RepeatSeen(op), Pr!Rows(n, f))
<1> DEFINE r == Pr!Rows(n, f)
           note(run, name, op) == Pr!Note(name, r, <<Pr!Changed(run, f, op)>>)
           x1 == note(o, "embed_tokens", "embed")
           y1 == note(n, "embed_tokens", "embed")
           x2 == note(o, "self_attn", "attend")
           y2 == note(n, "self_attn", "attend")
           x3 == note(o, "norm", "norm")
           y3 == note(n, "norm", "norm")
           s == Pr!RepeatStep(o, f)
           t == Pr!RepeatStep(n, f)
<1>1. /\ Pr!Rows(o, f) = r /\ r \in Nat
      /\ \A p \in Faults : Pr!Changed(o, f, p) \in Nat /\ Pr!Changed(n, f, p) \in Nat
  BY AlikeIs
<1>2. s = <<x1, x2, x3>> /\ t = <<y1, y2, y3>>
  BY <1>1 DEF Pr!RepeatStep
<1>3. {"embed_tokens", "self_attn", "norm"} \in SUBSET NoteNames
  BY DEF NoteNames, Modules
<1>4. /\ x1 \in Notes /\ y1 \in Notes /\ x2 \in Notes /\ y2 \in Notes
      /\ x3 \in Notes /\ y3 \in Notes
  BY <1>1, <1>3 DEF Notes, Pr!Note, Faults
<1>5. /\ x1.name = "embed_tokens" /\ y1.name = "embed_tokens" /\ y1.rows = r
      /\ x2.name = "self_attn" /\ y2.name = "self_attn" /\ y2.rows = r
      /\ x3.name = "norm" /\ y3.name = "norm" /\ y3.rows = r
      /\ (Equal(o, n, f, "embed") <=> x1 = y1) /\ (Equal(o, n, f, "attend") <=> x2 = y2)
      /\ (Equal(o, n, f, "norm") <=> x3 = y3)
  BY DEF Pr!Note, Equal
<1> HIDE DEF r, note, x1, x2, x3, y1, y2, y3, s, t
<1>6. /\ s \in Seq(Notes) /\ t \in Seq(Notes) /\ Len(s) = 3 /\ Len(t) = 3
      /\ s[1] = x1 /\ s[2] = x2 /\ s[3] = x3 /\ t[1] = y1 /\ t[2] = y2 /\ t[3] = y3
  BY <1>2, <1>4
<1>7. \A i \in 1..3 : i = 1 \/ i = 2 \/ i = 3
  OBVIOUS
<1>8. Match(s, t) /\ Len(s) = 3 /\ \A i \in 1..3 : s[i].name = t[i].name
  BY <1>5, <1>6, <1>7 DEF Match
<1>9. ASSUME \A p \in Faults : Equal(o, n, f, p) PROVE s = t
  BY <1>2, <1>5, <1>9 DEF Faults
<1>10. ASSUME NEW op, Cause(o, n, f, op) PROVE FirstAt(s, t, RepeatSeen(op), r)
  <2>1. op \in Faults /\ \A p \in Faults : Equal(o, n, f, p) <=> Pr!Place(p) < Pr!Place(op)
    BY <1>10 DEF Cause
  <2>2. 1 \in 1..Len(s) /\ 2 \in 1..Len(s) /\ 3 \in 1..Len(s)
    BY <1>6
  <2>3. CASE op = "embed"
    <3>1. s[1] # t[1] /\ t[1].name = RepeatSeen(op) /\ t[1].rows = r
      BY <1>5, <1>6, <2>1, <2>3, PlacesAre DEF Faults, RepeatSeen
    <3>2. \A j \in 1..(1 - 1) : s[j] = t[j]
      OBVIOUS
    <3>3. QED
      BY <1>8, <2>2, <3>1, <3>2 DEF FirstAt
  <2>4. CASE op \in {"indexer", "cache", "attend"}
    <3>1. s[2] # t[2] /\ t[2].name = RepeatSeen(op) /\ t[2].rows = r
      BY <1>5, <1>6, <2>1, <2>4, PlacesAre DEF Faults, RepeatSeen
    <3>2. s[1] = t[1]
      BY <1>5, <1>6, <2>1, <2>4, PlacesAre DEF Faults
    <3>3. \A j \in 1..(2 - 1) : s[j] = t[j]
      BY <3>2
    <3>4. QED
      BY <1>8, <2>2, <3>1, <3>3 DEF FirstAt
  <2>5. CASE op = "norm"
    <3>1. s[3] # t[3] /\ t[3].name = RepeatSeen(op) /\ t[3].rows = r
      BY <1>5, <1>6, <2>1, <2>5, PlacesAre DEF Faults, RepeatSeen
    <3>2. s[1] = t[1] /\ s[2] = t[2]
      BY <1>5, <1>6, <2>1, <2>5, PlacesAre DEF Faults
    <3>3. \A j \in 1..(3 - 1) : j = 1 \/ j = 2
      OBVIOUS
    <3>4. \A j \in 1..(3 - 1) : s[j] = t[j]
      BY <3>2, <3>3
    <3>5. QED
      BY <1>8, <2>2, <3>1, <3>4 DEF FirstAt
  <2>6. QED
    BY <2>1, <2>3, <2>4, <2>5 DEF Faults
<1>11. QED
  BY <1>8, <1>9, <1>10 DEF s, t, r

------------------------------------------------------------------------------
(* Two traces of a request each. *)

\* The earlier of two faults is the first thing that comes out otherwise; the same fault,
\* or none, changes nothing.
LEMMA CauseIs ==
    ASSUME NEW o, NEW n, Alike(o, n)
    PROVE  LET b == Pr!Earlier(o, n)
           IN  IF <<o.wrong, o.at>> = <<n.wrong, n.at>>
               THEN \A f \in Int : \A p \in Faults : Equal(o, n, f, p)
               ELSE /\ b.at \in {1, 2} /\ Cause(o, n, b.at, b.wrong)
                    /\ \A f \in Int : f < b.at => \A p \in Faults : Equal(o, n, f, p)
<1> DEFINE b == Pr!Earlier(o, n)
           c == IF b = o THEN n ELSE o
           P(op) == Pr!Place(op)
<1>1. /\ o \in TracedRuns /\ n \in TracedRuns
      /\ \A run \in {o, n} : /\ run.at \in {1, 2} /\ (run.wrong = "none" \/ run.wrong \in Faults)
                             /\ run.wrong = "none" => run.at = 1
  BY ProbeAssumption DEF Alike, Faults
<1>2. \A run \in {o, n} : \A f \in Int : \A op \in Faults :
        Pr!Changed(run, f, op) =
          IF run.wrong # "none" /\ (run.at < f \/ (run.at = f /\ P(run.wrong) <= P(op)))
          THEN 10 * run.at + P(run.wrong) ELSE 0
  BY <1>1, ChangedIs
<1>3. \A op \in Faults : P(op) \in 1..5
  BY PlacesAre DEF Faults
<1>4. \A p, q \in Faults : P(p) = P(q) => p = q
  BY PlacesAre DEF Faults
<1> HIDE DEF P
<1>5. CASE <<o.wrong, o.at>> = <<n.wrong, n.at>>
  <2>1. o.wrong = n.wrong /\ o.at = n.at
    BY <1>5
  <2>2. \A f \in Int : \A p \in Faults : Equal(o, n, f, p)
    BY <1>2, <2>1 DEF Equal
  <2>3. QED
    BY <1>5, <2>2
<1>6. CASE <<o.wrong, o.at>> # <<n.wrong, n.at>>
  <2>1. o.wrong # n.wrong \/ o.at # n.at
    BY <1>6
  <2>2. PICK x \in {o, n}, y \in {o, n} :
          /\ b = x /\ ((x = o /\ y = n) \/ (x = n /\ y = o))
          /\ x.wrong \in Faults
          /\ y.wrong = "none" \/ (y.wrong \in Faults /\ (x.at < y.at
                                    \/ (x.at = y.at /\ P(x.wrong) < P(y.wrong))))
    <3>1. CASE n.wrong = "none" \/ (o.wrong # "none" /\ (o.at < n.at
                 \/ (o.at = n.at /\ P(o.wrong) < P(n.wrong))))
      <4>1. b = o
        BY <3>1 DEF Pr!Earlier, P
      <4>2. o.wrong \in Faults
        BY <1>1, <2>1, <3>1
      <4>3. n.wrong = "none" \/ (n.wrong \in Faults /\ (o.at < n.at
                                    \/ (o.at = n.at /\ P(o.wrong) < P(n.wrong))))
        BY <1>1, <3>1
      <4> HIDE DEF b
      <4>4. o \in {o, n} /\ n \in {o, n}
        OBVIOUS
      <4>5. WITNESS o \in {o, n}, n \in {o, n}
      <4>6. QED
        BY <4>1, <4>2, <4>3
    <3>2. CASE ~(n.wrong = "none" \/ (o.wrong # "none" /\ (o.at < n.at
                   \/ (o.at = n.at /\ P(o.wrong) < P(n.wrong)))))
      <4>1. b = n
        BY <3>2 DEF Pr!Earlier, P
      <4>2. n.wrong \in Faults
        BY <1>1, <3>2
      <4>3. o.wrong = "none" \/ (o.wrong \in Faults /\ (n.at < o.at
                                    \/ (n.at = o.at /\ P(n.wrong) < P(o.wrong))))
        <5>1. CASE o.wrong = "none"
          BY <5>1
        <5>2. CASE o.wrong # "none"
          <6>1. o.wrong \in Faults /\ P(o.wrong) \in 1..5 /\ P(n.wrong) \in 1..5
            BY <1>1, <1>3, <4>2, <5>2
          <6>2. o.at \in 1..2 /\ n.at \in 1..2
            BY <1>1
          <6>3. n.at < o.at \/ (n.at = o.at /\ P(n.wrong) <= P(o.wrong))
            BY <3>2, <5>2, <6>1, <6>2
          <6>4. n.at = o.at => P(n.wrong) # P(o.wrong)
            BY <1>4, <2>1, <4>2, <6>1
          <6>5. QED
            BY <6>1, <6>3, <6>4
        <5>3. QED
          BY <5>1, <5>2
      <4> HIDE DEF b
      <4>4. o \in {o, n} /\ n \in {o, n}
        OBVIOUS
      <4>5. WITNESS n \in {o, n}, o \in {o, n}
      <4>6. QED
        BY <4>1, <4>2, <4>3
    <3>3. QED
      BY <3>1, <3>2
  <2> DEFINE g == x.at
             w == x.wrong
  <2>3. /\ g \in {1, 2} /\ w \in Faults /\ w # "none" /\ P(w) \in 1..5
        /\ y.at \in {1, 2} /\ (y.wrong \in Faults => P(y.wrong) \in 1..5)
    BY <1>1, <1>3, <2>2 DEF Faults
  <2>4. ASSUME NEW f \in Int, f < g, NEW p \in Faults
        PROVE  Pr!Changed(x, f, p) = 0 /\ Pr!Changed(y, f, p) = 0
    <3>1. ~(x.at < f \/ x.at = f) /\ (y.wrong # "none" => ~(y.at < f \/ y.at = f))
      BY <2>2, <2>3, <2>4
    <3>2. QED
      BY <1>2, <3>1
  <2>5. ASSUME NEW p \in Faults
        PROVE  /\ P(p) < P(w) => Pr!Changed(x, g, p) = 0 /\ Pr!Changed(y, g, p) = 0
               /\ P(w) <= P(p) => /\ Pr!Changed(x, g, p) # Pr!Changed(y, g, p)
                                  /\ p = w => Pr!Changed(x, g, p) # 0 /\ Pr!Changed(y, g, p) = 0
    <3>1. P(p) \in 1..5
      BY <1>3
    <3>2. /\ Pr!Changed(x, g, p) = IF P(w) <= P(p) THEN 10 * g + P(w) ELSE 0
          /\ Pr!Changed(y, g, p) =
               IF y.wrong # "none" /\ (y.at < g \/ (y.at = g /\ P(y.wrong) <= P(p)))
               THEN 10 * y.at + P(y.wrong) ELSE 0
      <4>1. w # "none" /\ ~(x.at < g) /\ x.at = g /\ g \in Int
        BY <2>3
      <4>2. QED
        BY <1>2, <4>1
    <3>3. y.wrong # "none" => y.wrong \in Faults /\ ~(y.at < g) /\ (y.at = g => P(w) < P(y.wrong))
      BY <2>2, <2>3
    <3> HIDE DEF g, w
    <3>4. P(p) < P(w) => Pr!Changed(x, g, p) = 0 /\ Pr!Changed(y, g, p) = 0
      BY <2>3, <3>1, <3>2, <3>3
    <3>5. P(w) <= P(p) => Pr!Changed(x, g, p) # Pr!Changed(y, g, p)
      BY <2>3, <3>1, <3>2, <3>3
    <3>6. p = w => Pr!Changed(x, g, p) # 0 /\ Pr!Changed(y, g, p) = 0
      BY <2>3, <3>1, <3>2, <3>3
    <3>7. QED
      BY <3>4, <3>5, <3>6
  <2>6. \A f, p : Equal(o, n, f, p) <=> Pr!Changed(x, f, p) = Pr!Changed(y, f, p)
    BY <2>2 DEF Equal
  <2> HIDE DEF g, w
  <2>7. \A f \in Int : f < g => \A p \in Faults : Equal(o, n, f, p)
    BY <2>4, <2>6
  <2>8. Cause(o, n, g, w)
    <3>1. Equal(o, n, g - 1, "norm")
      <4>1. g - 1 \in Int /\ g - 1 < g /\ "norm" \in Faults
        BY <2>3 DEF Faults
      <4>2. QED
        BY <2>7, <4>1
    <3>2. \A p \in Faults : Equal(o, n, g, p) <=> P(p) < P(w)
      BY <1>3, <2>3, <2>5, <2>6
    <3>3. w = "indexer" => Third(o, g) # Third(n, g)
      <4>1. w = "indexer" => Pr!Changed(x, g, "indexer") # 0 /\ Pr!Changed(y, g, "indexer") = 0
        BY <2>3, <2>5
      <4>2. QED
        BY <2>2, <4>1 DEF Third
    <3>4. QED
      BY <2>3, <3>1, <3>2, <3>3 DEF Cause, P
  <2>9. b.at = g /\ b.wrong = w
    BY <2>2 DEF g, w
  <2> HIDE DEF b
  <2>10. QED
    BY <1>6, <2>3, <2>7, <2>8, <2>9 DEF b
<1>7. QED
  BY <1>5, <1>6

\* A request's notes: those of its prefill and of its decode step.
RowsAs(kind, inputs, functions, st, run) ==
    IF kind = "probe"
    THEN StepAs(inputs, functions, st, run, 1) \o StepAs(inputs, functions, st, run, 2)
    ELSE Pr!RepeatStep(run, 1) \o Pr!RepeatStep(run, 2)
KindSeen(kind, functions, run, f, op) ==
    IF kind = "probe" THEN SeenAs(functions, run, f, op) ELSE RepeatSeen(op)

\* Two steps' notes, one after the other, differ first in the earlier fault's step.
LEMMA StepsTell ==
    ASSUME NEW o, NEW n, NEW s1, NEW t1, NEW s2, NEW t2, NEW name1, NEW name2,
           Match(s1, t1), Match(s2, t2), Alike(o, n),
           LET b == Pr!Earlier(o, n) IN
           /\ /\ Equal(o, n, 0, "norm") /\ (\A p \in Faults : Equal(o, n, 1, p)) => s1 = t1
              /\ Cause(o, n, 1, b.wrong) => FirstAt(s1, t1, name1, Pr!Rows(n, 1))
           /\ /\ Equal(o, n, 1, "norm") /\ (\A p \in Faults : Equal(o, n, 2, p)) => s2 = t2
              /\ Cause(o, n, 2, b.wrong) => FirstAt(s2, t2, name2, Pr!Rows(n, 2))
    PROVE  LET b == Pr!Earlier(o, n)
           IN  IF <<o.wrong, o.at>> = <<n.wrong, n.at>>
               THEN s1 \o s2 = t1 \o t2
               ELSE FirstAt(s1 \o s2, t1 \o t2, IF b.at = 1 THEN name1 ELSE name2,
                            Pr!Rows(n, b.at))
<1> DEFINE b == Pr!Earlier(o, n)
           wrong == b.wrong
           at == b.at
<1>1. IF <<o.wrong, o.at>> = <<n.wrong, n.at>>
      THEN \A f \in Int : \A p \in Faults : Equal(o, n, f, p)
      ELSE /\ at \in {1, 2} /\ Cause(o, n, at, wrong)
           /\ \A f \in Int : f < at => \A p \in Faults : Equal(o, n, f, p)
  BY CauseIs
<1>2. /\ Equal(o, n, 0, "norm") /\ (\A p \in Faults : Equal(o, n, 1, p)) => s1 = t1
      /\ Cause(o, n, 1, wrong) => FirstAt(s1, t1, name1, Pr!Rows(n, 1))
      /\ Equal(o, n, 1, "norm") /\ (\A p \in Faults : Equal(o, n, 2, p)) => s2 = t2
      /\ Cause(o, n, 2, wrong) => FirstAt(s2, t2, name2, Pr!Rows(n, 2))
  OBVIOUS
<1>3. "norm" \in Faults /\ 0 \in Int /\ 1 \in Int /\ 2 \in Int /\ 0 < 2 /\ 1 < 2
  BY DEF Faults
<1> HIDE DEF wrong, at
<1>4. CASE <<o.wrong, o.at>> = <<n.wrong, n.at>>
  <2>1. s1 = t1 /\ s2 = t2
    BY <1>1, <1>2, <1>3, <1>4
  <2>2. QED
    BY <1>4, <2>1
<1>5. CASE <<o.wrong, o.at>> # <<n.wrong, n.at>>
  <2>1. CASE at = 1
    <3>1. FirstAt(s1, t1, name1, Pr!Rows(n, 1))
      BY <1>1, <1>2, <1>5, <2>1
    <3>2. FirstAt(s1 \o s2, t1 \o t2, name1, Pr!Rows(n, 1))
      BY <3>1, JoinFirst
    <3>3. QED
      BY <1>5, <2>1, <3>2 DEF at
  <2>2. CASE at = 2
    <3>1. FirstAt(s2, t2, name2, Pr!Rows(n, 2))
      BY <1>1, <1>2, <1>5, <2>2
    <3>2. s1 = t1 /\ s1 \in Seq(Notes)
      BY <1>1, <1>2, <1>3, <1>5, <2>2 DEF Match
    <3>3. FirstAt(s1 \o s2, t1 \o t2, name2, Pr!Rows(n, 2))
      BY <3>1, <3>2, JoinLater
    <3>4. QED
      BY <1>5, <2>2, <3>3 DEF at
  <2>3. QED
    BY <1>1, <1>5, <2>1, <2>2
<1>6. QED
  BY <1>4, <1>5

\* Steps of the same modules make traces of the same modules.
SameNames(s, t) == \A i \in 1..Len(s) : s[i].name = t[i].name
LEMMA JoinNames ==
    ASSUME NEW a, NEW b, NEW c, NEW d, Match(a, b), Match(c, d), SameNames(a, b), SameNames(c, d)
    PROVE  SameNames(a \o c, b \o d)
<1> DEFINE m == Len(a)
<1>1. /\ a \in Seq(Notes) /\ b \in Seq(Notes) /\ c \in Seq(Notes) /\ d \in Seq(Notes)
      /\ Len(b) = m /\ Len(d) = Len(c)
  BY DEF Match
<1>2. m \in Nat /\ Len(c) \in Nat /\ Len(a \o c) = m + Len(c)
  BY <1>1
<1> SUFFICES ASSUME NEW i \in 1..(m + Len(c)) PROVE (a \o c)[i].name = (b \o d)[i].name
  BY <1>2 DEF SameNames
<1>3. CASE i <= m
  <2>1. i \in 1..m /\ (a \o c)[i] = a[i] /\ (b \o d)[i] = b[i]
    BY <1>1, <1>2, <1>3
  <2>2. QED
    BY <2>1 DEF SameNames
<1>4. CASE ~(i <= m)
  <2>1. i - m \in 1..Len(c) /\ (a \o c)[i] = c[i - m] /\ (b \o d)[i] = d[i - m]
    BY <1>1, <1>2, <1>4
  <2>2. QED
    BY <2>1 DEF SameNames
<1>5. QED
  BY <1>3, <1>4

\* Whatever is traced, the traces of two like requests differ first in the call of the
\* earlier fault, or in the next one a trace sees.
LEMMA RowsTell ==
    ASSUME NEW o, NEW n, Alike(o, n), NEW kind, NEW inputs, NEW functions, NEW st
    PROVE  LET s == RowsAs(kind, inputs, functions, st, o)
               t == RowsAs(kind, inputs, functions, st, n)
               b == Pr!Earlier(o, n)
           IN  /\ Match(s, t)
               /\ kind # "probe" => SameNames(s, t)
               /\ IF <<o.wrong, o.at>> = <<n.wrong, n.at>> THEN s = t
                  ELSE FirstAt(s, t, KindSeen(kind, functions, n, b.at, b.wrong), Pr!Rows(n, b.at))
<1> DEFINE b == Pr!Earlier(o, n)
           wrong == b.wrong
           at == b.at
<1>1. <<o.wrong, o.at>> # <<n.wrong, n.at>> => at \in {1, 2}
  BY CauseIs
<1>2. CASE kind = "probe"
  <2> DEFINE s1 == StepAs(inputs, functions, st, o, 1)
             t1 == StepAs(inputs, functions, st, n, 1)
             s2 == StepAs(inputs, functions, st, o, 2)
             t2 == StepAs(inputs, functions, st, n, 2)
             name(f) == SeenAs(functions, n, f, wrong)
  <2>1. /\ Match(s1, t1)
        /\ Equal(o, n, 1 - 1, "norm") /\ (\A p \in Faults : Equal(o, n, 1, p)) => s1 = t1
        /\ Cause(o, n, 1, wrong) => FirstAt(s1, t1, name(1), Pr!Rows(n, 1))
    BY StepTells
  <2>2. /\ Match(s2, t2)
        /\ Equal(o, n, 2 - 1, "norm") /\ (\A p \in Faults : Equal(o, n, 2, p)) => s2 = t2
        /\ Cause(o, n, 2, wrong) => FirstAt(s2, t2, name(2), Pr!Rows(n, 2))
    BY StepTells
  <2>3. 1 - 1 = 0 /\ 2 - 1 = 1
    OBVIOUS
  <2>4. /\ RowsAs(kind, inputs, functions, st, o) = s1 \o s2
        /\ RowsAs(kind, inputs, functions, st, n) = t1 \o t2
    BY <1>2 DEF RowsAs
  <2>5. \A f : KindSeen(kind, functions, n, f, wrong) = name(f)
    BY <1>2 DEF KindSeen
  <2> HIDE DEF s1, s2, t1, t2, name
  <2>6. Match(s1 \o s2, t1 \o t2)
    BY <2>1, <2>2, JoinMatch
  <2>7. IF <<o.wrong, o.at>> = <<n.wrong, n.at>> THEN s1 \o s2 = t1 \o t2
        ELSE FirstAt(s1 \o s2, t1 \o t2, IF at = 1 THEN name(1) ELSE name(2), Pr!Rows(n, at))
    <3>1. /\ Equal(o, n, 0, "norm") /\ (\A p \in Faults : Equal(o, n, 1, p)) => s1 = t1
          /\ Cause(o, n, 1, Pr!Earlier(o, n).wrong) => FirstAt(s1, t1, name(1), Pr!Rows(n, 1))
      BY <2>1, <2>3
    <3>2. /\ Equal(o, n, 1, "norm") /\ (\A p \in Faults : Equal(o, n, 2, p)) => s2 = t2
          /\ Cause(o, n, 2, Pr!Earlier(o, n).wrong) => FirstAt(s2, t2, name(2), Pr!Rows(n, 2))
      BY <2>2, <2>3
    <3>3. Match(s1, t1) /\ Match(s2, t2)
      BY <2>1, <2>2
    <3>4. QED
      BY <3>1, <3>2, <3>3, StepsTell
  <2>8. at \in {1, 2} => (IF at = 1 THEN name(1) ELSE name(2)) = name(at)
    OBVIOUS
  <2> HIDE DEF wrong, at
  <2>9. QED
    BY <1>1, <1>2, <2>4, <2>5, <2>6, <2>7, <2>8 DEF wrong, at
<1>3. CASE kind # "probe"
  <2> DEFINE s1 == Pr!RepeatStep(o, 1)
             t1 == Pr!RepeatStep(n, 1)
             s2 == Pr!RepeatStep(o, 2)
             t2 == Pr!RepeatStep(n, 2)
             name == RepeatSeen(wrong)
  <2>1. /\ Match(s1, t1) /\ Len(s1) = 3 /\ \A i \in 1..3 : s1[i].name = t1[i].name
        /\ (\A p \in Faults : Equal(o, n, 1, p)) => s1 = t1
        /\ Cause(o, n, 1, wrong) => FirstAt(s1, t1, name, Pr!Rows(n, 1))
    BY RepeatTells
  <2>2. /\ Match(s2, t2) /\ Len(s2) = 3 /\ \A i \in 1..3 : s2[i].name = t2[i].name
        /\ (\A p \in Faults : Equal(o, n, 2, p)) => s2 = t2
        /\ Cause(o, n, 2, wrong) => FirstAt(s2, t2, name, Pr!Rows(n, 2))
    BY RepeatTells
  <2>3. /\ RowsAs(kind, inputs, functions, st, o) = s1 \o s2
        /\ RowsAs(kind, inputs, functions, st, n) = t1 \o t2
    BY <1>3 DEF RowsAs
  <2>4. \A f : KindSeen(kind, functions, n, f, wrong) = name
    BY <1>3 DEF KindSeen
  <2> HIDE DEF s1, s2, t1, t2, name
  <2>5. Match(s1 \o s2, t1 \o t2)
    BY <2>1, <2>2, JoinMatch
  <2>6. IF <<o.wrong, o.at>> = <<n.wrong, n.at>> THEN s1 \o s2 = t1 \o t2
        ELSE FirstAt(s1 \o s2, t1 \o t2, IF at = 1 THEN name ELSE name, Pr!Rows(n, at))
    BY <2>1, <2>2, StepsTell
  <2>7. SameNames(s1 \o s2, t1 \o t2)
    <3>1. SameNames(s1, t1) /\ SameNames(s2, t2)
      BY <2>1, <2>2 DEF SameNames
    <3>2. Match(s1, t1) /\ Match(s2, t2)
      BY <2>1, <2>2
    <3>3. QED
      BY <3>1, <3>2, JoinNames
  <2> HIDE DEF wrong, at
  <2>8. QED
    BY <1>3, <2>3, <2>4, <2>5, <2>6, <2>7 DEF wrong, at
<1>4. QED
  BY <1>2, <1>3

------------------------------------------------------------------------------
(* The calls of a worker's traces. *)

Ran(s) == {s[i] : i \in DOMAIN s}
Kinds == {"probe", "repeat", "digest"}
TraceRecords ==
    [id : Nat, inputs : BOOLEAN, functions : BOOLEAN, saved : Seq(Nat), rows : Seq(Notes),
     runs : Seq(TracedRuns), stages : SUBSET {"full", "part"}]

\* A trace's notes are those of its requests: of one, in the stage that was set.
TraceWell(kind, t) ==
    /\ t \in TraceRecords
    /\ (kind = "repeat" => ~t.functions) /\ (kind = "digest" => t.runs = <<>>)
    /\ t.runs = <<>> => t.rows = <<>> /\ t.stages = {}
    /\ Len(t.runs) = 1 => \E st \in {"full", "part"} :
         /\ t.stages = {st}
         /\ t.rows = RowsAs(kind, t.inputs, t.functions, st, t.runs[1])
VerdictAs(kind, old, new) ==
    [first |-> IF kind = "probe" THEN Pr!FirstDifference(old.rows, new.rows)
               ELSE Pr!FirstOf(old.rows, new.rows),
     calls |-> <<Len(old.rows), Len(new.rows)>>,
     old |-> [old EXCEPT !.rows = <<>>], new |-> [new EXCEPT !.rows = <<>>]]
VerdictWell ==
    \/ verdict = Pr!NoVerdict
    \/ \E old, new : /\ TraceWell(tracer, old) /\ TraceWell(tracer, new)
                     /\ verdict = VerdictAs(tracer, old, new)
Traced == /\ tracer \in Kinds /\ stage \in {"full", "part"}
          /\ TraceWell(tracer, trace) /\ TraceWell(tracer, reference) /\ VerdictWell
\* The hooks are of the running trace and of those begun over; the wrapped functions are of
\* some of them, and what a trace gives back is of those begun over.
Hooked ==
    /\ lost \in Seq(Nat) /\ bound \in Seq(Nat) /\ begun \in Nat
    /\ trace.id <= begun /\ \A t \in Ran(lost) : t \in 1..begun
    /\ hooks = Ran(lost) \cup (IF trace.id = 0 THEN {} ELSE {trace.id})
    /\ Ran(bound) \subseteq hooks
    /\ trace.id # 0 => Ran(trace.saved) \subseteq Ran(lost) /\ trace.id \notin Ran(lost)
    /\ tracer = "repeat" => lost = <<>>
ProbeInv == Traced /\ Hooked

\* What is appended is all that a sequence gains.
LEMMA RanGrows ==
    ASSUME NEW s \in Seq(Nat), NEW x \in Nat
    PROVE  /\ Ran(Append(s, x)) = Ran(s) \cup {x} /\ Ran(s \o <<x>>) = Ran(s) \cup {x}
           /\ Append(s, x) \in Seq(Nat)
<1> DEFINE t == Append(s, x)
           n == Len(s)
<1>1. /\ n \in Nat /\ DOMAIN s = 1..n /\ DOMAIN t = 1..(n + 1) /\ t[n + 1] = x
      /\ \A i \in 1..n : t[i] = s[i]
      /\ t \in Seq(Nat) /\ s \o <<x>> = t
  OBVIOUS
<1> HIDE DEF t, n
<1>2. Ran(t) \subseteq Ran(s) \cup {x}
  <2> SUFFICES ASSUME NEW i \in 1..(n + 1) PROVE t[i] \in Ran(s) \cup {x}
    BY <1>1 DEF Ran
  <2>1. i \in 1..n \/ i = n + 1
    BY <1>1
  <2>2. QED
    BY <1>1, <2>1 DEF Ran
<1>3. Ran(s) \cup {x} \subseteq Ran(t)
  <2>1. n + 1 \in DOMAIN t /\ \A i \in 1..n : i \in DOMAIN t
    BY <1>1
  <2>2. x \in Ran(t)
    BY <1>1, <2>1 DEF Ran
  <2>3. \A i \in DOMAIN s : s[i] \in Ran(t)
    BY <1>1, <2>1 DEF Ran
  <2>4. QED
    BY <2>2, <2>3 DEF Ran
<1>4. Ran(t) = Ran(s) \cup {x}
  BY <1>2, <1>3
<1>5. QED
  BY <1>1, <1>4 DEF t

\* No trace is a trace without requests, of any worker.
LEMMA DetachedIs == /\ Pr!Detached \in TraceRecords /\ Pr!Detached.id = 0
                    /\ \A kind : TraceWell(kind, Pr!Detached)
<1>1. Pr!Detached = [id |-> 0, inputs |-> FALSE, functions |-> FALSE, saved |-> <<>>,
                     rows |-> <<>>, runs |-> <<>>, stages |-> {}]
  BY DEF Pr!Detached
<1>2. Pr!Detached \in TraceRecords
  BY <1>1 DEF TraceRecords
<1>3. Len(Pr!Detached.runs) = 0
  BY <1>1
<1>4. QED
  BY <1>1, <1>2, <1>3 DEF TraceWell

\* What a comparison says, by the words of these proofs.
LEMMA VerdictIs == \A old, new : Pr!Verdict(old, new) = VerdictAs(tracer, old, new)
BY DEF Pr!Verdict, VerdictAs

\* A worker starts with no trace.
LEMMA ProbeStart == ASSUME Pr!Init PROVE ProbeInv
<1>1. /\ tracer \in Kinds /\ stage \in {"full", "part"} /\ trace = Pr!Detached
      /\ reference = Pr!Detached /\ verdict = Pr!NoVerdict
      /\ hooks = {} /\ bound = <<>> /\ lost = <<>> /\ begun = 0
  BY DEF Pr!Init, Pr!NoReference, Kinds
<1>2. Traced
  BY <1>1, DetachedIs DEF Traced, VerdictWell
<1>3. trace.id = 0 /\ Ran(<<>>) = {} /\ <<>> \in Seq(Nat)
  BY <1>1, DetachedIs DEF Ran
<1>4. Hooked
  BY <1>1, <1>3 DEF Hooked
<1>5. QED
  BY <1>2, <1>4 DEF ProbeInv

\* A request adds its notes to the running trace.
LEMMA RequestKeeps ==
    ASSUME ProbeInv, NEW run \in TracedRuns, Pr!Request(run) PROVE ProbeInv'
<1>1. /\ UNCHANGED <<tracer, stage, hooks, bound, lost, begun, reference, verdict>>
      /\ tracer \in Kinds /\ tracer # "digest" /\ stage \in {"full", "part"}
      /\ TraceWell(tracer, trace) /\ trace \in TraceRecords
  BY DEF Pr!Request, ProbeInv, Traced, TraceWell
<1>2. CASE trace.id = 0
  <2>1. trace' = trace
    BY <1>2 DEF Pr!Request
  <2>2. QED
    BY <1>1, <2>1 DEF ProbeInv, Traced, Hooked, VerdictWell
<1>3. CASE trace.id # 0
  <2> DEFINE new == RowsAs(tracer, trace.inputs, trace.functions, stage, run)
  <2>1. new = IF tracer = "probe" THEN Pr!Step(run, 1) \o Pr!Step(run, 2)
              ELSE Pr!RepeatStep(run, 1) \o Pr!RepeatStep(run, 2)
    BY StepIs DEF RowsAs
  <2>2. new \in Seq(Notes)
    <3>1. Alike(run, run)
      BY DEF Alike
    <3>2. Match(new, new)
      BY <3>1, RowsTell
    <3>3. QED
      BY <3>2 DEF Match
  <2>3. trace' = [trace EXCEPT !.runs = Append(trace.runs, run),
                               !.stages = trace.stages \cup {stage},
                               !.rows = trace.rows \o new]
    BY <1>3, <2>1 DEF Pr!Request
  <2> HIDE DEF new
  <2>4. /\ trace'.id = trace.id /\ trace'.inputs = trace.inputs
        /\ trace'.functions = trace.functions /\ trace'.saved = trace.saved
        /\ trace'.runs = Append(trace.runs, run) /\ trace'.stages = trace.stages \cup {stage}
        /\ trace'.rows = trace.rows \o new
        /\ trace.runs \in Seq(TracedRuns) /\ trace.rows \in Seq(Notes)
    BY <1>1, <2>3 DEF TraceRecords
  <2>5. /\ Append(trace.runs, run) \in Seq(TracedRuns) /\ trace.rows \o new \in Seq(Notes)
        /\ trace.stages \cup {stage} \in SUBSET {"full", "part"}
    BY <1>1, <2>2, <2>4 DEF TraceRecords
  <2>6. trace' \in TraceRecords
    BY <1>1, <2>3, <2>5 DEF TraceRecords
  <2>7. trace'.runs # <<>>
    BY <2>4
  <2>8. ASSUME Len(trace'.runs) = 1
        PROVE  /\ trace'.stages = {stage} /\ trace'.rows = new /\ trace'.runs[1] = run
    <3>1. trace.runs = <<>>
      BY <2>4, <2>8
    <3>2. trace.rows = <<>> /\ trace.stages = {}
      BY <1>1, <3>1 DEF TraceWell
    <3>3. <<>> \o new = new /\ Append(<<>>, run)[1] = run
      BY <2>2
    <3>4. QED
      BY <2>4, <3>1, <3>2, <3>3
  <2>9. TraceWell(tracer, trace')
    BY <1>1, <2>4, <2>6, <2>7, <2>8 DEF TraceWell, new
  <2>10. Traced'
    BY <1>1, <2>9 DEF ProbeInv, Traced, VerdictWell
  <2>11. Hooked'
    BY <1>1, <2>4 DEF ProbeInv, Hooked
  <2>12. QED
    BY <2>10, <2>11 DEF ProbeInv
<1>4. QED
  BY <1>2, <1>3

\* A trace begins over the one that runs, if one does.
LEMMA BeginKeeps ==
    ASSUME ProbeInv, NEW inputs \in BOOLEAN, NEW functions \in BOOLEAN,
           Pr!Begin(inputs, functions)
    PROVE  ProbeInv'
<1> DEFINE id == begun + 1
<1>1. /\ UNCHANGED <<tracer, stage, reference, verdict>> /\ tracer # "digest"
      /\ tracer = "repeat" => trace.id = 0 /\ ~inputs /\ ~functions
      /\ begun' = id /\ hooks' = hooks \cup {id}
      /\ bound' = IF functions THEN Append(bound, id) ELSE bound
      /\ lost' = IF trace.id = 0 THEN lost ELSE Append(lost, trace.id)
      /\ trace' = [id |-> id, inputs |-> inputs, functions |-> functions, saved |-> bound,
                   rows |-> <<>>, runs |-> <<>>, stages |-> {}]
  BY DEF Pr!Begin, Pr!Detached
<1>2. /\ lost \in Seq(Nat) /\ bound \in Seq(Nat) /\ begun \in Nat
      /\ trace.id <= begun /\ \A t \in Ran(lost) : t \in 1..begun
      /\ hooks = Ran(lost) \cup (IF trace.id = 0 THEN {} ELSE {trace.id})
      /\ Ran(bound) \subseteq hooks
      /\ trace.id # 0 => trace.id \notin Ran(lost)
      /\ tracer = "repeat" => lost = <<>>
      /\ trace.id \in Nat
  BY DEF ProbeInv, Hooked, Traced, TraceWell, TraceRecords
<1>3. id \in Nat /\ id # 0 /\ begun < id
  BY <1>2
<1> HIDE DEF id
<1>4. trace' \in TraceRecords
  BY <1>1, <1>2, <1>3 DEF TraceRecords
<1>5. /\ trace'.id = id /\ trace'.functions = functions /\ trace'.saved = bound
      /\ trace'.rows = <<>> /\ trace'.runs = <<>> /\ trace'.stages = {}
  BY <1>1
<1>6. Len(<<>>) # 1
  OBVIOUS
<1>7. TraceWell(tracer, trace')
  BY <1>1, <1>4, <1>5, <1>6 DEF TraceWell
<1>8. Traced'
  BY <1>1, <1>7 DEF ProbeInv, Traced, VerdictWell
<1>9. Ran(lost') = hooks /\ lost' \in Seq(Nat)
  BY <1>1, <1>2, RanGrows
<1>10. /\ bound' \in Seq(Nat) /\ Ran(bound') \subseteq hooks \cup {id}
  <2>1. CASE functions
    <3>1. bound' = Append(bound, id)
      BY <1>1, <2>1
    <3>2. Ran(Append(bound, id)) = Ran(bound) \cup {id} /\ Append(bound, id) \in Seq(Nat)
      BY <1>2, <1>3, RanGrows
    <3>3. QED
      BY <1>2, <3>1, <3>2
  <2>2. CASE ~functions
    BY <1>1, <1>2, <2>2
  <2>3. QED
    BY <2>1, <2>2
<1>11. id \notin hooks /\ \A t \in hooks : t \in 1..id
  BY <1>2, <1>3
<1>12. tracer' = "repeat" => lost' = <<>>
  BY <1>1, <1>2
<1>13. Hooked'
  BY <1>1, <1>2, <1>3, <1>5, <1>9, <1>10, <1>11, <1>12 DEF Hooked
<1>14. QED
  BY <1>8, <1>13 DEF ProbeInv

\* It ends detached, kept to compare with or compared.
LEMMA EndKeeps == ASSUME ProbeInv, NEW keep \in BOOLEAN, Pr!End(keep) PROVE ProbeInv'
<1>1. /\ UNCHANGED <<tracer, stage, lost, begun>> /\ trace.id # 0
      /\ hooks' = hooks \ {trace.id} /\ bound' = trace.saved /\ trace' = Pr!Detached
      /\ reference' = trace \/ reference' = reference
      /\ verdict' = verdict \/ verdict' = VerdictAs(tracer, reference, trace)
  BY VerdictIs DEF Pr!End
<1>2. /\ TraceWell(tracer, trace) /\ TraceWell(tracer, reference) /\ VerdictWell
      /\ trace.saved \in Seq(Nat)
  BY DEF ProbeInv, Traced, TraceWell, TraceRecords
<1>3. TraceWell(tracer, trace')
  BY <1>1, DetachedIs
<1>4. VerdictWell'
  BY <1>1, <1>2 DEF VerdictWell
<1>5. Traced'
  BY <1>1, <1>2, <1>3, <1>4 DEF ProbeInv, Traced
<1>6. /\ hooks = Ran(lost) \cup {trace.id} /\ trace.id \notin Ran(lost)
      /\ Ran(trace.saved) \subseteq Ran(lost) /\ lost \in Seq(Nat) /\ begun \in Nat
      /\ \A t \in Ran(lost) : t \in 1..begun
      /\ tracer = "repeat" => lost = <<>>
  BY <1>1 DEF ProbeInv, Hooked
<1>7. hooks' = Ran(lost)
  BY <1>1, <1>6
<1>8. trace'.id = 0 /\ lost' = lost /\ begun' = begun /\ bound' = trace.saved
  BY <1>1, DetachedIs
<1>9. Hooked'
  BY <1>1, <1>2, <1>6, <1>7, <1>8 DEF Hooked
<1>10. QED
  BY <1>5, <1>9 DEF ProbeInv

\* The other calls leave the traces alone.
LEMMA OthersKeep ==
    ASSUME ProbeInv, UNCHANGED <<tracer, hooks, bound, lost, trace, begun, verdict>>,
           stage' \in {"full", "part"}, reference' = reference \/ reference' = Pr!Detached
    PROVE  ProbeInv'
<1>1. TraceWell(tracer, reference')
  BY DetachedIs DEF ProbeInv, Traced
<1>2. Traced'
  BY <1>1 DEF ProbeInv, Traced, VerdictWell
<1>3. Hooked'
  BY DEF ProbeInv, Hooked
<1>4. QED
  BY <1>2, <1>3 DEF ProbeInv

\* Every call keeps the traces' notes and what is hooked.
LEMMA ProbeKept == ProbeInv /\ [MCNext]_<<way, vars, gateVars, probeVars>> => ProbeInv'
<1> SUFFICES ASSUME ProbeInv, [MCNext]_<<way, vars, gateVars, probeVars>> PROVE ProbeInv'
  OBVIOUS
<1>1. CASE UNCHANGED probeVars
  <2>1. stage \in {"full", "part"}
    BY DEF ProbeInv, Traced
  <2>2. QED
    BY <1>1, <2>1, OthersKeep DEF probeVars
<1>2. ASSUME NEW run \in TracedRuns, Asked(run) PROVE ProbeInv'
  BY <1>2, RequestKeeps DEF Asked
<1>3. ASSUME NEW inputs \in BOOLEAN, NEW functions \in BOOLEAN, Attaches(inputs, functions)
      PROVE  ProbeInv'
  BY <1>3, BeginKeeps DEF Attaches
<1>4. ASSUME NEW keep \in BOOLEAN, Pr!End(keep) PROVE ProbeInv'
  BY <1>4, EndKeeps
<1>5. CASE Pr!Forget
  <2>1. stage \in {"full", "part"}
    BY DEF ProbeInv, Traced
  <2>2. QED
    BY <1>5, <2>1, OthersKeep DEF Pr!Forget, Pr!NoReference
<1>6. ASSUME NEW s \in {"full", "part"}, Switches(s) PROVE ProbeInv'
  BY <1>6, OthersKeep DEF Switches, Pr!Fa2Stage
<1>7. ASSUME NEW weights, Pr!Load(weights) PROVE ProbeInv'
  <2>1. stage \in {"full", "part"}
    BY DEF ProbeInv, Traced
  <2>2. QED
    BY <1>7, <2>1, OthersKeep DEF Pr!Load
<1>8. Asking => UNCHANGED probeVars
  BY DEF Asking
<1>9. Gating => UNCHANGED probeVars
  BY DEF Gating
<1>10. CASE UNCHANGED <<way, vars, gateVars, probeVars>>
  BY <1>1, <1>10
<1>11. CASE MCNext
  <2>1. \/ UNCHANGED probeVars
        \/ \E run \in TracedRuns : Asked(run)
        \/ \E inputs, functions \in BOOLEAN : Attaches(inputs, functions)
        \/ \E keep \in BOOLEAN : Pr!End(keep)
        \/ Pr!Forget
        \/ \E s \in {"full", "part"} : Switches(s)
        \/ \E weights \in Pr!Weights : Pr!Load(weights)
    BY <1>8, <1>9, <1>11 DEF MCNext
  <2>2. QED
    BY <1>1, <1>2, <1>3, <1>4, <1>5, <1>6, <1>7, <2>1
<1>12. QED
  BY <1>10, <1>11

\* A comparison of two like requests' traces names the call of the earlier fault.
LEMMA VerdictSays == ASSUME Traced PROVE Pr!FirstIsCause
<1> DEFINE old == verdict.old
           new == verdict.new
           b == Pr!Earlier(old.runs[1], new.runs[1])
<1> SUFFICES ASSUME Pr!Comparable(old, new)
             PROVE  /\ verdict.calls[1] = verdict.calls[2]
                    /\ IF <<old.runs[1].wrong, old.runs[1].at>> = <<new.runs[1].wrong, new.runs[1].at>>
                       THEN verdict.first = <<>>
                       ELSE /\ verdict.first[1].name = Pr!Seen(b.wrong, b.at, new)
                            /\ verdict.first[1].rows = Pr!Rows(new.runs[1], b.at)
  BY DEF Pr!FirstIsCause
<1>1. /\ Len(old.runs) = 1 /\ Len(new.runs) = 1 /\ old.stages = new.stages
      /\ old.inputs = new.inputs /\ old.functions = new.functions
      /\ old.runs[1].ids = new.runs[1].ids /\ old.runs[1].hit = new.runs[1].hit
  BY DEF Pr!Comparable
<1>2. verdict # Pr!NoVerdict
  <2>1. Pr!NoVerdict.old.runs = <<>> /\ Len(<<>>) # 1
    BY DEF Pr!NoVerdict, Pr!Detached
  <2>2. QED
    BY <1>1, <2>1
<1>3. PICK s, t : /\ TraceWell(tracer, s) /\ TraceWell(tracer, t)
                  /\ verdict = VerdictAs(tracer, s, t)
  BY <1>2 DEF Traced, VerdictWell
<1>4. s \in TraceRecords /\ t \in TraceRecords
  BY <1>3 DEF TraceWell
<1>5. /\ old = [s EXCEPT !.rows = <<>>] /\ new = [t EXCEPT !.rows = <<>>]
      /\ verdict.calls[1] = Len(s.rows) /\ verdict.calls[2] = Len(t.rows)
      /\ verdict.first = IF tracer = "probe" THEN Pr!FirstDifference(s.rows, t.rows)
                         ELSE Pr!FirstOf(s.rows, t.rows)
  BY <1>3 DEF VerdictAs
<1> HIDE DEF old, new
<1>6. /\ old.runs = s.runs /\ old.stages = s.stages /\ old.inputs = s.inputs
      /\ old.functions = s.functions
      /\ new.runs = t.runs /\ new.stages = t.stages /\ new.inputs = t.inputs
      /\ new.functions = t.functions
  BY <1>4, <1>5 DEF TraceRecords
<1> DEFINE o == s.runs[1]
           n == t.runs[1]
           inputs == t.inputs
           functions == t.functions
<1>7. Alike(o, n)
  <2>1. s.runs \in Seq(TracedRuns) /\ t.runs \in Seq(TracedRuns) /\ Len(s.runs) = 1
        /\ Len(t.runs) = 1
    BY <1>1, <1>4, <1>6 DEF TraceRecords
  <2>2. o \in TracedRuns /\ n \in TracedRuns
    BY <2>1
  <2>3. QED
    BY <1>1, <1>6, <2>2 DEF Alike
<1>8. PICK st \in {"full", "part"} :
        /\ s.rows = RowsAs(tracer, inputs, functions, st, o)
        /\ t.rows = RowsAs(tracer, inputs, functions, st, n)
  <2>1. PICK st \in {"full", "part"} :
          s.stages = {st} /\ s.rows = RowsAs(tracer, s.inputs, s.functions, st, o)
    BY <1>1, <1>3, <1>6 DEF TraceWell
  <2>2. PICK su \in {"full", "part"} :
          t.stages = {su} /\ t.rows = RowsAs(tracer, t.inputs, t.functions, su, n)
    BY <1>1, <1>3, <1>6 DEF TraceWell
  <2>3. st = su
    BY <1>1, <1>6, <2>1, <2>2
  <2>4. QED
    BY <1>1, <1>6, <2>1, <2>2, <2>3
<1>9. /\ Match(s.rows, t.rows)
      /\ tracer # "probe" => SameNames(s.rows, t.rows)
      /\ IF <<o.wrong, o.at>> = <<n.wrong, n.at>> THEN s.rows = t.rows
         ELSE FirstAt(s.rows, t.rows, KindSeen(tracer, functions, n, b.at, b.wrong),
                      Pr!Rows(n, b.at))
  <2>1. b = Pr!Earlier(o, n)
    BY <1>6
  <2>2. QED
    BY <1>7, <1>8, <2>1, RowsTell
<1>10. verdict.first = Pr!FirstDifference(s.rows, t.rows)
  BY <1>5, <1>9, RepeatDifferenceIs DEF Match, SameNames
<1>11. verdict.calls[1] = verdict.calls[2]
  BY <1>5, <1>9 DEF Match
<1>12. <<o.wrong, o.at>> # <<n.wrong, n.at>> =>
         KindSeen(tracer, functions, n, b.at, b.wrong) = Pr!Seen(b.wrong, b.at, new)
  <2>1. CASE tracer = "probe"
    BY <1>6, <2>1 DEF KindSeen, SeenAs, Pr!Seen
  <2>2. CASE tracer = "repeat"
    <3>1. ~new.functions
      BY <1>3, <1>6, <2>2 DEF TraceWell
    <3>2. QED
      BY <2>2, <3>1 DEF KindSeen, RepeatSeen, Pr!Seen
  <2>3. tracer # "digest"
    <3>1. Len(<<>>) # 1
      OBVIOUS
    <3>2. QED
      BY <1>1, <1>3, <1>6, <3>1 DEF TraceWell
  <2>4. QED
    BY <2>1, <2>2, <2>3 DEF Traced, Kinds
<1>13. QED
  BY <1>6, <1>9, <1>10, <1>11, <1>12, DifferenceIs DEF Match

\* No hook and no wrapped function stays but those of a trace that has not ended.
LEMMA NothingLeft == ASSUME ProbeInv PROVE Pr!NothingStays
<1> DEFINE on == lost \o (IF trace.id = 0 THEN <<>> ELSE <<trace.id>>)
<1>1. /\ lost \in Seq(Nat) /\ trace.id \in Nat
      /\ hooks = Ran(lost) \cup (IF trace.id = 0 THEN {} ELSE {trace.id})
      /\ Ran(bound) \subseteq hooks /\ (tracer = "repeat" => lost = <<>>)
  BY DEF ProbeInv, Hooked, Traced, TraceWell, TraceRecords
<1>2. Ran(on) = hooks
  <2>1. CASE trace.id = 0
    <3>1. on = lost
      BY <1>1, <2>1
    <3>2. QED
      BY <1>1, <2>1, <3>1
  <2>2. CASE trace.id # 0
    BY <1>1, <2>2, RanGrows
  <2>3. QED
    BY <2>1, <2>2
<1>3. \A f : Pr!Range(f) = Ran(f)
  BY ProbeWords DEF Ran
<1> HIDE DEF on
<1>4. hooks = Pr!Range(on) /\ \A t \in Pr!Range(bound) : t \in Pr!Range(on)
  BY <1>1, <1>2, <1>3
<1>5. QED
  BY <1>1, <1>4 DEF Pr!NothingStays, on

\* A layer's digest is another exactly where a weight of it is.
LEMMA DigestsTell == Pr!DigestTells
<1> SUFFICES ASSUME NEW old, NEW new
             PROVE  LET moved == Pr!Differing(old, new) \cup Pr!Missing(old, new)
                                   \cup Pr!Missing(new, old)
                    IN  /\ \A layer :
                             Pr!LayerDigest(old, layer) # Pr!LayerDigest(new, layer)
                               <=> \E m \in moved : WeightLayer[m] = layer
                        /\ Pr!HashesDiffer(old, new) = moved
  BY DEF Pr!DigestTells
<1> DEFINE moved == Pr!Differing(old, new) \cup Pr!Missing(old, new) \cup Pr!Missing(new, old)
<1>1. \A m : m \in moved <=>
        \/ m \in DOMAIN old /\ m \in DOMAIN new /\ old[m] # new[m]
        \/ m \in DOMAIN old /\ m \notin DOMAIN new
        \/ m \in DOMAIN new /\ m \notin DOMAIN old
  BY DEF Pr!Differing, Pr!Missing
<1> HIDE DEF moved
<1>2. \A w, layer, x : x \in Pr!LayerDigest(w, layer) <=>
        \E k \in DOMAIN w : WeightLayer[k] = layer /\ x = <<k, w[k]>>
  BY DEF Pr!LayerDigest
<1>3. \A w, layer, k, v : <<k, v>> \in Pr!LayerDigest(w, layer) <=>
        k \in DOMAIN w /\ WeightLayer[k] = layer /\ v = w[k]
  BY <1>2
<1>4. ASSUME NEW layer, NEW m \in moved, WeightLayer[m] = layer
      PROVE  Pr!LayerDigest(old, layer) # Pr!LayerDigest(new, layer)
  <2>1. CASE m \in DOMAIN old
    <3>1. <<m, old[m]>> \in Pr!LayerDigest(old, layer)
      BY <1>3, <1>4, <2>1
    <3>2. <<m, old[m]>> \notin Pr!LayerDigest(new, layer)
      BY <1>1, <1>3, <1>4, <2>1
    <3>3. QED
      BY <3>1, <3>2
  <2>2. CASE m \notin DOMAIN old
    <3>1. m \in DOMAIN new
      BY <1>1, <2>2
    <3>2. <<m, new[m]>> \in Pr!LayerDigest(new, layer)
      BY <1>3, <1>4, <3>1
    <3>3. <<m, new[m]>> \notin Pr!LayerDigest(old, layer)
      BY <1>3, <2>2
    <3>4. QED
      BY <3>2, <3>3
  <2>3. QED
    BY <2>1, <2>2
<1>5. ASSUME NEW layer, ~ \E m \in moved : WeightLayer[m] = layer
      PROVE  Pr!LayerDigest(old, layer) = Pr!LayerDigest(new, layer)
  <2>1. \A k : WeightLayer[k] = layer =>
          (k \in DOMAIN old <=> k \in DOMAIN new) /\ (k \in DOMAIN old => old[k] = new[k])
    BY <1>1, <1>5
  <2>2. \A x : x \in Pr!LayerDigest(old, layer) <=> x \in Pr!LayerDigest(new, layer)
    BY <1>2, <2>1
  <2>3. \A w : Pr!LayerDigest(w, layer) = {<<k, w[k]>> : k \in {j \in DOMAIN w : WeightLayer[j] = layer}}
    BY DEF Pr!LayerDigest
  <2>4. QED
    BY <2>2, <2>3
<1>6. Pr!HashesDiffer(old, new) = moved
  <2>1. \A k : k \in Pr!HashesDiffer(old, new) <=>
          (k \in DOMAIN old \/ k \in DOMAIN new)
            /\ (~(k \in DOMAIN old /\ k \in DOMAIN new) \/ old[k] # new[k])
    BY DEF Pr!HashesDiffer
  <2>2. \A k : k \in Pr!HashesDiffer(old, new) <=> k \in moved
    BY <1>1, <2>1
  <2>3. moved = {k \in DOMAIN old \cup DOMAIN new : k \in moved}
    BY <1>1
  <2>4. Pr!HashesDiffer(old, new) = {k \in DOMAIN old \cup DOMAIN new : k \in moved}
    BY <2>1, <2>2 DEF Pr!HashesDiffer
  <2>5. QED
    BY <2>3, <2>4
<1>7. QED
  BY <1>4, <1>5, <1>6 DEF moved

\* Whatever requests are traced, wherever their blocks lie, and in whatever order the calls
\* come: two like traces differ first in the call that went wrong, or in the next one a
\* trace sees; a worker is left as it was found; and a digest tells exactly what moved.
THEOREM CauseNamed == MCSpec => []TraceNamesCause
<1>1. MCInit => ProbeInv
  BY ProbeStart DEF MCInit
<1>2. ProbeInv /\ [MCNext]_<<way, vars, gateVars, probeVars>> => ProbeInv'
  BY ProbeKept
<1>3. ProbeInv => TraceNamesCause
  BY VerdictSays, NothingLeft, DigestsTell DEF ProbeInv, TraceNamesCause, Pr!TraceNamesCause
<1>4. QED
  BY <1>1, <1>2, <1>3, PTL DEF MCSpec
=============================================================================
