-------------------------------- MODULE ApcLpa --------------------------------
(***************************************************************************)
(* The APC-first LPA of runtime/: what the scheduler's cache manager may   *)
(* share of a request whose prefill is partly approximated, and what the   *)
(* worker approximates.  (apc_policy.py, apc_runtime.py, apc_worker.py,    *)
(* lpa.py, attached to vLLM by patch_apc_lpa.py.)                          *)
(*                                                                         *)
(* vLLM is external: a scheduler that runs one request at a time, in       *)
(* chunks, up to Ahead steps ahead of the worker, with drafts the worker   *)
(* may reject; that preempts and evicts; and a hash table of full blocks   *)
(* whose key is the text up to the block's end.  A block is entered in the *)
(* table as its tokens are scheduled, before the worker computes them.     *)
(***************************************************************************)
EXTENDS Naturals, Sequences, FiniteSets

CONSTANTS
    Requests,
    Text,       \* per request, the tokens it will have, prompt and output
    Prompt,     \* per request, how many of them are its prompt
    Groups,     \* the cache groups, each named by its block size
    TailTokens, \* lpa.tail_tokens
    BreakEven,  \* lpa.break_even_tokens
    Chunk,      \* the longest step of a prefill
    Draft,      \* the drafts of a decoding step, 0 without MTP
    Ahead,      \* how many steps the scheduler is ahead, 1 if synchronous
    None

ASSUME ApcAssumption ==
    /\ Groups \subseteq Nat \ {0}
    /\ TailTokens \in Nat \ {0} /\ BreakEven \in Nat
    /\ Chunk \in Nat \ {0} /\ Draft \in Nat /\ Ahead \in Nat \ {0}
    /\ Prompt \in [Requests -> Nat]
    /\ \A r \in Requests : Text[r] \in Seq(Nat) /\ Prompt[r] \in 1..Len(Text[r])
    /\ None \notin Nat \cup Requests

VARIABLES
    \* The scheduler's requests.
    status, off, policy, wire, computed, known, upto,
    \* The shared hash table, and its keys that name an approximate block.
    shared, bad,
    \* Steps scheduled and not yet heard of, and finished requests to announce.
    flight, retired,
    \* The worker: policies, whom it is configured for and how, and per request
    \* how far it computed and which positions not exactly.
    told, owner, spec, done, skipped,
    \* Whether any check of the code failed.
    raised

requests == <<status, off, policy, wire, computed, known, upto>>
worker == <<told, owner, spec, done, skipped>>
vars == <<requests, shared, bad, flight, retired, worker, raised>>

Least(a, b) == IF a < b THEN a ELSE b
Most(a, b) == IF a < b THEN b ELSE a

-----------------------------------------------------------------------------
(* The policy.                                                             *)

Policies == [cached: Nat, start: Nat \cup {None}]   \* PrefillPolicy
ASSUME NoneAssumption == None \notin Policies

ExactTail(r) == Least(TailTokens, Prompt[r])
ApproximateEnd(r) == Prompt[r] - ExactTail(r)
Eligible(r, cached) == Most(ApproximateEnd(r), cached) - cached

\* A fault: a window chosen again at each admission.
PlanAfresh(r, restored, previous) ==
    LET cached == Least(restored, Prompt[r])
    IN  [cached |-> cached,
         start  |-> IF r \notin off /\ Eligible(r, cached) > BreakEven
                    THEN cached ELSE None]

\* plan_prefill: the window is chosen once, at the hit of the first admission.
PlanPrefill(r, restored, previous) ==
    LET cached == Least(restored, Prompt[r])
    IN  [cached |-> cached,
         start  |-> IF previous # None THEN previous.start
                    ELSE IF r \notin off /\ Eligible(r, cached) > BreakEven
                    THEN cached ELSE None]

Valid(r, p) == p.start # None => p.start < ApproximateEnd(r)

Approximates(r, p) ==
    p.start # None /\ Most(p.start, p.cached) < ApproximateEnd(r)

\* Faults: a request restored past its window's start is taken for an exact one;
\* an exact request shares nothing of its own.
RelaxedEnd(p, end) ==
    IF p.start = None \/ p.start < p.cached THEN end ELSE Least(end, p.start)
RestoredEnd(p, end) == Least(end, IF p.start = None THEN p.cached ELSE p.start)

CacheableEnd(p, end) == IF p.start = None THEN end ELSE Least(end, p.start)

-----------------------------------------------------------------------------
(* The shared hash table.                                                  *)

Ends(g, n) == {e \in 1..n : e % g = 0}
Key(g, r, end) == <<g, SubSeq(Text[r], 1, end)>>
Keys(r, n) == UNION {{Key(g, r, e) : e \in Ends(g, n)} : g \in Groups}
AllKeys == UNION {Keys(r, Len(Text[r])) : r \in Requests}

\* A prefix is restored where every group can; the last token never is.
Hits(r) ==
    {h \in 0..(known[r] - 1) :
        (\A g \in Groups : h % g = 0) /\ Keys(r, h) \subseteq shared}

Running == {r \in Requests : status[r] = "running"}
Held == UNION {Keys(r, upto[r]) : r \in Running}

\* The blocks of r up to `last' that depend on an inexact position.
Tainted(r, last, inexact) ==
    UNION {{Key(g, r, e) : e \in {e \in Ends(g, last) : \E p \in inexact : p < e}} :
           g \in Groups}

-----------------------------------------------------------------------------
TypeOK ==
    /\ status \in [Requests -> {"waiting", "running", "preempted", "finished"}]
    /\ off \in SUBSET Requests
    /\ \A f \in {policy, wire, told} : \A r \in Requests :
          f[r] # None => /\ f[r] \in Policies /\ f[r].cached <= Prompt[r]
                         /\ Valid(r, f[r])
    /\ \A f \in {computed, known, upto, done} : \A r \in Requests :
          f[r] \in 0..Len(Text[r])
    /\ shared \subseteq AllKeys /\ bad \subseteq shared
    /\ Len(flight) <= Ahead
    /\ retired \in SUBSET Requests /\ owner \in Requests \cup {None}
    /\ spec \in Nat \X Nat
    /\ \A r \in Requests : skipped[r] \subseteq 0..(Len(Text[r]) - 1)
    /\ raised \in BOOLEAN

Init ==
    /\ status = [r \in Requests |-> "waiting"] /\ off \in SUBSET Requests
    /\ policy = [r \in Requests |-> None] /\ wire = policy /\ told = policy
    /\ computed = [r \in Requests |-> 0] /\ upto = computed /\ done = computed
    /\ known = Prompt
    /\ shared = {} /\ bad = {} /\ flight = <<>> /\ retired = {}
    /\ owner = None /\ spec = <<0, 0>>
    /\ skipped = [r \in Requests |-> {}] /\ raised = FALSE

-----------------------------------------------------------------------------
(* The scheduler.                                                          *)

\* The policy the client sees is the one installed; publication_end; and
\* validate_publication of each block entered.
Publish(r, held, end) ==
    LET last == CacheableEnd(policy'[r], end)
    IN  /\ upto' = [upto EXCEPT ![r] = Most(held, last)]
        /\ shared' = shared \cup Keys(r, last)
        /\ raised' = \/ raised \/ ~Valid(r, policy'[r])
                     \/ wire[r] # None /\ wire[r] # policy[r]
                     \/ \E g \in Groups : \E e \in Ends(g, last) :
                           CacheableEnd(policy'[r], e) # e

Send(r, new, from, n, draft) ==
    /\ flight' = Append(flight,
           [req |-> r, new |-> new, wire |-> wire'[r], pos |-> from, n |-> n,
            draft |-> draft, accepted |-> 0, end |-> 0, gone |-> retired,
            entered |-> upto'[r],
            generated |-> ~new /\ (known[r] > Prompt[r] \/ from >= Prompt[r])])
    /\ retired' = {}
    /\ computed' = [computed EXCEPT ![r] = from + n]

\* A new or preempted request, and the prefix its lookup restores.
Admissible(r, h) ==
    /\ status[r] \in {"waiting", "preempted"} /\ Running = {}
    /\ Len(flight) < Ahead /\ h \in Hits(r)

Admit(r, h) ==
    /\ Admissible(r, h)
    /\ policy' = [policy EXCEPT ![r] = PlanPrefill(r, h, @)]
    /\ wire' = [wire EXCEPT ![r] = policy'[r]]
    /\ status' = [status EXCEPT ![r] = "running"]
    /\ \E n \in 1..Least(Chunk, known[r] - h) :
          Publish(r, h, h + n) /\ Send(r, TRUE, h, n, FALSE)
    /\ UNCHANGED <<off, known, bad, worker>>

\* No room: the provisional policy is taken back, whatever the retry will find.
Refuse(r, h) ==
    /\ Admissible(r, h)
    /\ policy' = [policy EXCEPT ![r] = @]
    /\ UNCHANGED <<status, off, wire, computed, known, upto>>
    /\ UNCHANGED <<shared, bad, flight, retired, worker, raised>>

Schedule(r, n, draft) ==
    /\ status[r] = "running" /\ Len(flight) < Ahead
    /\ UNCHANGED <<status, off, policy, wire, known, bad, worker>>
    /\ Publish(r, upto[r], Least(computed[r] + n, known[r]))
    /\ Send(r, FALSE, computed[r], n, draft)

\* The next chunk of the tokens known, or, once the last of them is the next,
\* it and drafts.  (Ahead of the worker, the tokens to come are scheduled too.)
Continue(r) ==
    \/ /\ computed[r] < known[r]
       /\ \E n \in 1..Least(Chunk, known[r] - computed[r]) : Schedule(r, n, FALSE)
    \/ /\ computed[r] >= known[r] \/ (computed[r] + 1 = known[r] /\ known[r] > Prompt[r])
       /\ \E n \in 1..(1 + Draft) :
             computed[r] + n <= Len(Text[r]) /\ Schedule(r, n, TRUE)

InFlight(r) == \E i \in 1..Len(flight) : flight[i].req = r

\* Its blocks are free, its policy stays with it.
Preempt(r) ==
    /\ status[r] = "running" /\ ~InFlight(r)
    /\ status' = [status EXCEPT ![r] = "preempted"]
    /\ computed' = [computed EXCEPT ![r] = 0] /\ upto' = [upto EXCEPT ![r] = 0]
    /\ UNCHANGED <<off, policy, wire, known>>
    /\ UNCHANGED <<shared, bad, flight, retired, worker, raised>>

\* It is done, or its client gave up.
Finish(r) ==
    /\ status[r] \in {"running", "preempted"}
    /\ status' = [status EXCEPT ![r] = "finished"]
    /\ retired' = retired \cup {r}
    /\ policy' = [policy EXCEPT ![r] = None] /\ wire' = [wire EXCEPT ![r] = None]
    /\ computed' = [computed EXCEPT ![r] = 0] /\ upto' = [upto EXCEPT ![r] = 0]
    /\ known' = [known EXCEPT ![r] = Prompt[r]]
    /\ UNCHANGED off
    /\ UNCHANGED <<shared, bad, flight, worker, raised>>

\* A block nobody uses is given to other tokens.
Evict(k) ==
    /\ k \in shared \ Held
    /\ shared' = shared \ {k} /\ bad' = bad \ {k}
    /\ UNCHANGED <<requests, flight, retired, worker, raised>>

\* The scheduler hears of a step: which drafts were rejected, what was generated.
Output ==
    /\ flight # <<>> /\ Head(flight).accepted > 0
    /\ LET s == Head(flight)
           r == s.req
       IN  /\ flight' = Tail(flight)
           /\ computed' = IF status[r] = "running"
                          THEN [computed EXCEPT ![r] = @ - (s.n - s.accepted)]
                          ELSE computed
           /\ known' = IF status[r] = "running" /\ s.end >= known[r]
                       THEN [known EXCEPT ![r] = Least(s.end + 1, Len(Text[r]))]
                       ELSE known
    /\ UNCHANGED <<status, off, policy, wire, upto>>
    /\ UNCHANGED <<shared, bad, retired, worker, raised>>

-----------------------------------------------------------------------------
(* The worker.                                                             *)

\* _read_policy: what came with the request is what its lookup restored.
ReadPolicy(s) ==
    /\ s.wire # None
    /\ s.wire.cached = Least(s.pos, Prompt[s.req]) /\ Valid(s.req, s.wire)
    /\ s.req \in off => s.wire.start = None

\* A fault: the window has no tail.
NoTail(r, p) == IF Approximates(r, p) THEN <<p.start, Prompt[r]>> ELSE <<0, 0>>

\* The window the layers approximate, <<0, 0>> in mode off.
Configured(r, p) ==
    IF Approximates(r, p) THEN <<p.start, ApproximateEnd(r)>> ELSE <<0, 0>>

\* validate_scheduled_start, called in mode predict only.
Misplaced(s, at, window) ==
    /\ window # <<0, 0>> /\ at # s.pos
    /\ ~(/\ Draft > 0 /\ s.generated /\ s.pos >= Prompt[s.req]
         /\ at \in Prompt[s.req]..s.pos)

\* approximate_span, in absolute positions.
Span(window, from, n) == {p \in from..(from + n - 1) : window[1] <= p /\ p < window[2]}

Unseen == {i \in 1..Len(flight) : flight[i].accepted = 0}

\* before_forward, and the step itself.
BeforeForward ==
    \E i \in Unseen : \E accepted \in 1..flight[i].n :
        /\ \A j \in Unseen : i <= j
        /\ ~flight[i].draft => accepted = flight[i].n
        /\ LET s == flight[i]
               r == s.req
               policies == [q \in Requests |->
                              IF s.new /\ q = r THEN s.wire
                              ELSE IF q \in s.gone THEN None ELSE told[q]]
               at == IF s.new THEN s.pos ELSE done[r]
               before == IF s.new THEN {p \in 0..(s.pos - 1) :
                                          Keys(r, s.pos) \cap bad # {}}
                         ELSE skipped[r]
           IN  /\ told' = policies /\ owner' = r
               /\ spec' = IF policies[r] # None /\ (owner # r \/ s.new)
                          THEN Configured(r, policies[r]) ELSE spec
               /\ done' = [q \in Requests |-> IF q = r THEN at + accepted
                             ELSE IF q \in s.gone THEN 0 ELSE done[q]]
               /\ skipped' = [q \in Requests |->
                                IF q = r THEN before \cup Span(spec', at, accepted)
                                ELSE IF q \in s.gone THEN {} ELSE skipped[q]]
               /\ bad' = bad \cup (shared \cap
                            Tainted(r, Least(s.entered, done'[r]), skipped'[r]))
               /\ raised' = \/ raised \/ policies[r] = None
                            \/ s.new /\ ~ReadPolicy(s)
                            \/ Misplaced(s, at, spec')
               /\ flight' = [flight EXCEPT ![i].accepted = accepted, ![i].end = done'[r]]
    /\ UNCHANGED <<requests, shared, retired>>

Next ==
    \/ \E r \in Requests :
          \/ \E h \in Hits(r) : Admit(r, h) \/ Refuse(r, h)
          \/ Continue(r) \/ Preempt(r) \/ Finish(r)
    \/ \E k \in shared : Evict(k)
    \/ Output \/ BeforeForward

Spec == Init /\ [][Next]_vars

-----------------------------------------------------------------------------
(* Properties.                                                             *)

\* What a later request can restore was computed without approximation, and
\* nothing it depends on was approximated.
SharedIsExact == bad = {}

\* The blocks of r's current admission have been worked on.
Started(r) == \A i \in Unseen : ~(flight[i].req = r /\ flight[i].new)

\* The worker approximated what the scheduler admitted and nothing else: from
\* the window's start, past what was restored, to the exact tail; and no check
\* of either refuses what a legal schedule brings, chunk after chunk and
\* admission after admission.
WindowOnly ==
    /\ ~raised
    /\ \A r \in Running : Started(r) =>
          skipped[r] = IF policy[r].start = None THEN {}
                       ELSE {p \in 0..(done[r] - 1) : /\ policy[r].start <= p
                                                      /\ policy[r].cached <= p
                                                      /\ p < ApproximateEnd(r)}

\* What is exact is shared: all of a prompt without approximation, and all of
\* another before its window.
ExactIsShared ==
    \A r \in Running : Started(r) =>
        LET exact == IF policy[r].start = None THEN Prompt[r] ELSE policy[r].start
        IN  Keys(r, Least(done[r], exact)) \subseteq shared

\* A request's window is chosen at the hit its first successful admission
\* restores, and neither chunks, preemption nor another hit move it.
WindowKept ==
    [][\A r \in Requests :
          IF policy[r] # None
          THEN status'[r] # "finished" =>
                  policy'[r] # None /\ policy'[r].start = policy[r].start
          ELSE policy'[r] # None =>
                  /\ status'[r] = "running"
                  /\ policy'[r].start \in {None, flight'[Len(flight')].pos}]_vars
=============================================================================
