------------------------------- MODULE KpoolRing -------------------------------
(***************************************************************************)
(* The kpool indexer's raw-tail ring as patch_kpool_ring.py leaves it.     *)
(* Decoding stashes the raw key of every token of a step, drafts included, *)
(* in a ring of slots, and compresses a pool of Kpool keys when its last   *)
(* one is stashed.  A rejected draft is computed again in a later step,    *)
(* which reads the pool's earlier keys from the ring.                      *)
(*                                                                         *)
(* A key is abstracted to its position and to whether it was computed on   *)
(* the committed text; a pool is named by the position it starts at.  The  *)
(* kernels are those of vLLM: the prefill writer, which compresses the     *)
(* pools it completes from its own input, is external.                     *)
(***************************************************************************)
EXTENDS Naturals

CONSTANTS
    Kpool,      \* index_kpool: keys per pool
    Depth,      \* num_speculative_tokens
    Context     \* the longest context

ASSUME KpoolAssumption ==
    /\ Kpool \in Nat \ {0} /\ Depth \in Nat /\ Context \in Nat
    \* The launcher's ceiling is a depth of 5, with pools of 4.
    /\ Depth <= 3 * Kpool

\* A fault: one pool, whatever the drafts.
OnePool == Kpool

\* kpool * next_power_of_2(cdiv(kpool + num_spec, kpool))
Ring == Kpool * (CHOOSE m \in {1, 2, 4} :
                    /\ Kpool + Depth <= Kpool * m
                    /\ \A n \in {1, 2, 4} : Kpool + Depth <= Kpool * n => m <= n)

Slots == 0..(Ring - 1)

VARIABLES
    committed,  \* the end of the text, once the step under way is judged
    next, stop, \* the next position of the step, and its end
    at,         \* per slot, whose key it holds
    good,       \* the slots whose key is that of the committed text
    right       \* the pools, by their start, whose entry is that of the text

vars == <<committed, next, stop, at, good, right>>

TypeOK ==
    /\ committed \in 0..Context /\ next \in 0..Context /\ stop \in 0..Context
    /\ at \in [Slots -> Nat] /\ good \in SUBSET Slots
    /\ right \in SUBSET Nat

Idle == next = stop
PoolStart(p) == p - (p % Kpool)
Completes(p) == p % Kpool = Kpool - 1

\* A request starts on a tail block with whatever keys are left in it.
Init ==
    /\ committed = 0 /\ next = 0 /\ stop = 0
    /\ at = [s \in Slots |-> 0] /\ good = {}
    /\ right = {}

\* It is preempted, or another request is given the block, and restores a prefix
\* of complete pools from the cache.
Restore(p) ==
    /\ Idle /\ p % Kpool = 0 /\ p <= committed
    /\ committed' = p /\ next' = p /\ stop' = p
    /\ good' = {}
    /\ right' = {s \in right : s + Kpool <= p}
    /\ UNCHANGED at

\* The seed kernel keeps a token unless the batch holds the one a pool ahead.
Seeds(from, end, p) == from <= p /\ p < end /\ end <= p + Kpool

\* The tokens of a chunk that the seed puts in a slot: none or one.
Seeded(from, end, s) == {p \in from..(end - 1) : Seeds(from, end, p) /\ p % Ring = s}
SeededSlots(from, end) == {s \in Slots : Seeded(from, end, s) # {}}
Completed(from, end) ==
    {s \in 0..end : s % Kpool = 0 /\ s + Kpool <= end /\ from < s + Kpool}

\* A chunk of a prefill.
Prefill(n) ==
    /\ Idle /\ committed + n <= Context
    /\ committed' = committed + n /\ next' = committed' /\ stop' = committed'
    /\ at' = [s \in Slots |-> IF s \in SeededSlots(committed, committed')
                              THEN CHOOSE p \in Seeded(committed, committed', s) : TRUE
                              ELSE at[s]]
    /\ good' = good \cup SeededSlots(committed, committed')
    /\ right' = right \cup Completed(committed, committed')

\* A verification step: the token sampled last and its drafts, of which the
\* committed text keeps the token and some.
Verify(n, kept) ==
    /\ Idle /\ kept <= n /\ n <= 1 + Depth /\ committed + n <= Context
    /\ committed' = committed + kept
    /\ stop' = committed + n
    /\ UNCHANGED <<next, at, good, right>>

\* One token of the step, in order: its key is stashed, and compressed with the
\* pool it completes.
Stash ==
    /\ ~Idle
    /\ at' = [at EXCEPT ![next % Ring] = next]
    /\ good' = IF next < committed THEN good \cup {next % Ring}
                ELSE good \ {next % Ring}
    /\ right' = IF ~Completes(next) THEN right
                ELSE IF \A p \in PoolStart(next)..next :
                            at'[p % Ring] = p /\ p % Ring \in good'
                THEN right \cup {PoolStart(next)}
                ELSE right \ {PoolStart(next)}
    /\ IF next + 1 = stop
       THEN next' = committed /\ stop' = committed
       ELSE next' = next + 1 /\ UNCHANGED stop
    /\ UNCHANGED committed

Next ==
    \/ \E p \in 0..committed : Restore(p)
    \/ \E n \in 1..Context : Prefill(n)
    \/ \E n \in 1..(1 + Depth) : \E kept \in 1..n : Verify(n, kept)
    \/ Stash

Spec == Init /\ [][Next]_vars

-----------------------------------------------------------------------------
\* Whatever drafts were rejected, every pool of the committed text has the entry
\* of its committed keys.
PoolsAreCommitted ==
    Idle => \A s \in 0..committed :
                s % Kpool = 0 /\ s + Kpool <= committed => s \in right

\* The text stashed so far, and the keys of its last pool, which a redo reads.
Written == IF next < committed THEN next ELSE committed
TailIsKept ==
    \A p \in PoolStart(Written)..(Written - 1) :
        at[p % Ring] = p /\ p % Ring \in good

\* What the step under way may have reached.
StepBounds ==
    /\ next <= stop
    /\ IF Idle THEN next = committed
       ELSE committed <= stop /\ stop <= committed + Depth

PoolsSoFar ==
    \A s \in 0..committed : s % Kpool = 0 /\ s + Kpool <= Written => s \in right

IInv == TypeOK /\ StepBounds /\ TailIsKept /\ PoolsSoFar
=============================================================================
