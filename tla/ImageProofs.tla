------------------------------ MODULE ImageProofs ------------------------------
(***************************************************************************)
(* What the image computes.  Whatever the pool, the depth and the context, *)
(* the kpool ring keeps the keys a redo reads; and whatever the layers and *)
(* their kinds, the split, the experts and the order the halves come in, a *)
(* stage's parameters are whole and two stages agree with one.  Whatever a *)
(* step's rows are, a linear-attention layer keeps each of its own text.   *)
(* Whatever the kernels choose among equals, one input gives one result.   *)
(***************************************************************************)
EXTENDS MCImage, FiniteSetTheorems, SequenceTheorems, WellFoundedInduction, TLAPS

LEMMA ModBounds == ASSUME NEW r \in Nat \ {0}, NEW p \in Nat
                   PROVE  p % r \in 0..(r - 1)
  OBVIOUS

LEMMA Distinct == ASSUME NEW r \in Nat \ {0}, NEW p \in Nat, NEW q \in Nat,
                         p % r = q % r, p < q, q < p + r
                  PROVE  FALSE
<1> DEFINE a == p \div r
           b == q \div r
<1>1. a \in Nat /\ b \in Nat /\ p = r * a + (p % r) /\ q = r * b + (q % r)
  OBVIOUS
<1> HIDE DEF a, b
<1>2. r * b - r * a = q - p
  BY <1>1
<1>3. CASE b <= a
  <2>1. r * b <= r * a
    BY <1>1, <1>3
  <2> QED
    BY <2>1, <1>1, <1>2
<1>4. CASE a + 1 <= b
  <2>1. r * (a + 1) <= r * b
    BY <1>1, <1>4
  <2>2. r * (a + 1) = r * a + r
    BY <1>1
  <2> QED
    BY <2>1, <2>2, <1>1, <1>2
<1> QED
  BY <1>1, <1>3, <1>4

LEMMA PoolOf == ASSUME NEW k \in Nat \ {0}, NEW p \in Nat
                PROVE  /\ (p - (p % k)) \in Nat /\ (p - (p % k)) % k = 0
                       /\ p - (p % k) <= p /\ p < p - (p % k) + k
  OBVIOUS

LEMMA RingSize == Ring \in Nat /\ Kpool + Depth <= Ring
<1> DEFINE P(m) == /\ Kpool + Depth <= Kpool * m
                   /\ \A n \in {1, 2, 4} : Kpool + Depth <= Kpool * n => m <= n
<1>1. Kpool \in Nat /\ Depth \in Nat /\ Depth <= 3 * Kpool
  BY KpoolAssumption
<1>2. \E m \in {1, 2, 4} : P(m)
  BY <1>1
<1>3. (CHOOSE m \in {1, 2, 4} : P(m)) \in {1, 2, 4} /\ P(CHOOSE m \in {1, 2, 4} : P(m))
  BY <1>2
<1> QED
  BY <1>1, <1>3 DEF Ring

LEMMA StartBelow == ASSUME NEW k \in Nat \ {0}, NEW s \in Nat, NEW p \in Nat,
                           s % k = 0, s <= p
                    PROVE  s <= p - (p % k)
<1> DEFINE a == s \div k
           b == p \div k
<1>1. a \in Nat /\ b \in Nat /\ s = k * a /\ p = k * b + (p % k) /\ p % k \in 0..(k - 1)
  OBVIOUS
<1> HIDE DEF a, b
<1>2. CASE a <= b
  <2>1. k * a <= k * b
    BY <1>1, <1>2
  <2> QED
    BY <2>1, <1>1
<1>3. CASE b + 1 <= a
  <2>1. k * (b + 1) <= k * a
    BY <1>1, <1>3
  <2>2. k * (b + 1) = k * b + k
    BY <1>1
  <2> QED
    BY <2>1, <2>2, <1>1
<1> QED
  BY <1>1, <1>2, <1>3

LEMMA PoolEnd == ASSUME NEW k \in Nat \ {0}, NEW s \in Nat, s % k = 0
                 PROVE  (s + k - 1) % k = k - 1
  OBVIOUS

-----------------------------------------------------------------------------
(* The inductive invariant.                                                  *)

LEMMA SlotOf == \A p \in Nat : p % Ring \in Slots
  BY RingSize, ModBounds, KpoolAssumption DEF Slots

LEMMA InitInv == Init => IInv
<1> SUFFICES ASSUME Init PROVE IInv
  OBVIOUS
<1>1. TypeOK
  BY KpoolAssumption DEF Init, TypeOK
<1>2. StepBounds
  BY DEF Init, StepBounds, Idle
<1>3. TailIsKept
  BY KpoolAssumption DEF Init, TailIsKept, Written, PoolStart
<1>4. PoolsSoFar
  BY KpoolAssumption DEF Init, PoolsSoFar, Written
<1> QED
  BY <1>1, <1>2, <1>3, <1>4 DEF IInv

LEMMA TypeStep == IInv /\ [Next]_vars => TypeOK' /\ StepBounds'
<1> SUFFICES ASSUME IInv, [Next]_vars PROVE TypeOK' /\ StepBounds'
  OBVIOUS
<1> USE KpoolAssumption
<1>1. ASSUME NEW p \in 0..committed, Restore(p) PROVE TypeOK' /\ StepBounds'
  <2>1. committed' \in 0..Context /\ next' = committed' /\ stop' = committed'
    BY <1>1 DEF IInv, TypeOK, Restore
  <2>2. at' \in [Slots -> Nat] /\ good' \in SUBSET Slots /\ right' \in SUBSET Nat
    BY <1>1 DEF IInv, TypeOK, Restore
  <2> QED
    BY <2>1, <2>2 DEF TypeOK, StepBounds, Idle
<1>2. ASSUME NEW n \in 1..Context, Prefill(n) PROVE TypeOK' /\ StepBounds'
  <2>1. committed' \in 0..Context /\ next' = committed' /\ stop' = committed'
    BY <1>2 DEF IInv, TypeOK, Prefill
  <2>2. \A s \in SeededSlots(committed, committed') :
           (CHOOSE p \in Seeded(committed, committed', s) : TRUE) \in Nat
    <3>1. \A s : Seeded(committed, committed', s) \subseteq Nat
      BY <2>1 DEF IInv, TypeOK, Seeded
    <3> QED
      BY <3>1 DEF SeededSlots
  <2>3. at' \in [Slots -> Nat]
    BY <1>2, <2>2 DEF IInv, TypeOK, Prefill
  <2>4. good' \in SUBSET Slots
    BY <1>2 DEF IInv, TypeOK, Prefill, SeededSlots
  <2>5. right' \in SUBSET Nat
    <3>1. Completed(committed, committed') \subseteq Nat
      BY <2>1 DEF Completed
    <3> QED
      BY <1>2, <3>1 DEF IInv, TypeOK, Prefill
  <2> QED
    BY <2>1, <2>3, <2>4, <2>5 DEF TypeOK, StepBounds, Idle
<1>3. ASSUME NEW n \in 1..(1 + Depth), NEW kept \in 1..n, Verify(n, kept)
      PROVE  TypeOK' /\ StepBounds'
  BY <1>3 DEF IInv, TypeOK, StepBounds, Idle, Verify
<1>4. CASE Stash
  <2>1. next \in Nat /\ PoolStart(next) \in Nat /\ next % Ring \in Slots
    <3>1. next \in Nat
      BY DEF IInv, TypeOK
    <3>2. PoolStart(next) \in Nat
      BY <3>1, PoolOf DEF PoolStart
    <3> QED BY <3>1, <3>2, SlotOf
  <2>2. right' \in SUBSET Nat
    BY <1>4, <2>1 DEF IInv, TypeOK, Stash
  <2>3. at' \in [Slots -> Nat]
    BY <1>4, <2>1 DEF IInv, TypeOK, Stash
  <2>4. good' \in SUBSET Slots
    BY <1>4, <2>1 DEF IInv, TypeOK, Stash
  <2>5. /\ committed \in 0..Context /\ next \in 0..Context /\ stop \in 0..Context
        /\ committed' = committed /\ next < stop
        /\ committed <= stop /\ stop <= committed + Depth
        /\ IF next + 1 = stop THEN next' = committed /\ stop' = committed
           ELSE next' = next + 1 /\ stop' = stop
    BY <1>4 DEF IInv, TypeOK, StepBounds, Stash, Idle
  <2>6. /\ committed' \in 0..Context /\ next' \in 0..Context /\ stop' \in 0..Context
        /\ StepBounds'
    BY <2>5 DEF StepBounds, Idle
  <2> QED
    BY <2>2, <2>3, <2>4, <2>6 DEF TypeOK
<1>5. CASE UNCHANGED vars
  BY <1>5 DEF IInv, TypeOK, StepBounds, Idle, vars
<1> QED
  BY <1>1, <1>2, <1>3, <1>4, <1>5 DEF Next

\* The state as the next lemmas use it.
LEMMA Facts ==
  ASSUME IInv
  PROVE  /\ Kpool \in Nat \ {0} /\ Ring \in Nat \ {0} /\ Kpool + Depth <= Ring
         /\ Depth \in Nat
         /\ committed \in Nat /\ next \in Nat /\ stop \in Nat /\ Written \in Nat
  BY KpoolAssumption, RingSize DEF IInv, TypeOK, Written

LEMMA StartFacts ==
  \A p \in Nat : /\ PoolStart(p) \in Nat /\ PoolStart(p) % Kpool = 0
                 /\ PoolStart(p) <= p /\ p < PoolStart(p) + Kpool
  BY PoolOf, KpoolAssumption DEF PoolStart

LEMMA StartMost ==
  \A p \in Nat : \A s \in Nat : s % Kpool = 0 /\ s <= p => s <= PoolStart(p)
  BY StartBelow, KpoolAssumption DEF PoolStart

LEMMA Apart == \A p \in Nat : \A q \in Nat : p < q /\ q < p + Ring => p % Ring # q % Ring
<1> SUFFICES ASSUME NEW p \in Nat, NEW q \in Nat, p < q, q < p + Ring, p % Ring = q % Ring
             PROVE  FALSE
  OBVIOUS
<1>1. Ring \in Nat \ {0}
  BY RingSize, KpoolAssumption
<1> QED
  BY <1>1, Distinct

\* What a chunk leaves of the keys of the pool it ends in.
LEMMA TailPrefill ==
  ASSUME IInv, NEW n \in 1..Context, Prefill(n)
  PROVE  TailIsKept'
<1>1. /\ committed' = committed + n /\ n \in Nat /\ committed' \in Nat
      /\ next' = committed' /\ Written' = committed' /\ Written = committed
  BY Facts DEF Prefill, IInv, StepBounds, Idle, Written
<1> SUFFICES ASSUME NEW p \in PoolStart(committed')..(committed' - 1)
             PROVE  at'[p % Ring] = p /\ p % Ring \in good'
  BY <1>1 DEF TailIsKept
<1> DEFINE start == PoolStart(committed')
<1>a. start \in Nat /\ start % Kpool = 0 /\ start <= committed' /\ committed' < start + Kpool
  BY <1>1, StartFacts
<1> HIDE DEF start
<1>2. p \in Nat /\ p < committed' /\ committed' <= p + Kpool /\ start <= p
  BY <1>1, <1>a, Facts DEF start
<1>3. p % Ring \in Slots
  BY <1>2, SlotOf
<1>4. CASE committed <= p
  <2>1. p \in Seeded(committed, committed', p % Ring)
    BY <1>1, <1>2, <1>4, Facts DEF Seeded, Seeds
  <2>2. \A q \in Seeded(committed, committed', p % Ring) : q = p
    <3> SUFFICES ASSUME NEW q \in Seeded(committed, committed', p % Ring) PROVE q = p
      OBVIOUS
    <3>1. /\ q \in Nat /\ q % Ring = p % Ring /\ q < committed' /\ committed' <= q + Kpool
      BY <1>1, Facts DEF Seeded, Seeds
    <3>2. ~(p < q) /\ ~(q < p)
      BY <1>1, <1>2, <3>1, Apart, Facts
    <3> QED
      BY <1>2, <3>1, <3>2
  <2>3. p % Ring \in SeededSlots(committed, committed')
    BY <1>3, <2>1 DEF SeededSlots
  <2>4. (CHOOSE q \in Seeded(committed, committed', p % Ring) : TRUE) = p
    BY <2>1, <2>2
  <2> QED
    BY <1>3, <2>3, <2>4 DEF Prefill
<1>5. CASE p < committed
  <2>1. /\ PoolStart(committed) \in Nat /\ PoolStart(committed) % Kpool = 0
        /\ PoolStart(committed) <= committed
    BY StartFacts, Facts
  <2>a. PoolStart(committed) <= start
    BY <1>1, <2>1, StartMost, Facts DEF start
  <2>b. PoolStart(committed) <= p /\ p <= committed - 1
    BY <1>2, <1>a, <1>5, <2>1, <2>a, Facts
  <2>2. p \in PoolStart(Written)..(Written - 1)
    BY <1>1, <1>2, <2>1, <2>b, Facts
  <2>3. at[p % Ring] = p /\ p % Ring \in good
    BY <2>2 DEF IInv, TailIsKept
  <2>4. p % Ring \notin SeededSlots(committed, committed')
    <3> SUFFICES ASSUME NEW q \in Seeded(committed, committed', p % Ring) PROVE FALSE
      BY DEF SeededSlots
    <3>1. /\ q \in Nat /\ q % Ring = p % Ring /\ q < committed' /\ committed <= q
      BY <1>1, Facts DEF Seeded, Seeds
    <3>2. p < q /\ q < p + Ring
      BY <1>1, <1>2, <1>5, <3>1, Facts
    <3> QED
      BY <1>2, <3>1, <3>2, Apart
  <2> QED
    BY <1>3, <2>3, <2>4 DEF Prefill
<1> QED
  BY <1>1, <1>2, <1>4, <1>5, Facts

\* What a token of a step leaves of them.
LEMMA StashFacts ==
  ASSUME IInv, Stash
  PROVE  /\ next < stop /\ committed <= stop /\ stop <= committed + Depth
         /\ committed' = committed
         /\ Written' = IF next < committed THEN next + 1 ELSE committed
         /\ Written = IF next < committed THEN next ELSE committed
         /\ at' = [at EXCEPT ![next % Ring] = next]
         /\ good' = IF next < committed THEN good \cup {next % Ring}
                    ELSE good \ {next % Ring}
<1>1. /\ next < stop /\ committed <= stop /\ stop <= committed + Depth
      /\ committed' = committed
      /\ IF next + 1 = stop THEN next' = committed ELSE next' = next + 1
  BY Facts DEF IInv, StepBounds, Idle, Stash
<1>2. Written' = IF next < committed THEN next + 1 ELSE committed
  BY <1>1, Facts DEF Written
<1> QED
  BY <1>1, <1>2 DEF Stash, Written

LEMMA TailStash ==
  ASSUME IInv, Stash
  PROVE  TailIsKept'
<1> SUFFICES ASSUME NEW p \in PoolStart(Written')..(Written' - 1)
             PROVE  at'[p % Ring] = p /\ p % Ring \in good'
  BY DEF TailIsKept
<1>1. Written' \in Nat /\ at \in [Slots -> Nat] /\ next % Ring \in Slots
  BY StashFacts, Facts, SlotOf DEF IInv, TypeOK
<1> DEFINE start == PoolStart(Written')
           end == Written'
<1>a. /\ end \in Nat /\ start \in Nat /\ start % Kpool = 0
      /\ start <= end /\ end < start + Kpool
  BY <1>1, StartFacts
<1>b. p \in start..(end - 1)
  OBVIOUS
<1> HIDE DEF start, end
<1>2. p \in Nat /\ p < end /\ end <= p + Kpool /\ start <= p
  BY <1>a, <1>b, KpoolAssumption
<1>3. p % Ring \in Slots
  BY <1>2, SlotOf
<1>4. CASE next < committed /\ p = next
  BY <1>1, <1>4, StashFacts
<1>5. CASE ~(next < committed /\ p = next)
  <2>1. p < Written /\ p < next /\ next < p + Ring
    BY <1>2, <1>5, StashFacts, Facts DEF end
  <2>a. /\ PoolStart(Written) \in Nat /\ PoolStart(Written) % Kpool = 0
        /\ PoolStart(Written) <= Written
    BY StartFacts, Facts
  <2>b. Written <= Written'
    BY StashFacts, Facts
  <2>2. PoolStart(Written) <= start
    BY <1>1, <2>a, <2>b, StartMost, Facts DEF start
  <2>c. PoolStart(Written) <= p /\ p <= Written - 1
    BY <1>2, <1>a, <2>1, <2>a, <2>2, Facts
  <2>3. p \in PoolStart(Written)..(Written - 1)
    BY <1>2, <2>a, <2>c, Facts
  <2>4. at[p % Ring] = p /\ p % Ring \in good
    BY <2>3 DEF IInv, TailIsKept
  <2>5. p % Ring # next % Ring
    BY <1>2, <2>1, Apart, Facts
  <2> QED
    BY <1>1, <1>3, <2>4, <2>5, StashFacts
<1> QED
  BY <1>4, <1>5

LEMMA TailStep == IInv /\ [Next]_vars => TailIsKept'
<1> SUFFICES ASSUME IInv, [Next]_vars PROVE TailIsKept'
  OBVIOUS
<1>1. ASSUME NEW p \in 0..committed, Restore(p) PROVE TailIsKept'
  <2>1. p \in Nat /\ p % Kpool = 0 /\ Written' = p
    BY <1>1, Facts DEF Restore, Written
  <2>2. PoolStart(p) = p
    BY <2>1 DEF PoolStart
  <2>3. PoolStart(p)..(p - 1) = {}
    BY <2>1, <2>2
  <2> QED
    BY <2>1, <2>3 DEF TailIsKept
<1>2. ASSUME NEW n \in 1..Context, Prefill(n) PROVE TailIsKept'
  BY <1>2, TailPrefill
<1>3. ASSUME NEW n \in 1..(1 + Depth), NEW kept \in 1..n, Verify(n, kept)
      PROVE  TailIsKept'
  <2>1. next = committed /\ committed' = committed + kept /\ next' = next
    BY <1>3, Facts DEF Verify, IInv, StepBounds, Idle
  <2>2. Written' = Written
    BY <2>1, Facts DEF Written
  <2> QED
    BY <1>3, <2>2 DEF IInv, TailIsKept, Verify
<1>4. CASE Stash
  BY <1>4, TailStash
<1>5. CASE UNCHANGED vars
  BY <1>5 DEF IInv, TailIsKept, Written, vars
<1> QED
  BY <1>1, <1>2, <1>3, <1>4, <1>5 DEF Next

\* The pool a token completes is compressed from its own keys.
LEMMA PoolCompleted ==
  ASSUME IInv, Stash, next < committed, Completes(next)
  PROVE  PoolStart(next) \in right'
<1>1. /\ next \in Nat /\ PoolStart(next) \in Nat /\ PoolStart(next) <= next
      /\ next < PoolStart(next) + Kpool
  BY Facts, StartFacts
<1>2. at \in [Slots -> Nat] /\ next % Ring \in Slots /\ Written = next
  BY <1>1, SlotOf DEF IInv, TypeOK, Written
<1>3. ASSUME NEW p \in PoolStart(next)..next
      PROVE  at'[p % Ring] = p /\ p % Ring \in good'
  <2>1. p \in Nat /\ p % Ring \in Slots /\ PoolStart(next) <= p /\ p <= next
    BY <1>1, SlotOf
  <2>2. CASE p = next
    BY <1>2, <2>2, StashFacts
  <2>3. CASE p # next
    <3>1. p \in PoolStart(next)..(next - 1)
      BY <1>1, <2>1, <2>3
    <3>2. at[p % Ring] = p /\ p % Ring \in good
      BY <1>2, <3>1 DEF IInv, TailIsKept
    <3>3. p < next /\ next < p + Ring
      BY <1>1, <2>1, <2>3, Facts
    <3>4. p % Ring # next % Ring
      BY <1>1, <2>1, <3>3, Apart
    <3> QED
      BY <1>2, <2>1, <3>2, <3>4, StashFacts
  <2> QED
    BY <2>2, <2>3
<1> QED
  BY <1>3 DEF Stash

LEMMA PoolsStash == ASSUME IInv, Stash PROVE PoolsSoFar'
<1> DEFINE end == Written'
<1>1. /\ committed' = committed /\ end \in Nat /\ Written \in Nat
      /\ end = (IF next < committed THEN next + 1 ELSE committed)
      /\ Written = (IF next < committed THEN next ELSE committed)
  BY StashFacts, Facts
<1> SUFFICES ASSUME NEW s \in 0..committed, s % Kpool = 0, s + Kpool <= end
             PROVE  s \in right'
  BY <1>1 DEF PoolsSoFar
<1> HIDE DEF end
<1>2. s \in Nat
  BY Facts
<1> DEFINE start == PoolStart(next)
<1>3. /\ start \in Nat /\ start <= next /\ next < start + Kpool
  BY StartFacts, Facts
<1>4. Completes(next) => start + Kpool = next + 1
  BY Facts DEF Completes, PoolStart
<1>5. right \subseteq right' \/ (Completes(next) /\ right \ {start} \subseteq right')
  BY DEF Stash
<1> HIDE DEF start
<1>6. CASE s + Kpool <= Written
  <2>1. s \in right
    BY <1>6 DEF IInv, PoolsSoFar
  <2>2. Completes(next) => s # start
    BY <1>1, <1>2, <1>3, <1>4, <1>6, Facts
  <2> QED
    BY <1>5, <2>1, <2>2
<1>7. CASE ~(s + Kpool <= Written)
  <2>1. next < committed /\ next = s + Kpool - 1
    BY <1>1, <1>2, <1>7, Facts
  <2>2. next % Kpool = Kpool - 1
    BY <1>2, <2>1, PoolEnd, Facts
  <2>3. Completes(next) /\ start = s
    BY <1>2, <2>1, <2>2, Facts DEF Completes, PoolStart, start
  <2> QED
    BY <2>1, <2>3, PoolCompleted DEF start
<1> QED
  BY <1>6, <1>7

LEMMA PoolsStep == IInv /\ [Next]_vars => PoolsSoFar'
<1> SUFFICES ASSUME IInv, [Next]_vars PROVE PoolsSoFar'
  OBVIOUS
<1>1. ASSUME NEW p \in 0..committed, Restore(p) PROVE PoolsSoFar'
  <2>1. p \in Nat /\ Written' = p /\ committed' = p /\ Written = committed /\ p <= committed
    BY <1>1, Facts DEF Restore, Written, IInv, StepBounds, Idle
  <2> SUFFICES ASSUME NEW s \in 0..p, s % Kpool = 0, s + Kpool <= p
               PROVE  s \in right'
    BY <2>1 DEF PoolsSoFar
  <2>2. s \in right
    BY <2>1, Facts DEF IInv, PoolsSoFar
  <2> QED
    BY <1>1, <2>2 DEF Restore
<1>2. ASSUME NEW n \in 1..Context, Prefill(n) PROVE PoolsSoFar'
  <2>1. /\ n \in Nat /\ committed' = committed + n /\ Written' = committed'
        /\ Written = committed /\ committed' \in Nat
    BY <1>2, Facts DEF Prefill, Written, IInv, StepBounds, Idle
  <2> SUFFICES ASSUME NEW s \in 0..committed', s % Kpool = 0, s + Kpool <= committed'
               PROVE  s \in right'
    BY <2>1 DEF PoolsSoFar
  <2>2. CASE s + Kpool <= committed
    <3>1. s \in right
      BY <2>1, <2>2, Facts DEF IInv, PoolsSoFar
    <3> QED
      BY <1>2, <3>1 DEF Prefill
  <2>3. CASE ~(s + Kpool <= committed)
    <3>1. s \in Completed(committed, committed')
      BY <2>1, <2>3, Facts DEF Completed
    <3> QED
      BY <1>2, <3>1 DEF Prefill
  <2> QED
    BY <2>2, <2>3
<1>3. ASSUME NEW n \in 1..(1 + Depth), NEW kept \in 1..n, Verify(n, kept)
      PROVE  PoolsSoFar'
  <2>1. next = committed /\ committed' = committed + kept /\ next' = next /\ kept \in Nat
    BY <1>3, Facts DEF Verify, IInv, StepBounds, Idle
  <2>2. Written' = committed /\ Written = committed
    BY <2>1, Facts DEF Written
  <2> SUFFICES ASSUME NEW s \in 0..committed', s % Kpool = 0, s + Kpool <= committed
               PROVE  s \in right'
    BY <2>2 DEF PoolsSoFar
  <2>3. s \in 0..committed
    BY <2>1, Facts
  <2> QED
    BY <1>3, <2>2, <2>3 DEF IInv, PoolsSoFar, Verify
<1>4. CASE Stash
  BY <1>4, PoolsStash
<1>5. CASE UNCHANGED vars
  BY <1>5 DEF IInv, PoolsSoFar, Written, vars
<1> QED
  BY <1>1, <1>2, <1>3, <1>4, <1>5 DEF Next

-----------------------------------------------------------------------------
\* Between steps and within one, the ring holds the keys a redo reads, and the
\* pools stashed so far are those of the text.
THEOREM Inductive == Spec => []IInv
<1>1. IInv /\ [Next]_vars => IInv'
  BY TypeStep, TailStep, PoolsStep DEF IInv
<1> QED
  BY InitInv, <1>1, PTL DEF Spec

\* Whatever drafts were rejected, every pool of the committed text has the entry
\* of its committed keys: the wider ring is wide enough at every depth.
THEOREM PoolsKept == Spec => []PoolsAreCommitted
<1>1. IInv => PoolsAreCommitted
  <2> SUFFICES ASSUME IInv, Idle PROVE \A s \in 0..committed :
                  s % Kpool = 0 /\ s + Kpool <= committed => s \in right
    BY DEF PoolsAreCommitted
  <2>1. Written = committed
    BY DEF IInv, StepBounds, Written
  <2> QED
    BY <2>1 DEF IInv, PoolsSoFar
<1> QED
  BY Inductive, <1>1, PTL

-----------------------------------------------------------------------------
(* The stages of a model: what a batch has been through.                      *)

\* What is applied to a batch, and to which layer it belongs, or whose batch it is.
Items == {"embed", "expand", "attn_pre", "attn", "ffn_pre", "mlp", "contract", "norm"} \X Nat

\* The hidden state after k layers, by place.
Part(i) == CASE i = 0 -> "attn_pre" [] i = 1 -> "attn" [] i = 2 -> "ffn_pre" [] OTHER -> "mlp"
Applied(n, k) == [i \in 1 .. 2 + 4 * k |->
  IF i = 1 THEN <<"embed", n>> ELSE IF i = 2 THEN <<"expand", 0>>
  ELSE <<Part((i - 3) % 4), (i - 3) \div 4>>]

\* The state before the last sublayer.
Deferred(n, k) == SubSeq(Applied(n, k), 1, 4 * k)

\* A batch that is to enter layer l, and one that is through with the last.
Entering(n, l, x, deferred) ==
  [n |-> n, layer |-> l, x |-> x, residual |-> deferred, post |-> deferred, comb |-> deferred]
Batch(n, l) ==
  IF l = 0 THEN Entering(n, 0, <<<<"embed", n>>>>, Pl!Absent)
  ELSE IF l <= Pl!Last THEN Entering(n, l, Applied(n, l), Deferred(n, l))
  ELSE Entering(n, l, Append(Applied(n, l), <<"contract", Pl!Last>>), Pl!Absent)

\* There is a layer.
LEMMA LastIs == Pl!Last \in Nat /\ Len(Mla) = Pl!Last + 1 /\ Pl!Layers = 0 .. Pl!Last
<1>1. Len(Mla) \in Nat /\ Len(Mla) # 0
  BY EmptySeq, LenProperties, PipelineAssumption
<1> QED BY <1>1 DEF Pl!Last, Pl!Layers

LEMMA AppliedIs ==
    ASSUME NEW n \in Nat, NEW k \in Nat
    PROVE  /\ Applied(n, k) \in Seq(Items)
           /\ Len(Applied(n, k)) = 2 + 4 * k
           /\ Applied(n, k)[1] = <<"embed", n>>
           /\ Applied(n, k)[2] = <<"expand", 0>>
<1> DEFINE m == 2 + 4 * k
<1>1. ASSUME NEW i \in 1 .. m PROVE Applied(n, k)[i] \in Items
  <2>1. CASE i = 1 BY <2>1 DEF Applied, Items
  <2>2. CASE i = 2 BY <2>2 DEF Applied, Items
  <2>3. CASE i > 2
    <3>1. (i - 3) \div 4 \in Nat /\ Part((i - 3) % 4) \in {"attn_pre", "attn", "ffn_pre", "mlp"}
      BY <2>3 DEF Part
    <3>2. Applied(n, k)[i] = <<Part((i - 3) % 4), (i - 3) \div 4>>
      BY <2>3 DEF Applied
    <3> HIDE DEF Part
    <3> QED BY <3>1, <3>2 DEF Items
  <2> QED BY <2>1, <2>2, <2>3
<1>2. Applied(n, k) \in [1 .. m -> Items] /\ m \in Nat
  BY <1>1 DEF Applied
<1> HIDE DEF m
<1>3. Applied(n, k) \in Seq(Items) /\ Len(Applied(n, k)) = m
  BY <1>2, SeqDef, LenProperties
<1>4. Applied(n, k)[1] = <<"embed", n>> /\ Applied(n, k)[2] = <<"expand", 0>>
  BY DEF Applied
<1> QED BY <1>3, <1>4 DEF m

\* What starts as another sequence does still starts so with its next item.
Starts(S, t) == {s \in Seq(S) : Len(s) <= Len(t) /\ \A i \in 1 .. Len(s) : s[i] = t[i]}
LEMMA NextOf ==
    ASSUME NEW S, NEW t \in Seq(S), NEW s \in Starts(S, t), NEW n, Len(s) = n, n < Len(t)
    PROVE  LET more == Append(s, t[n + 1]) IN more \in Starts(S, t) /\ Len(more) = n + 1
<1>1. s \in Seq(S) /\ Len(s) <= Len(t) /\ \A i \in 1 .. Len(s) : s[i] = t[i]
  BY DEF Starts
<1>2. t[n + 1] \in S
  BY <1>1
<1>3. LET more == Append(s, t[n + 1])
      IN  more \in Seq(S) /\ Len(more) = Len(s) + 1 /\ \A i \in 1 .. Len(more) : more[i] = t[i]
  BY <1>1, <1>2, AppendProperties
<1> DEFINE more == Append(s, t[n + 1])
<1>4. more \in Seq(S) /\ Len(more) = n + 1 /\ \A i \in 1 .. Len(more) : more[i] = t[i]
  BY <1>3
<1> HIDE DEF more
<1>5. more \in Starts(S, t)
  BY <1>4 DEF Starts
<1> QED BY <1>4, <1>5 DEF more

\* A layer applies four things.
LEMMA AppliedGrows ==
    ASSUME NEW n \in Nat, NEW k \in Nat
    PROVE  LET a == Applied(n, k)
               b == Append(Append(a, <<"attn_pre", k>>), <<"attn", k>>)
               c == Append(Append(b, <<"ffn_pre", k>>), <<"mlp", k>>)
           IN  Applied(n, k + 1) = c /\ Deferred(n, k + 1) = b
<1> DEFINE a == Applied(n, k)
           b == Append(Append(a, <<"attn_pre", k>>), <<"attn", k>>)
           c == Append(Append(b, <<"ffn_pre", k>>), <<"mlp", k>>)
           d == Applied(n, k + 1)
<1>1. a \in Seq(Items) /\ Len(a) = 2 + 4 * k /\ d \in Seq(Items) /\ Len(d) = 6 + 4 * k
  <2>1. k + 1 \in Nat
    OBVIOUS
  <2>2. a \in Seq(Items) /\ Len(a) = 2 + 4 * k /\ d \in Seq(Items)
        /\ Len(d) = 2 + 4 * (k + 1)
    BY Zenon, <2>1, AppliedIs
  <2> QED BY <2>2
<1>2. \A i \in 1 .. 2 + 4 * k : d[i] = a[i]
  BY DEF Applied
<1>3. d[3 + 4 * k] = <<"attn_pre", k>> /\ d[4 + 4 * k] = <<"attn", k>>
      /\ d[5 + 4 * k] = <<"ffn_pre", k>> /\ d[6 + 4 * k] = <<"mlp", k>>
  <2>1. (4 * k) % 4 = 0 /\ (4 * k) \div 4 = k /\ (4 * k + 1) % 4 = 1 /\ (4 * k + 1) \div 4 = k
        /\ (4 * k + 2) % 4 = 2 /\ (4 * k + 2) \div 4 = k
        /\ (4 * k + 3) % 4 = 3 /\ (4 * k + 3) \div 4 = k
    OBVIOUS
  <2>2. ASSUME NEW j \in 0 .. 3
        PROVE  d[3 + 4 * k + j] = <<Part((4 * k + j) % 4), (4 * k + j) \div 4>>
    BY DEF Applied
  <2> HIDE DEF d
  <2> QED BY <2>1, <2>2 DEF Part
<1> HIDE DEF a, d
<1> DEFINE a1 == Append(a, d[2 + 4 * k + 1])
           b1 == Append(a1, d[3 + 4 * k + 1])
           c0 == Append(b1, d[4 + 4 * k + 1])
           c1 == Append(c0, d[5 + 4 * k + 1])
<1>4. a \in Starts(Items, d) /\ Len(a) = 2 + 4 * k
  BY <1>1, <1>2 DEF Starts
<1>5. a1 \in Starts(Items, d) /\ Len(a1) = 2 + 4 * k + 1
  BY <1>1, <1>4, NextOf
<1> HIDE DEF a1
<1>6. b1 \in Starts(Items, d) /\ Len(b1) = 3 + 4 * k + 1
  BY <1>1, <1>5, NextOf
<1> HIDE DEF b1
<1>9. c0 \in Starts(Items, d) /\ Len(c0) = 4 + 4 * k + 1
  BY <1>1, <1>6, NextOf
<1> HIDE DEF c0
<1>10. c1 \in Starts(Items, d) /\ Len(c1) = 5 + 4 * k + 1
  BY <1>1, <1>9, NextOf
<1> HIDE DEF c1
<1>11. b = b1
  <2>1. a1 = Append(a, <<"attn_pre", k>>)
    BY <1>3 DEF a1
  <2>2. b1 = Append(a1, <<"attn", k>>)
    BY <1>3 DEF b1
  <2> QED BY <2>1, <2>2
<1> HIDE DEF b
<1>12. c = c1
  <2>1. c0 = Append(b1, <<"ffn_pre", k>>)
    BY <1>3 DEF c0
  <2>2. c1 = Append(c0, <<"mlp", k>>)
    BY <1>3 DEF c1
  <2> QED BY <1>11, <2>1, <2>2
<1> HIDE DEF c
<1>7. c = d
  <2>1. c1 \in Seq(Items) /\ Len(c1) = Len(d) /\ \A i \in 1 .. Len(c1) : c1[i] = d[i]
    BY <1>1, <1>10 DEF Starts
  <2> QED BY Zenon, <1>1, <1>12, <2>1, SeqEqual
<1>8. SubSeq(d, 1, 4 * (k + 1)) = b
  <2>1. b1 \in Seq(Items) /\ Len(b1) = 4 * (k + 1) /\ \A i \in 1 .. 4 * (k + 1) : b1[i] = d[i]
    BY <1>1, <1>6 DEF Starts
  <2> DEFINE cut == SubSeq(d, 1, 4 * (k + 1))
  <2>2. cut \in Seq(Items) /\ Len(cut) = 4 * (k + 1) /\ \A i \in 1 .. 4 * (k + 1) : cut[i] = d[i]
    BY <1>1
  <2> HIDE DEF cut
  <2>3. cut = b1
    BY <2>1, <2>2, SeqEqual
  <2> QED BY <1>11, <2>3 DEF cut
<1> QED BY <1>7, <1>8 DEF Deferred, a, b, c, d

\* What is longer than one item is not astray.
Long == {x \in Seq(Items) : Len(x) >= 2}
LEMMA DoIs ==
    ASSUME NEW x \in Long, NEW what, NEW l
    PROVE  Pl!Do(x, what, l) = Append(x, <<what, l>>)
<1>1. Len(Pl!Astray) = 1
  BY DEF Pl!Astray
<1>2. Len(x) >= 2
  BY DEF Long
<1>3. x # Pl!Astray
  <2>1. ASSUME x = Pl!Astray PROVE FALSE
    <3>1. Len(x) = 1 BY Zenon, <1>1, <2>1
    <3> HIDE DEF Long
    <3> QED BY <1>2, <3>1
  <2> QED BY <2>1
<1> QED BY Zenon, <1>3 DEF Pl!Do

\* It stays so.
LEMMA LongMore == ASSUME NEW x \in Long, NEW i \in Items PROVE Append(x, i) \in Long
<1>1. x \in Seq(Items) /\ Len(x) >= 2
  BY DEF Long
<1> DEFINE y == Append(x, i)
<1>2. y \in Seq(Items) /\ Len(y) = Len(x) + 1
  BY <1>1, AppendProperties
<1> HIDE DEF y
<1>3. y \in Long
  BY <1>1, <1>2 DEF Long
<1> QED BY <1>3 DEF y

\* The deferred post applies when a sublayer has had its turn on what it belongs to.
LEMMA PostIs ==
    ASSUME NEW b, NEW r \in Seq(Items), NEW i1 \in Items, NEW i2 \in Items,
           b.residual = r, b.post = r, b.comb = r, b.x = Append(Append(r, i1), i2)
    PROVE  Pl!Post(b) = b.x
<1> DEFINE m == Append(r, i1)
           x == Append(m, i2)
<1>1. m \in Seq(Items) /\ Len(m) = Len(r) + 1 /\ \A i \in 1 .. Len(r) : m[i] = r[i]
  BY AppendProperties
<1> HIDE DEF m
<1>2. x \in Seq(Items) /\ Len(x) = Len(m) + 1 /\ \A i \in 1 .. Len(m) : x[i] = m[i]
  BY <1>1, AppendProperties
<1> HIDE DEF x
<1>3. Len(x) = Len(r) + 2 /\ \A i \in 1 .. Len(r) : x[i] = r[i]
  BY <1>1, <1>2
<1> DEFINE cut == SubSeq(x, 1, Len(r))
<1>4. cut \in Seq(Items) /\ Len(cut) = Len(r) /\ \A i \in 1 .. Len(r) : cut[i] = x[i]
  BY <1>2, <1>3
<1> HIDE DEF cut
<1>5. cut = r
  BY <1>3, <1>4, SeqEqual
<1>6. b.x = x
  BY DEF x, m
<1> QED BY <1>3, <1>5, <1>6 DEF Pl!Post, cut

\* A sequence of one item and then another.
LEMMA TwoOf == ASSUME NEW S, NEW t \in S, NEW u \in S PROVE Append(<<t>>, u) = <<t, u>>
<1> DEFINE s == Append(<<t>>, u)
           r == <<t, u>>
<1>1. s \in Seq(S) /\ r \in Seq(S)
  OBVIOUS
<1>2. Len(s) = 2 /\ s[1] = t /\ s[2] = u
  OBVIOUS
<1>3. Len(r) = 2 /\ r[1] = t /\ r[2] = u
  OBVIOUS
<1> HIDE DEF s, r
<1>4. \A i \in 1 .. Len(s) : s[i] = r[i]
  BY <1>2, <1>3
<1>5. s = r
  BY <1>1, <1>2, <1>3, <1>4, SeqEqual
<1> QED BY <1>5 DEF s, r

\* Of any two items.
LEMMA TwoItems == ASSUME NEW t, NEW u PROVE Append(<<t>>, u) = <<t, u>>
<1> DEFINE S == {t, u}
<1>1. t \in S /\ u \in S
  OBVIOUS
<1> HIDE DEF S
<1> QED BY Zenon, <1>1, TwoOf

\* A batch that goes through a layer is as it should be before the next.
LEMMA LayerDoes ==
    ASSUME NEW n \in Nat, NEW l \in 0 .. Pl!Last
    PROVE  Pl!Layer(Batch(n, l), l) = Batch(n, l + 1)
<1> DEFINE a == Applied(n, l)
           a1 == Append(a, <<"attn_pre", l>>)
           b == Append(a1, <<"attn", l>>)
           b1 == Append(b, <<"ffn_pre", l>>)
           c == Append(b1, <<"mlp", l>>)
           now == Batch(n, l)
<1>0. Pl!Last \in Int /\ l \in Nat /\ l <= Pl!Last
  BY LastIs
<1>1. <<"attn_pre", l>> \in Items /\ <<"attn", l>> \in Items /\ <<"ffn_pre", l>> \in Items
      /\ <<"mlp", l>> \in Items
  BY <1>0 DEF Items
<1>2. a \in Seq(Items) /\ Len(a) = 2 + 4 * l
  BY <1>0, AppliedIs
<1>16. a \in Long
  BY <1>0, <1>2 DEF Long
<1>3. Applied(n, l + 1) = c /\ Deferred(n, l + 1) = b
  BY <1>0, AppliedGrows
<1>4. now.n = n /\ now.layer = l
  BY <1>0 DEF Batch, Entering
<1>5. Pl!Begun(now, l) = Entering(n, l, a1, a)
  <2>1. CASE l = 0
    <3>1. now = Entering(n, 0, <<<<"embed", n>>>>, Pl!Absent)
      BY <2>1 DEF Batch
    <3>2. Pl!Do(<<<<"embed", n>>>>, "expand", 0) = a
      <4>1. <<<<"embed", n>>>> # Pl!Astray
        BY DEF Pl!Astray
      <4>2. Pl!Do(<<<<"embed", n>>>>, "expand", 0) = <<<<"embed", n>>, <<"expand", 0>>>>
        <5>1. Append(<<<<"embed", n>>>>, <<"expand", 0>>) = <<<<"embed", n>>, <<"expand", 0>>>>
          <6>1. ASSUME NEW t, NEW u PROVE Append(<<t>>, u) = <<t, u>>
            BY TwoItems
          <6> QED BY Zenon, <6>1
        <5> QED BY Zenon, <4>1, <5>1 DEF Pl!Do
      <4>3. a = <<<<"embed", n>>, <<"expand", 0>>>>
        <5>1. a = [i \in 1 .. 2 |-> IF i = 1 THEN <<"embed", n>> ELSE <<"expand", 0>>]
          BY <2>1 DEF Applied
        <5> QED BY <5>1
      <4> QED BY <4>2, <4>3
    <3>3. Pl!Do(a, "attn_pre", l) = a1
      BY Zenon, <1>16, DoIs
    <3> HIDE DEF a, a1, now
    <3> QED BY <2>1, <3>1, <3>2, <3>3 DEF Pl!Begun, Pl!Pre, Entering
  <2>2. CASE l > 0
    <3> DEFINE d == Deferred(n, l)
               e == Append(d, <<"ffn_pre", l - 1>>)
    <3>1. now = Entering(n, l, a, d)
      BY <1>0, <2>2 DEF Batch
    <3>2. l - 1 \in Nat /\ (l - 1) + 1 = l
      BY <1>0, <2>2
    <3>3. a = Append(e, <<"mlp", l - 1>>)
      BY <3>2, AppliedGrows
    <3>4. d \in Seq(Items) /\ Len(d) = 4 * l
      BY <1>0, <1>2 DEF Deferred
    <3>5. <<"ffn_pre", l - 1>> \in Items /\ <<"mlp", l - 1>> \in Items
      BY <3>2 DEF Items
    <3>6. now.residual = d /\ now.post = d /\ now.comb = d /\ now.x = a
      BY <3>1 DEF Entering
    <3> HIDE DEF now, d
    <3>7. Pl!Post(now) = a
      BY <3>3, <3>4, <3>5, <3>6, PostIs
    <3>8. d # Pl!Absent
      <4>1. Len(Pl!Absent) = 1 BY DEF Pl!Absent
      <4>2. ASSUME d = Pl!Absent PROVE FALSE
        <5>1. Len(d) = 1 BY Zenon, <4>1, <4>2
        <5>2. 4 * l # 1 BY <1>0
        <5>3. Len(d) = 4 * l BY <3>4
        <5> QED BY Zenon, <5>1, <5>2, <5>3
      <4> QED BY <4>2
    <3>9. Pl!Do(a, "attn_pre", l) = a1
      BY Zenon, <1>16, DoIs
    <3> HIDE DEF a, a1
    <3> QED BY <3>1, <3>6, <3>7, <3>8, <3>9 DEF Pl!Begun, Pl!FusedPostPre, Pl!Pre, Entering
  <2> QED BY <1>0, <2>1, <2>2
<1> HIDE DEF now, a
<1>6. a1 \in Long
  BY Zenon, <1>1, <1>16, LongMore
<1>7. b \in Long
  BY Zenon, <1>1, <1>6, LongMore
<1>8. b1 \in Long
  BY Zenon, <1>1, <1>7, LongMore
<1>9. c \in Long
  BY Zenon, <1>1, <1>8, LongMore
<1>17. b \in Seq(Items)
  BY <1>7 DEF Long
<1> DEFINE attended == [Pl!Begun(now, l) EXCEPT !.x = Pl!Do(@, "attn", l)]
           fed == Pl!FusedPostPre(attended, l, "ffn_pre")
           after == [fed EXCEPT !.x = Pl!Do(@, "mlp", l)]
<1>10. attended = Entering(n, l, b, a)
  <2>1. Pl!Do(a1, "attn", l) = b
    BY Zenon, <1>6, DoIs
  <2> HIDE DEF a1, b
  <2> QED BY <1>5, <2>1 DEF Entering
<1>11. fed = Entering(n, l, b1, b)
  <2>1. attended.residual = a /\ attended.post = a /\ attended.comb = a /\ attended.x = b
    BY <1>10 DEF Entering
  <2> HIDE DEF attended
  <2>2. Pl!Post(attended) = b
    BY <1>1, <1>2, <2>1, PostIs
  <2>3. Pl!Do(b, "ffn_pre", l) = b1
    BY Zenon, <1>7, DoIs
  <2>4. fed = [attended EXCEPT !.x = b1, !.residual = b, !.post = b, !.comb = b]
    BY Zenon, <2>2, <2>3 DEF Pl!FusedPostPre, Pl!Pre
  <2> HIDE DEF a, b, b1, fed
  <2> QED BY <1>10, <2>4 DEF Entering
<1>12. after = Entering(n, l, c, b)
  <2>1. Pl!Do(b1, "mlp", l) = c
    BY Zenon, <1>8, DoIs
  <2> HIDE DEF fed, b, b1, c
  <2> QED BY <1>11, <2>1 DEF Entering
<1>13. Pl!Layer(now, l) = IF l # Pl!Last THEN [after EXCEPT !.layer = l + 1]
         ELSE [after EXCEPT !.layer = l + 1, !.x = Pl!Do(Pl!Post(after), "contract", l),
                           !.residual = Pl!Absent, !.post = Pl!Absent, !.comb = Pl!Absent]
  BY DEF Pl!Layer
<1> HIDE DEF after
<1>14. CASE l # Pl!Last
  <2>1. Batch(n, l + 1) = Entering(n, l + 1, c, b)
    <3>1. l + 1 # 0 /\ l + 1 <= Pl!Last
      BY <1>0, <1>14
    <3> QED BY Zenon, <1>3, <3>1 DEF Batch
  <2> HIDE DEF b, c
  <2> QED BY <1>12, <1>13, <1>14, <2>1 DEF Entering, now
<1>15. CASE l = Pl!Last
  <2>1. Batch(n, l + 1) = Entering(n, l + 1, Append(c, <<"contract", Pl!Last>>), Pl!Absent)
    <3>1. l + 1 # 0 /\ ~(l + 1 <= Pl!Last)
      BY <1>0, <1>15
    <3> QED BY Zenon, <1>3, <3>1 DEF Batch
  <2>2. after.residual = b /\ after.post = b /\ after.comb = b /\ after.x = c
    BY <1>12 DEF Entering
  <2>3. Pl!Post(after) = c
    BY <1>1, <1>17, <2>2, PostIs
  <2>4. Pl!Do(c, "contract", l) = Append(c, <<"contract", l>>)
    BY Zenon, <1>9, DoIs
  <2> HIDE DEF b, c
  <2> QED BY <1>12, <1>13, <1>15, <2>1, <2>3, <2>4 DEF Entering, now
<1> QED BY <1>14, <1>15

\* A set of numbers has a least one.
LEMMA LeastIn == ASSUME NEW T \in SUBSET Nat, T # {} PROVE \E k \in T : \A j \in T : k <= j
<1> DEFINE R == {ss \in Nat \X Nat : ss[1] < ss[2]}
<1>1. IsWellFoundedOn(R, Nat)
  BY NatLessThanWellFounded DEF OpToRel
<1>2. \A x, y \in Nat : <<y, x>> \in R <=> y < x
  OBVIOUS
<1> HIDE DEF R
<1>3. PICK k \in T : \A j \in T : ~(<<j, k>> \in R)
  BY <1>1, WFMin
<1>4. ASSUME NEW j \in T PROVE k <= j
  <2>1. k \in Nat /\ j \in Nat /\ <<j, k>> \notin R
    BY <1>3
  <2> QED BY <1>2, <2>1
<1> QED BY <1>4

\* What a batch is to come to, item by item.
Final(n) == Append(Append(Applied(n, Pl!Last + 1), <<"contract", Pl!Last>>), <<"norm", n>>)

\* The number and the layer of a batch.
LEMMA BatchIs ==
    ASSUME NEW n \in Nat, NEW l \in 0 .. Pl!Last + 1
    PROVE  Batch(n, l).n = n /\ Batch(n, l).layer = l
<1>1. Pl!Last \in Nat BY LastIs
<1>2. CASE l = 0 BY <1>2 DEF Batch, Entering
<1>3. CASE l # 0 /\ l <= Pl!Last BY <1>3 DEF Batch, Entering
<1>4. CASE l # 0 /\ ~(l <= Pl!Last) BY <1>4 DEF Batch, Entering
<1> QED BY <1>2, <1>3, <1>4

\* The upTo of Reference is chosen; what it is follows from a least place where it is not.
LEMMA ReferenceIs ==
    ASSUME NEW n \in Nat
    PROVE  Pl!Reference(n) = Final(n)
<1> DEFINE m == Len(Mla)
           Four(k) == [i \in 1 .. 4 |-> <<<<"attn_pre", "attn", "ffn_pre", "mlp">>[i], k - 1>>]
           Is(g) == g = [k \in 0 .. m |-> IF k = 0 THEN <<<<"embed", n>>, <<"expand", 0>>>>
                                          ELSE g[k - 1] \o Four(k)]
           texts == [k \in 0 .. m |-> Applied(n, k)]
           upTo == CHOOSE g : Is(g)
<1>1. m \in Nat /\ m = Pl!Last + 1
  BY LastIs
<1>2. Applied(n, 0) = <<<<"embed", n>>, <<"expand", 0>>>>
  <2>1. Applied(n, 0) = [i \in 1 .. 2 |-> IF i = 1 THEN <<"embed", n>> ELSE <<"expand", 0>>]
    BY DEF Applied
  <2> QED BY <2>1
<1>3. ASSUME NEW k \in 1 .. m PROVE Applied(n, k) = Applied(n, k - 1) \o Four(k)
  <2> DEFINE a == Applied(n, k - 1)
             four == Four(k)
             d == Applied(n, k)
             joined == a \o four
  <2>1. k - 1 \in Nat /\ k \in Nat
    BY <1>1
  <2>2. a \in Seq(Items) /\ Len(a) = 2 + 4 * (k - 1)
    BY <2>1, AppliedIs
  <2>3. d \in Seq(Items) /\ Len(d) = 2 + 4 * k
    BY <2>1, AppliedIs
  <2>4. four \in Seq(Items) /\ Len(four) = 4
    <3>1. \A i \in 1 .. 4 : four[i] \in Items
      BY <2>1 DEF Items
    <3> DEFINE many == 4
    <3>2. four \in [1 .. many -> Items] /\ many \in Nat
      BY <3>1
    <3> HIDE DEF four, many
    <3>3. four \in Seq(Items) /\ Len(four) = many
      BY <3>2, SeqDef, LenProperties
    <3> QED BY <3>3 DEF many
  <2>5. \A i \in 1 .. 2 + 4 * (k - 1) : d[i] = a[i]
    BY <2>1 DEF Applied
  <2>6. \A i \in 1 .. 4 : d[2 + 4 * (k - 1) + i] = four[i]
    <3>1. ASSUME NEW j \in 0 .. 3
          PROVE  d[3 + 4 * (k - 1) + j] = <<Part((4 * (k - 1) + j) % 4), (4 * (k - 1) + j) \div 4>>
      BY <2>1 DEF Applied
    <3>2. ASSUME NEW j \in 0 .. 3
          PROVE  (4 * (k - 1) + j) % 4 = j /\ (4 * (k - 1) + j) \div 4 = k - 1
      BY <2>1
    <3>3. ASSUME NEW j \in 0 .. 3 PROVE d[3 + 4 * (k - 1) + j] = <<Part(j), k - 1>>
      BY Zenon, <3>1, <3>2
    <3>4. \A j \in 0 .. 3 : <<Part(j), k - 1>> = four[j + 1]
      BY DEF Part
    <3> HIDE DEF d, four
    <3>5. ASSUME NEW i \in 1 .. 4 PROVE d[2 + 4 * (k - 1) + i] = four[i]
      <4>1. i - 1 \in 0 .. 3 /\ 3 + 4 * (k - 1) + (i - 1) = 2 + 4 * (k - 1) + i /\ (i - 1) + 1 = i
        BY <2>1
      <4> QED BY <3>3, <3>4, <4>1
    <3> QED BY <3>5
  <2> HIDE DEF a, four, d
  <2>7. joined \in Seq(Items) /\ Len(joined) = Len(a) + Len(four)
    BY <2>2, <2>4, ConcatProperties
  <2>8. \A i \in 1 .. Len(a) + Len(four) :
           joined[i] = IF i <= Len(a) THEN a[i] ELSE four[i - Len(a)]
    BY <2>2, <2>4, ConcatProperties
  <2> HIDE DEF joined
  <2>9. Len(joined) = Len(d)
    BY <2>1, <2>2, <2>3, <2>4, <2>7
  <2>10. ASSUME NEW i \in 1 .. Len(d) PROVE joined[i] = d[i]
    <3>1. joined[i] = IF i <= Len(a) THEN a[i] ELSE four[i - Len(a)]
      BY <2>7, <2>8, <2>9
    <3>2. CASE i <= Len(a)
      BY <2>1, <2>2, <2>3, <2>5, <3>1, <3>2
    <3>3. CASE i > Len(a)
      <4>1. i - Len(a) \in 1 .. 4 /\ 2 + 4 * (k - 1) + (i - Len(a)) = i
        BY <2>1, <2>2, <2>3, <3>3
      <4>2. d[i] = four[i - Len(a)]
        BY <2>6, <4>1
      <4>3. ~(i <= Len(a))
        BY <2>1, <2>2, <2>3, <3>3
      <4> QED BY <3>1, <4>2, <4>3
    <3> QED BY <2>1, <2>2, <2>3, <3>2, <3>3
  <2>11. joined = d
    BY <2>3, <2>7, <2>9, <2>10, SeqEqual
  <2> QED BY <2>11 DEF joined, a, four, d
<1> HIDE DEF Four
<1>4. Is(texts)
  <2>1. \A k \in 0 .. m : texts[k] = IF k = 0 THEN <<<<"embed", n>>, <<"expand", 0>>>>
                                     ELSE texts[k - 1] \o Four(k)
    <3>1. ASSUME NEW k \in 1 .. m PROVE texts[k] = texts[k - 1] \o Four(k)
      BY <1>1, <1>3
    <3>2. texts[0] = <<<<"embed", n>>, <<"expand", 0>>>>
      BY <1>1, <1>2
    <3> HIDE DEF texts, m
    <3>3. ASSUME NEW k \in 0 .. m, k # 0 PROVE k \in 1 .. m
      BY <1>1, <3>3
    <3> QED BY Zenon, <3>1, <3>2, <3>3
  <2>2. texts = [k \in 0 .. m |-> texts[k]]
    OBVIOUS
  <2> HIDE DEF texts
  <2> QED BY <2>1, <2>2
<1> HIDE DEF Is, texts
<1>5. Is(upTo)
  BY <1>4
<1>11. upTo = [k \in 0 .. m |-> IF k = 0 THEN <<<<"embed", n>>, <<"expand", 0>>>>
                               ELSE upTo[k - 1] \o Four(k)]
  BY Zenon, <1>5 DEF Is
<1>6. upTo[0] = Applied(n, 0)
  <2> HIDE DEF upTo, m
  <2>1. 0 \in 0 .. m
    BY <1>1
  <2> QED BY Zenon, <1>2, <1>11, <2>1
<1>7. ASSUME NEW k \in 1 .. m PROVE upTo[k] = upTo[k - 1] \o Four(k)
  <2> HIDE DEF upTo, m
  <2>1. k \in 0 .. m /\ k # 0
    BY <1>1
  <2> QED BY Zenon, <1>11, <2>1
<1>8. Pl!Reference(n) = upTo[m] \o <<<<"contract", Pl!Last>>, <<"norm", n>>>>
  BY DEF Pl!Reference, Is, Four
<1> HIDE DEF upTo
<1>9. upTo[m] = Applied(n, m)
  <2> DEFINE Bad == {k \in 0 .. m : upTo[k] # Applied(n, k)}
  <2>1. ASSUME NEW k \in Bad PROVE k - 1 \in Bad
    <3>1. k \in 1 .. m
      BY <1>1, <1>6
    <3>2. k - 1 \in 0 .. m
      BY <1>1, <3>1
    <3> QED BY <1>3, <1>7, <3>1, <3>2
  <2> HIDE DEF Bad
  <2>2. Bad \subseteq Nat
    BY <1>1 DEF Bad
  <2>3. Bad = {}
    <3>1. ASSUME Bad # {} PROVE FALSE
      <4>1. PICK k \in Bad : \A j \in Bad : k <= j
        BY <2>2, <3>1, LeastIn
      <4>2. k - 1 \in Bad /\ k \in Nat
        BY <2>1, <2>2, <4>1
      <4> QED BY <2>2, <4>1, <4>2
    <3> QED BY <3>1
  <2> QED BY <1>1, <2>3 DEF Bad
<1>10. Applied(n, m) \o <<<<"contract", Pl!Last>>, <<"norm", n>>>> = Final(n)
  <2> DEFINE a == Applied(n, m)
             i1 == <<"contract", Pl!Last>>
             i2 == <<"norm", n>>
  <2>1. a \in Seq(Items)
    BY <1>1, AppliedIs
  <2>2. i1 \in Items /\ i2 \in Items
    BY LastIs DEF Items
  <2> HIDE DEF a, i1, i2
  <2>3. a \o <<i1, i2>> = Append(Append(a, i1), i2)
    BY <2>1, <2>2
  <2> QED BY <1>1, <2>3 DEF Final, a, i1, i2
<1> QED BY <1>8, <1>9, <1>10

-----------------------------------------------------------------------------
(* A batch crosses the stages.                                                *)

\* A stage, or the wire, has a batch or none.
Held(f) == IF f = <<>> THEN 0 ELSE 1
OneOf(f, n, layers) == f = <<>> \/ \E l \in layers : f = <<Batch(n, l)>>
OnWire(n, split) == [n |-> n, tensors |-> Pl!Carried(Batch(n, split))]

\* Batches go in one line: r have returned, then the second stage's, the wire's and
\* the first stage's, and n were begun.
Flow(many, split, f0, f1, w, r, n) ==
  /\ many \in {1, 2} /\ split \in 1 .. Pl!Last /\ r \in Nat
  /\ many = 1 => f1 = <<>> /\ w = <<>>
  /\ OneOf(f1, r + 1, split .. Pl!Last + 1)
  /\ w = <<>> \/ w = <<OnWire(r + Held(f1) + 1, split)>>
  /\ f0 # <<>> => w = <<>>
  /\ OneOf(f0, r + Held(f1) + 1, 0 .. IF many = 1 THEN Pl!Last + 1 ELSE split)
  /\ n = r + Held(f1) + Held(w) + Held(f0)

Forward ==
  /\ DOMAIN flight = {0, 1} /\ DOMAIN buffers = {"hidden_states", "residual", "post", "comb"}
  /\ results \in Seq(Seq(Items))
  /\ \A i \in 1 .. Len(results) : results[i] = Final(i)
  /\ Flow(layout.stages, layout.split, flight[0], flight[1], wire, Len(results), sent)

\* A result is a sequence of items.
LEMMA FinalIs ==
    ASSUME NEW n \in Nat
    PROVE  Final(n) \in Seq(Items)
<1> DEFINE a == Applied(n, Pl!Last + 1)
           b == Append(a, <<"contract", Pl!Last>>)
<1>1. Pl!Last \in Nat BY LastIs
<1>2. a \in Seq(Items) BY <1>1, AppliedIs
<1>3. <<"contract", Pl!Last>> \in Items /\ <<"norm", n>> \in Items BY <1>1 DEF Items
<1> HIDE DEF a
<1>4. b \in Seq(Items) BY <1>2, <1>3, AppendProperties
<1> HIDE DEF b
<1>5. Append(b, <<"norm", n>>) \in Seq(Items) BY <1>3, <1>4, AppendProperties
<1> QED BY <1>5 DEF Final, a, b

\* The batch that is through comes to it.
LEMMA ReturnedIs ==
    ASSUME NEW n \in Nat
    PROVE  Pl!Do(Batch(n, Pl!Last + 1).x, "norm", n) = Final(n)
<1> DEFINE a == Applied(n, Pl!Last + 1)
           b == Append(a, <<"contract", Pl!Last>>)
<1>1. Pl!Last \in Nat BY LastIs
<1>8. Pl!Last + 1 \in Nat BY <1>1
<1>2. a \in Seq(Items) /\ Len(a) = 2 + 4 * (Pl!Last + 1) BY Zenon, <1>8, AppliedIs
<1>3. a \in Long BY <1>1, <1>2 DEF Long
<1>4. <<"contract", Pl!Last>> \in Items BY <1>1 DEF Items
<1> HIDE DEF a
<1>5. b \in Long BY Zenon, <1>3, <1>4, LongMore
<1>6. Batch(n, Pl!Last + 1).x = b
  <2>1. Pl!Last + 1 # 0 /\ ~(Pl!Last + 1 <= Pl!Last) BY <1>1
  <2>2. Batch(n, Pl!Last + 1) = Entering(n, Pl!Last + 1, b, Pl!Absent)
    BY Zenon, <2>1 DEF Batch, a
  <2> QED BY <2>2 DEF Entering
<1> HIDE DEF b
<1>7. Pl!Do(b, "norm", n) = Append(b, <<"norm", n>>) BY Zenon, <1>5, DoIs
<1> QED BY <1>6, <1>7 DEF Final, a, b

\* Nothing has begun.
LEMMA FlowsFirst == Pl!Init => Forward
<1> SUFFICES ASSUME Pl!Init PROVE Forward
  OBVIOUS
<1>1. layout.stages \in {1, 2} /\ layout.split \in 1 .. Pl!Last
  BY DEF Pl!Init
<1>2. DOMAIN flight = {0, 1} /\ flight[0] = <<>> /\ flight[1] = <<>> /\ wire = <<>> /\ sent = 0
      /\ results = <<>>
  BY DEF Pl!Init
<1>3. DOMAIN buffers = {"hidden_states", "residual", "post", "comb"}
  BY DEF Pl!Init
<1>4. results \in Seq(Seq(Items)) /\ Len(results) = 0
  BY <1>2
<1>5. Flow(layout.stages, layout.split, flight[0], flight[1], wire, Len(results), sent)
  BY <1>1, <1>2, <1>4 DEF Flow, OneOf, Held
<1> QED BY <1>2, <1>3, <1>4, <1>5 DEF Forward

\* The first stage embeds the next batch.
LEMMA EmbedFlows == Forward /\ Pl!Embed => Forward'
<1> SUFFICES ASSUME Forward, Pl!Embed PROVE Forward'
  OBVIOUS
<1> DEFINE r == Len(results)
           many == layout.stages
           split == layout.split
<1>1. /\ flight[0] = <<>> /\ Len(wire) < 1 /\ sent' = sent + 1
      /\ layout' = layout /\ wire' = wire /\ buffers' = buffers /\ results' = results
      /\ flight' = [flight EXCEPT ![0] = <<[n |-> sent', layer |-> 0, x |-> <<<<"embed", sent'>>>>,
                   residual |-> Pl!Absent, post |-> Pl!Absent, comb |-> Pl!Absent]>>]
  BY DEF Pl!Embed, Pl!loads
<1>2. DOMAIN flight = {0, 1} /\ Flow(many, split, flight[0], flight[1], wire, r, sent)
  BY DEF Forward
<1>3. flight'[1] = flight[1] /\ DOMAIN flight' = {0, 1} /\ flight'[0] = <<Batch(sent + 1, 0)>>
  BY <1>1, <1>2 DEF Batch, Entering
<1> HIDE DEF r, many, split
<1>4. wire = <<>>
  BY <1>1, <1>2 DEF Flow
<1>5. sent = r + Held(flight[1]) /\ r \in Nat /\ Held(flight[1]) \in Nat /\ Pl!Last \in Nat
  BY <1>1, <1>2, <1>4, LastIs DEF Flow, Held
<1>6. Flow(many, split, flight'[0], flight'[1], wire, r, sent + 1)
  <2>1. <<Batch(sent + 1, 0)>> # <<>>
    OBVIOUS
  <2>2. 0 \in 0 .. IF many = 1 THEN Pl!Last + 1 ELSE split
    BY <1>2, <1>5 DEF Flow
  <2>3. OneOf(flight'[0], r + Held(flight[1]) + 1, 0 .. IF many = 1 THEN Pl!Last + 1 ELSE split)
    BY <1>3, <1>5, <2>2 DEF OneOf
  <2>4. Held(flight'[0]) = 1 /\ Held(wire) = 0
    BY <1>3, <1>4, <2>1 DEF Held
  <2> QED BY <1>2, <1>3, <1>4, <1>5, <2>3, <2>4 DEF Flow
<1> QED BY <1>1, <1>3, <1>6 DEF Forward, r, many, split

\* A stage runs a layer.
LEMMA RunFlows ==
    ASSUME Forward, NEW s \in {0, 1}, Pl!RunLayer(s)
    PROVE  Forward'
<1> DEFINE r == Len(results)
           many == layout.stages
           split == layout.split
           b == flight[s][1]
<1>1. /\ flight[s] # <<>> /\ b.layer \in Pl!LayersOf(s)
      /\ flight' = [flight EXCEPT ![s] = <<Pl!Layer(b, b.layer)>>]
      /\ layout' = layout /\ wire' = wire /\ buffers' = buffers /\ results' = results
      /\ sent' = sent
  BY DEF Pl!RunLayer, Pl!loads
<1>2. DOMAIN flight = {0, 1} /\ Flow(many, split, flight[0], flight[1], wire, r, sent)
  BY DEF Forward
<1>3. DOMAIN flight' = {0, 1} /\ flight'[s] = <<Pl!Layer(b, b.layer)>>
      /\ \A o \in {0, 1} : o # s => flight'[o] = flight[o]
  BY <1>1, <1>2
<1> HIDE DEF r
<1>4. /\ many \in {1, 2} /\ split \in 1 .. Pl!Last /\ r \in Nat /\ Pl!Last \in Nat
      /\ Held(flight[1]) \in Nat
  BY <1>2, LastIs DEF Flow, Held
<1> DEFINE n == IF s = 0 THEN r + Held(flight[1]) + 1 ELSE r + 1
           first == IF s = 0 THEN 0 ELSE split
           end == IF s = 0 /\ many = 2 THEN split ELSE Pl!Last + 1
<1>5. PICK l \in first .. end : flight[s] = <<Batch(n, l)>>
  BY <1>1, <1>2, <1>4 DEF Flow, OneOf
<1>6. n \in Nat /\ l \in 0 .. Pl!Last + 1
  BY <1>4
<1>7. b = Batch(n, l)
  BY <1>5
<1>8. b.layer = l
  <2> HIDE DEF b, n
  <2>1. Batch(n, l).layer = l
    BY <1>6, BatchIs
  <2> QED BY Zenon, <1>7, <2>1
<1>9. l + 1 \in first .. end /\ l \in 0 .. Pl!Last
  <2>1. l \in Pl!LayersOf(s)
    BY <1>1, <1>8
  <2>2. CASE many = 1
    <3>1. l \in 0 .. Pl!Last
      BY <2>1, <2>2, LastIs DEF Pl!LayersOf
    <3> QED BY <1>4, <2>2, <3>1
  <2>3. CASE many = 2
    BY <1>4, <2>1, <2>3 DEF Pl!LayersOf
  <2> QED BY <1>4, <2>2, <2>3
<1>10. flight'[s] = <<Batch(n, l + 1)>>
  <2>1. Pl!Layer(Batch(n, l), l) = Batch(n, l + 1)
    BY Zenon, <1>6, <1>9, LayerDoes
  <2> HIDE DEF b, n
  <2> QED BY Zenon, <1>3, <1>7, <1>8, <2>1
<1> HIDE DEF b, many, split
<1>11. Flow(many, split, flight'[0], flight'[1], wire, r, sent)
  <2>1. OneOf(flight'[s], n, first .. end) /\ flight'[s] # <<>>
    <3> HIDE DEF n, first, end
    <3>1. <<Batch(n, l + 1)>> # <<>>
      OBVIOUS
    <3> QED BY Zenon, <1>9, <1>10, <3>1 DEF OneOf
  <2>2. Held(flight'[0]) = Held(flight[0]) /\ Held(flight'[1]) = Held(flight[1])
    BY <1>1, <1>3, <2>1 DEF Held
  <2>3. CASE s = 0
    <3>1. flight'[1] = flight[1]
      BY <1>3, <2>3
    <3>2. OneOf(flight'[0], r + Held(flight[1]) + 1, 0 .. IF many = 1 THEN Pl!Last + 1 ELSE split)
      BY <1>4, <2>1, <2>3
    <3> QED BY <1>1, <1>2, <2>2, <2>3, <3>1, <3>2 DEF Flow
  <2>4. CASE s = 1
    <3>1. flight'[0] = flight[0]
      BY <1>3, <2>4
    <3>2. OneOf(flight'[1], r + 1, split .. Pl!Last + 1)
      BY <2>1, <2>4
    <3>3. many # 1
      BY <1>1, <1>2, <2>4 DEF Flow
    <3> QED BY <1>2, <2>2, <3>1, <3>2, <3>3 DEF Flow
  <2> QED BY <2>3, <2>4
<1> QED BY <1>1, <1>3, <1>11 DEF Forward, r, many, split

\* The first of two stages hands its batch on.
LEMMA SendFlows ==
    ASSUME Forward, NEW s \in {0, 1}, Pl!SendOn(s)
    PROVE  Forward'
<1> DEFINE r == Len(results)
           many == layout.stages
           split == layout.split
           b == flight[s][1]
<1>1. /\ flight[s] # <<>> /\ b.layer \notin Pl!LayersOf(s) /\ s # many - 1
      /\ wire' = Append(wire, [n |-> b.n, tensors |-> Pl!Carried(b)])
      /\ flight' = [flight EXCEPT ![s] = <<>>]
      /\ layout' = layout /\ buffers' = buffers /\ results' = results /\ sent' = sent
  BY DEF Pl!SendOn, Pl!Ran, Pl!IsLast, Pl!loads
<1>2. DOMAIN flight = {0, 1} /\ Flow(many, split, flight[0], flight[1], wire, r, sent)
  BY DEF Forward
<1> HIDE DEF r
<1>3. /\ many \in {1, 2} /\ split \in 1 .. Pl!Last /\ r \in Nat /\ Pl!Last \in Nat
      /\ Held(flight[1]) \in Nat
  BY <1>2, LastIs DEF Flow, Held
<1>4. s = 0 /\ many = 2
  BY <1>1, <1>2, <1>3 DEF Flow
<1>5. DOMAIN flight' = {0, 1} /\ flight'[0] = <<>> /\ flight'[1] = flight[1]
  BY <1>1, <1>2, <1>4
<1> DEFINE n == r + Held(flight[1]) + 1
<1>6. PICK l \in 0 .. split : flight[0] = <<Batch(n, l)>>
  BY <1>1, <1>2, <1>4 DEF Flow, OneOf
<1>7. n \in Nat /\ l \in 0 .. Pl!Last + 1
  BY <1>3
<1>8. b = Batch(n, l)
  BY <1>4, <1>6
<1>9. b.layer = l /\ b.n = n
  <2>1. Batch(n, l).n = n /\ Batch(n, l).layer = l
    BY Zenon, <1>7, BatchIs
  <2> HIDE DEF b, n
  <2> QED BY Zenon, <1>8, <2>1
<1>10. l = split
  <2>1. l \notin Pl!LayersOf(0) /\ l \in 0 .. split
    BY <1>1, <1>4, <1>6, <1>9
  <2>2. split \in Nat /\ 0 <= l
    BY <1>3, <2>1
  <2> QED BY <1>3, <1>4, <2>1, <2>2 DEF Pl!LayersOf
<1>11. wire = <<>>
  BY <1>1, <1>2, <1>4 DEF Flow
<1> HIDE DEF b, many, split, n
<1>12. wire' = <<OnWire(n, split)>>
  BY <1>1, <1>8, <1>9, <1>10, <1>11 DEF OnWire
<1>13. wire' # <<>>
  BY <1>12
<1>14. Flow(many, split, flight'[0], flight'[1], wire', r, sent)
  <2>1. Held(wire') = 1 /\ Held(wire) = 0 /\ Held(flight'[0]) = 0 /\ Held(flight[0]) = 1
    BY <1>1, <1>4, <1>5, <1>11, <1>13 DEF Held
  <2> QED BY <1>2, <1>3, <1>4, <1>5, <1>12, <2>1 DEF Flow, OneOf, n
<1> QED BY <1>1, <1>5, <1>14 DEF Forward, r, many, split

\* The second stage takes the batch over.
LEMMA ReceiveFlows == Forward /\ Pl!Receive => Forward'
<1> SUFFICES ASSUME Forward, Pl!Receive PROVE Forward'
  OBVIOUS
<1> DEFINE r == Len(results)
           many == layout.stages
           split == layout.split
           tensors == wire[1].tensors
<1>1. /\ wire # <<>> /\ flight[1] = <<>> /\ wire' = Tail(wire)
      /\ buffers' = [name \in DOMAIN buffers |->
                       IF name \in DOMAIN tensors THEN tensors[name] ELSE buffers[name]]
      /\ flight' = [flight EXCEPT ![1] =
           <<[n |-> wire[1].n, layer |-> split, x |-> buffers'.hidden_states,
              residual |-> buffers'.residual, post |-> buffers'.post, comb |-> buffers'.comb]>>]
      /\ layout' = layout /\ results' = results /\ sent' = sent
  BY DEF Pl!Receive, Pl!loads
<1>2. /\ DOMAIN flight = {0, 1} /\ Flow(many, split, flight[0], flight[1], wire, r, sent)
      /\ DOMAIN buffers = {"hidden_states", "residual", "post", "comb"}
  BY DEF Forward
<1> HIDE DEF r
<1>3. /\ many \in {1, 2} /\ split \in 1 .. Pl!Last /\ r \in Nat /\ Pl!Last \in Nat
      /\ Held(flight[1]) = 0 /\ flight[0] = <<>>
  BY <1>1, <1>2, LastIs DEF Flow, Held
<1>4. wire = <<OnWire(r + 1, split)>>
  BY <1>1, <1>2, <1>3 DEF Flow
<1> DEFINE b == Batch(r + 1, split)
<1>5. wire[1].n = r + 1 /\ tensors = Pl!Carried(b) /\ wire' = <<>>
  BY <1>1, <1>4 DEF OnWire
<1>6. b = [n |-> r + 1, layer |-> split, x |-> b.x, residual |-> b.residual, post |-> b.post,
           comb |-> b.comb]
  BY <1>3 DEF Batch, Entering
<1> HIDE DEF b, tensors
<1>7. /\ buffers'.hidden_states = b.x /\ buffers'.residual = b.residual
      /\ buffers'.post = b.post /\ buffers'.comb = b.comb
      /\ DOMAIN buffers' = {"hidden_states", "residual", "post", "comb"}
  BY <1>1, <1>2, <1>5 DEF Pl!Carried
<1>8. DOMAIN flight' = {0, 1} /\ flight'[0] = flight[0] /\ flight'[1] = <<b>>
  BY <1>1, <1>2, <1>5, <1>6, <1>7
<1> HIDE DEF many, split
<1>9. Flow(many, split, flight'[0], flight'[1], wire', r, sent)
  <2>1. flight'[1] # <<>>
    BY <1>8
  <2>2. Held(flight'[1]) = 1 /\ Held(wire') = 0 /\ Held(wire) = 1
    BY <1>1, <1>5, <2>1 DEF Held
  <2>3. OneOf(flight'[1], r + 1, split .. Pl!Last + 1)
    BY <1>3, <1>8 DEF OneOf, b
  <2>4. many # 1
    BY <1>1, <1>2 DEF Flow
  <2> QED BY <1>2, <1>3, <1>5, <1>8, <2>2, <2>3, <2>4 DEF Flow, OneOf
<1> QED BY <1>1, <1>7, <1>8, <1>9 DEF Forward, r, many, split

\* The last stage returns what its batch has come to.
LEMMA ReturnFlows ==
    ASSUME Forward, NEW s \in {0, 1}, Pl!Return(s)
    PROVE  Forward'
<1> DEFINE r == Len(results)
           many == layout.stages
           split == layout.split
           b == flight[s][1]
<1>1. /\ flight[s] # <<>> /\ b.layer \notin Pl!LayersOf(s) /\ s = many - 1
      /\ results' = Append(results, Pl!Do(b.x, "norm", b.n))
      /\ flight' = [flight EXCEPT ![s] = <<>>]
      /\ layout' = layout /\ buffers' = buffers /\ wire' = wire /\ sent' = sent
  BY DEF Pl!Return, Pl!Ran, Pl!IsLast, Pl!loads
<1>2. /\ DOMAIN flight = {0, 1} /\ Flow(many, split, flight[0], flight[1], wire, r, sent)
      /\ results \in Seq(Seq(Items))
      /\ \A i \in 1 .. r : results[i] = Final(i)
  BY DEF Forward
<1>3. DOMAIN flight' = {0, 1} /\ flight'[s] = <<>>
      /\ \A o \in {0, 1} : o # s => flight'[o] = flight[o]
  BY <1>1, <1>2
<1>4. /\ many \in {1, 2} /\ split \in 1 .. Pl!Last /\ r \in Nat /\ Pl!Last \in Nat
  BY <1>2, LastIs DEF Flow
<1>5. \E l \in 0 .. Pl!Last + 1 : flight[s] = <<Batch(r + 1, l)>> /\ (s = 1 => l >= split)
  <2>1. CASE s = 0
    <3>1. many = 1 /\ flight[1] = <<>>
      BY <1>1, <1>2, <1>4, <2>1 DEF Flow
    <3>2. OneOf(flight[0], r + 1, 0 .. Pl!Last + 1)
      BY <1>2, <1>4, <3>1 DEF Flow, Held
    <3> QED BY <1>1, <2>1, <3>2 DEF OneOf
  <2>2. CASE s = 1
    <3>1. OneOf(flight[1], r + 1, split .. Pl!Last + 1)
      BY <1>2 DEF Flow
    <3> QED BY <1>1, <1>4, <2>2, <3>1 DEF OneOf
  <2> QED BY <2>1, <2>2
<1>6. PICK l \in 0 .. Pl!Last + 1 : flight[s] = <<Batch(r + 1, l)>> /\ (s = 1 => l >= split)
  BY <1>5
<1>7. b = Batch(r + 1, l)
  BY <1>6
<1>8. b.layer = l /\ b.n = r + 1
  <2>1. r + 1 \in Nat
    BY <1>4
  <2>2. Batch(r + 1, l).n = r + 1 /\ Batch(r + 1, l).layer = l
    BY Zenon, <2>1, BatchIs
  <2> HIDE DEF b
  <2> QED BY Zenon, <1>7, <2>2
<1>9. l = Pl!Last + 1
  BY <1>1, <1>4, <1>6, <1>8, LastIs DEF Pl!LayersOf
<1> HIDE DEF b
<1>10. Pl!Do(b.x, "norm", b.n) = Final(r + 1)
  <2>1. r + 1 \in Nat
    BY <1>4
  <2> QED BY Zenon, <1>7, <1>8, <1>9, <2>1, ReturnedIs
<1>11. Final(r + 1) \in Seq(Items)
  BY <1>4, FinalIs
<1>12. /\ results' \in Seq(Seq(Items)) /\ Len(results') = r + 1
       /\ \A i \in 1 .. Len(results') : results'[i] = Final(i)
  <2> DEFINE last == Final(r + 1)
  <2>1. results' = Append(results, last)
    BY <1>1, <1>10
  <2>2. last \in Seq(Items)
    BY <1>11
  <2> HIDE DEF last
  <2>3. /\ results' \in Seq(Seq(Items)) /\ Len(results') = r + 1
        /\ \A i \in 1 .. r : results'[i] = results[i]
        /\ results'[r + 1] = last
    BY <1>2, <2>1, <2>2, AppendProperties
  <2>4. ASSUME NEW i \in 1 .. r + 1 PROVE results'[i] = Final(i)
    <3> HIDE DEF r
    <3>1. CASE i = r + 1 BY Zenon, <2>3, <3>1 DEF last
    <3>2. CASE i # r + 1
      <4>1. i \in 1 .. r BY <1>4, <3>2
      <4> QED BY Zenon, <1>2, <2>3, <4>1
    <3> QED BY <3>1, <3>2
  <2> QED BY <2>3, <2>4
<1> HIDE DEF r, many, split
<1>13. Flow(many, split, flight'[0], flight'[1], wire, r + 1, sent)
  <2>1. Held(flight'[s]) = 0 /\ Held(flight[s]) = 1
    BY <1>1, <1>3 DEF Held
  <2>2. CASE s = 0
    <3>1. many = 1 /\ flight[1] = <<>> /\ flight'[1] = <<>> /\ wire = <<>>
      BY <1>1, <1>2, <1>3, <1>4, <2>2 DEF Flow
    <3> QED BY <1>2, <1>3, <1>4, <2>1, <2>2, <3>1 DEF Flow, OneOf, Held
  <2>3. CASE s = 1
    <3>1. many = 2 /\ flight'[0] = flight[0] /\ flight'[1] = <<>>
      BY <1>1, <1>3, <1>4, <2>3
    <3>2. Held(flight[1]) = 1 /\ Held(flight'[1]) = 0
      BY <2>1, <2>3
    <3>3. r + 1 + 0 = r + 1 /\ r + 1 + 0 + 1 = r + 1 + 1
      BY <1>4
    <3>4. OneOf(flight'[1], r + 1 + 1, split .. Pl!Last + 1)
      BY <3>1 DEF OneOf
    <3>5. OneOf(flight'[0], r + 1 + 0 + 1, 0 .. IF many = 1 THEN Pl!Last + 1 ELSE split)
      BY <1>2, <3>1, <3>2, <3>3 DEF Flow
    <3>6. wire = <<>> \/ wire = <<OnWire(r + 1 + 0 + 1, split)>>
      BY <1>2, <3>2, <3>3 DEF Flow
    <3>7. sent = r + 1 + 0 + Held(wire) + Held(flight'[0])
      BY <1>2, <1>4, <3>1, <3>2 DEF Flow
    <3> QED BY <1>2, <1>4, <3>1, <3>2, <3>4, <3>5, <3>6, <3>7 DEF Flow
  <2> QED BY <2>2, <2>3
<1> QED BY <1>1, <1>3, <1>12, <1>13 DEF Forward, r, many, split

-----------------------------------------------------------------------------
(* A stage is loaded.                                                         *)

\* A tensor by its names, the halves of a checkpoint in FP8, and the two of a pair.
Named(u, part) == [layer |-> u.layer, proj |-> u.proj, expert |-> u.expert, part |-> part]
Halves(all) == {u \in all : u.part # "whole"}
Pair(u) == {Named(u, "weight"), Named(u, "scale")}
Own == {u \in Pl!Checkpoint : Pl!Mine(u)}

\* The tensors of a checkpoint.
LEMMA TensorIs ==
    ASSUME NEW u \in Pl!Checkpoint
    PROVE  /\ u = Named(u, u.part)
           /\ \/ u.layer = Pl!Last + 1 /\ u.part = "whole"
              \/ /\ u.layer \in 0 .. Pl!Last /\ u.proj \in Pl!Projections(u.layer)
                 /\ u.part \in Pl!Parts(u.proj) /\ u.expert = 0
              \/ u.layer \in 0 .. Pl!Last /\ u.proj = "expert" /\ u.part = "whole"
<1>1. CASE u \in Pl!Drafter
  BY <1>1 DEF Pl!Drafter, Named
<1>2. CASE u \in UNION {Pl!Tensors(l) : l \in Pl!Layers}
  <2>1. PICK l \in Pl!Layers : u \in Pl!Tensors(l)
    BY <1>2
  <2>2. l \in 0 .. Pl!Last
    BY LastIs
  <2>3. CASE u \in {[layer |-> l, proj |-> "expert", expert |-> e, part |-> "whole"] :
                     e \in RoutedExperts}
    BY <2>2, <2>3 DEF Named
  <2>4. CASE u \in {[layer |-> l, proj |-> pp[1], expert |-> 0, part |-> pp[2]] :
                     pp \in UNION {{proj} \X Pl!Parts(proj) : proj \in Pl!Projections(l)}}
    <3>1. PICK proj \in Pl!Projections(l) : \E pp \in {proj} \X Pl!Parts(proj) :
                u = [layer |-> l, proj |-> pp[1], expert |-> 0, part |-> pp[2]]
      BY <2>4
    <3>2. PICK part \in Pl!Parts(proj) :
                u = [layer |-> l, proj |-> proj, expert |-> 0, part |-> part]
      BY <3>1
    <3> QED BY <2>2, <3>2 DEF Named
  <2> QED BY <2>1, <2>3, <2>4 DEF Pl!Tensors
<1> QED BY <1>1, <1>2 DEF Pl!Checkpoint

\* Every part of a projection is in it.
LEMMA TensorIn ==
    ASSUME NEW l \in 0 .. Pl!Last, NEW proj \in Pl!Projections(l),
           NEW part \in Pl!Parts(proj)
    PROVE  [layer |-> l, proj |-> proj, expert |-> 0, part |-> part] \in Pl!Checkpoint
<1>1. <<proj, part>> \in UNION {{other} \X Pl!Parts(other) : other \in Pl!Projections(l)}
  OBVIOUS
<1>2. [layer |-> l, proj |-> proj, expert |-> 0, part |-> part] \in Pl!Tensors(l)
  BY <1>1 DEF Pl!Tensors
<1>3. l \in Pl!Layers
  BY LastIs
<1> QED BY <1>2, <1>3 DEF Pl!Checkpoint

\* The fused parameters keep the projections apart.
Projects == {"gate", "up", "q_a", "kv_a", "o", "wk", "weights", "b", "f_a", "g_a", "expert"}
LEMMA StackedApart ==
    ASSUME NEW p \in Projects, NEW q \in Projects, Pl!Stacked(p) = Pl!Stacked(q)
    PROVE  p = q
<1>1. /\ Pl!Stacked("gate") = <<"gate_up", 0>> /\ Pl!Stacked("up") = <<"gate_up", 1>>
      /\ Pl!Stacked("q_a") = <<"fused_qkv_a", 0>> /\ Pl!Stacked("kv_a") = <<"fused_qkv_a", 1>>
      /\ Pl!Stacked("wk") = <<"wk_weights", 0>> /\ Pl!Stacked("weights") = <<"wk_weights", 1>>
      /\ Pl!Stacked("b") = <<"bfg_a", 0>> /\ Pl!Stacked("f_a") = <<"bfg_a", 1>>
      /\ Pl!Stacked("g_a") = <<"bfg_a", 2>>
      /\ Pl!Stacked("o") = <<"o", 0>> /\ Pl!Stacked("expert") = <<"expert", 0>>
  BY DEF Pl!Stacked
<1> QED BY <1>1 DEF Projects

\* So do their shards.
LEMMA ShardApart ==
    ASSUME NEW u \in Pl!Checkpoint, NEW v \in Pl!Checkpoint,
           u.layer <= Pl!Last, v.layer <= Pl!Last, Pl!Shard(u) = Pl!Shard(v)
    PROVE  /\ u.layer = v.layer /\ u.proj = v.proj /\ u.expert = v.expert
           /\ (u.part = "whole") = (v.part = "whole")
<1>1. Pl!Last \in Nat BY LastIs
<1>2. ASSUME NEW w \in Pl!Checkpoint, w.layer <= Pl!Last
      PROVE  /\ w.proj \in Projects
             /\ (w.part = "whole") = ~Pl!Halved(w.proj)
  <2>1. CASE w.proj \in Pl!Projections(w.layer) /\ w.part \in Pl!Parts(w.proj)
    BY <2>1 DEF Pl!Projections, Projects, Pl!Parts
  <2>2. CASE w.proj = "expert" /\ w.part = "whole"
    BY <2>2 DEF Projects, Pl!Halved
  <2> QED BY <1>1, <1>2, <2>1, <2>2, TensorIs
<1>3. u.layer = v.layer /\ Pl!Stacked(u.proj) = Pl!Stacked(v.proj) /\ u.expert = v.expert
  BY DEF Pl!Shard
<1>4. u.proj \in Projects /\ v.proj \in Projects
  BY <1>2
<1>5. u.proj = v.proj
  BY Zenon, <1>3, <1>4, StackedApart
<1>6. (u.part = "whole") = (v.part = "whole")
  BY <1>2, <1>5
<1> QED BY <1>3, <1>5, <1>6

\* A half has its mate in the checkpoint.
LEMMA HalfIs ==
    ASSUME NEW u \in Halves(Pl!Checkpoint)
    PROVE  /\ layout.fp8 /\ u.layer \in 0 .. Pl!Last /\ u.proj \in {"q_a", "kv_a", "o", "wk"}
           /\ u.expert = 0 /\ u.part \in {"weight", "scale"} /\ u \in Pair(u)
           /\ Pair(u) \subseteq Halves(Pl!Checkpoint)
           /\ Pl!Parts(u.proj) = {"weight", "scale"}
<1>1. u \in Pl!Checkpoint /\ u.part # "whole" /\ u = Named(u, u.part)
  BY TensorIs DEF Halves
<1>2. /\ u.layer \in 0 .. Pl!Last /\ u.proj \in Pl!Projections(u.layer)
      /\ u.part \in Pl!Parts(u.proj) /\ u.expert = 0
  BY <1>1, TensorIs
<1>3. Pl!Halved(u.proj) /\ Pl!Parts(u.proj) = {"weight", "scale"}
  BY <1>1, <1>2 DEF Pl!Parts
<1>4. layout.fp8 /\ u.proj \in {"q_a", "kv_a", "o", "wk"}
  BY <1>3 DEF Pl!Halved
<1>5. u \in Pair(u) /\ u.part \in {"weight", "scale"}
  BY <1>1, <1>2, <1>3 DEF Pair
<1>6. ASSUME NEW part \in {"weight", "scale"} PROVE Named(u, part) \in Halves(Pl!Checkpoint)
  <2>1. Named(u, part) = [layer |-> u.layer, proj |-> u.proj, expert |-> 0, part |-> part]
    BY <1>2 DEF Named
  <2>2. Named(u, part) \in Pl!Checkpoint
    BY <1>2, <1>3, <2>1, TensorIn
  <2>3. Named(u, part).part # "whole"
    BY <2>1
  <2> QED BY <2>2, <2>3 DEF Halves
<1> QED BY <1>2, <1>3, <1>4, <1>5, <1>6 DEF Pair

\* Halves of one name wait under one key, and no others do.
LEMMA KeyApart ==
    ASSUME NEW u \in Halves(Pl!Checkpoint), NEW v \in Halves(Pl!Checkpoint)
    PROVE  /\ Pl!Key(u) = Pl!Key(v) => v \in Pair(u)
           /\ v \in Pair(u) => /\ Pair(v) = Pair(u) /\ Pl!Key(v) = Pl!Key(u)
                               /\ Pl!Shard(v) = Pl!Shard(u)
                               /\ \A parts : Pl!Value(v, parts) = Pl!Value(u, parts)
<1>1. \A w \in {u, v} : /\ w.proj \in {"q_a", "kv_a", "o", "wk"} /\ w.expert = 0
                        /\ w.part \in {"weight", "scale"} /\ w = Named(w, w.part)
  <2>1. \A w \in {u, v} : /\ w.proj \in {"q_a", "kv_a", "o", "wk"} /\ w.expert = 0
                          /\ w.part \in {"weight", "scale"}
    BY HalfIs
  <2>2. \A w \in {u, v} : w = Named(w, w.part)
    BY TensorIs DEF Halves
  <2> QED BY <2>1, <2>2
<1>2. ASSUME Pl!Key(u) = Pl!Key(v) PROVE v \in Pair(u)
  <2>1. u.layer = v.layer /\ u.proj = v.proj
    BY <1>1, <1>2 DEF Pl!Key
  <2>2. v = Named(u, v.part)
    BY <1>1, <2>1 DEF Named
  <2> QED BY <1>1, <2>2 DEF Pair
<1>3. ASSUME v \in Pair(u)
      PROVE  /\ Pair(v) = Pair(u) /\ Pl!Key(v) = Pl!Key(u) /\ Pl!Shard(v) = Pl!Shard(u)
             /\ \A parts : Pl!Value(v, parts) = Pl!Value(u, parts)
  <2>1. u.layer = v.layer /\ u.proj = v.proj /\ u.expert = v.expert
    BY <1>3 DEF Pair, Named
  <2>2. Pair(v) = Pair(u)
    BY <2>1 DEF Pair, Named
  <2>3. Pl!Key(v) = Pl!Key(u) /\ Pl!Shard(v) = Pl!Shard(u)
    BY <2>1 DEF Pl!Key, Pl!Shard
  <2>4. \A parts : Pl!Value(v, parts) = Pl!Value(u, parts)
    BY <2>1 DEF Pl!Value
  <2> QED BY <2>2, <2>3, <2>4
<1> QED BY <1>2, <1>3

\* One half waits for the other, and both fill the parameter.
Waits(u, td, pend, par) ==
  LET arrived == Pair(u) \ td IN
  /\ arrived = {} => Pl!Key(u) \notin DOMAIN pend
  /\ arrived = Pair(u) => /\ Pl!Key(u) \notin DOMAIN pend
                          /\ par[Pl!Shard(u)] = Pl!Value(u, {"weight", "scale"})
  /\ arrived # {} /\ arrived # Pair(u) =>
       Pl!Key(u) \in DOMAIN pend /\ pend[Pl!Key(u)] = arrived

\* What has arrived of a checkpoint is where it belongs.
Filled(all, own, td, pend, par) ==
  /\ td \subseteq all
  /\ DOMAIN par = {Pl!Shard(u) : u \in own}
  /\ \A u \in own \ td : u.part = "whole" => par[Pl!Shard(u)] = Pl!Value(u, {"whole"})
  /\ \A u \in Halves(all) : Waits(u, td, pend, par)
  /\ \A key \in DOMAIN pend : \E u \in Halves(all) : key = Pl!Key(u)

Loading ==
  /\ layout.stages \in {1, 2} /\ layout.split \in 1 .. Pl!Last
  /\ layout.fp8 => layout.stages = 1
  /\ stage.s \in 0 .. layout.stages - 1
  /\ loading = "done" => todo = {}
  /\ Filled(Pl!Checkpoint, Own, todo, pending, params)

\* A stage has the shards of what is its own, and every half there is.
LEMMA OwnIs ==
    ASSUME Loading
    PROVE  /\ \A u \in Own : u \in Pl!Checkpoint /\ u.layer <= Pl!Last
           /\ Halves(Pl!Checkpoint) \subseteq Own
<1>1. Pl!Last \in Nat BY LastIs
<1>2. layout.stages \in {1, 2} /\ layout.split \in 1 .. Pl!Last /\ (layout.fp8 => layout.stages = 1)
  BY DEF Loading
<1>3. \A u \in Own : u \in Pl!Checkpoint /\ u.layer <= Pl!Last
  BY <1>1, <1>2, LastIs DEF Own, Pl!Mine, Pl!LayersOf
<1>4. ASSUME NEW u \in Halves(Pl!Checkpoint) PROVE u \in Own
  <2>1. layout.fp8 /\ u.layer \in 0 .. Pl!Last /\ u.proj \in {"q_a", "kv_a", "o", "wk"}
    BY HalfIs
  <2>2. u.layer \in Pl!LayersOf(stage.s) /\ u.proj # "expert"
    BY <1>2, <2>1, LastIs DEF Pl!LayersOf
  <2>3. u \in Pl!Checkpoint
    BY DEF Halves
  <2> QED BY <2>2, <2>3 DEF Own, Pl!Mine
<1> QED BY <1>3, <1>4

\* The layout and the stage are fixed, and with them what is to be loaded.
LEMMA OwnStays ==
    ASSUME layout' = layout, stage' = stage
    PROVE  Pl!Checkpoint' = Pl!Checkpoint /\ Own' = Own
<1>1. \A proj : Pl!Parts(proj)' = Pl!Parts(proj)
  BY DEF Pl!Parts, Pl!Halved
<1>2. Pl!Checkpoint' = Pl!Checkpoint
  BY <1>1 DEF Pl!Checkpoint, Pl!Tensors
<1>3. \A u : Pl!Mine(u)' = Pl!Mine(u)
  BY DEF Pl!Mine, Pl!LayersOf, Pl!LocalExperts
<1>4. Own' = Own
  BY <1>2, <1>3 DEF Own
<1> QED BY <1>2, <1>4

\* So a step is judged by what has arrived.
LEMMA LoadingStays ==
    ASSUME Loading, layout' = layout, stage' = stage, loading' = "done" => todo' = {},
           Filled(Pl!Checkpoint, Own, todo', pending', params')
    PROVE  Loading'
<1>1. Pl!Checkpoint' = Pl!Checkpoint /\ Own' = Own
  BY OwnStays
<1>2. Filled(Pl!Checkpoint', Own', todo', pending', params')
  BY <1>1
<1>3. Filled(Pl!Checkpoint, Own, todo, pending, params)'
  BY <1>2
<1> QED BY <1>3 DEF Loading

\* Nothing has come.
LEMMA LoadsFirst == Pl!Init => Loading
<1> SUFFICES ASSUME Pl!Init PROVE Loading
  OBVIOUS
<1>1. /\ layout.stages \in {1, 2} /\ layout.split \in 1 .. Pl!Last
      /\ layout.fp8 => layout.stages = 1
      /\ stage.s \in 0 .. layout.stages - 1
  BY DEF Pl!Init
<1>2. /\ todo = Pl!Checkpoint /\ pending = [key \in {} |-> {}] /\ loading = "on"
      /\ DOMAIN params = Pl!Shards
  BY DEF Pl!Init
<1>3. Pl!Shards = {Pl!Shard(u) : u \in Own}
  BY DEF Pl!Shards, Own
<1>4. DOMAIN pending = {}
  BY <1>2
<1>5. Own \subseteq todo
  BY <1>2 DEF Own
<1>6. ASSUME NEW u \in Halves(Pl!Checkpoint) PROVE Waits(u, todo, pending, params)
  <2>1. Pair(u) \subseteq todo /\ Pair(u) # {}
    BY <1>2, HalfIs DEF Halves
  <2>2. Pair(u) \ todo = {}
    BY <2>1
  <2> QED BY Zenon, <1>4, <2>1, <2>2 DEF Waits
<1> QED BY <1>1, <1>2, <1>3, <1>4, <1>5, <1>6 DEF Loading, Filled

\* The drafter's tensors are passed over.
LEMMA SkipLoads ==
    ASSUME Loading, NEW t \in todo, Pl!SkipSpec(t)
    PROVE  Loading'
<1>1. /\ loading = "on" /\ todo' = todo \ {t} /\ t.layer > Pl!Last
      /\ layout' = layout /\ stage' = stage /\ pending' = pending /\ params' = params
      /\ loading' = loading
  BY DEF Pl!SkipSpec, Pl!Take
<1>2. Filled(Pl!Checkpoint, Own, todo, pending, params)
  BY DEF Loading
<1>3. t \in Pl!Checkpoint
  BY <1>2 DEF Filled
<1>4. Pl!Last \in Nat BY LastIs
<1>5. t.part = "whole" /\ t \notin Own
  BY <1>1, <1>3, <1>4, TensorIs, OwnIs
<1>6. ASSUME NEW u \in Halves(Pl!Checkpoint) PROVE Waits(u, todo', pending', params')
  <2>1. t \notin Pair(u)
    BY <1>5, HalfIs DEF Halves
  <2>2. Pair(u) \ todo' = Pair(u) \ todo
    BY <1>1, <2>1
  <2>3. Waits(u, todo, pending, params)
    BY <1>2 DEF Filled
  <2> QED BY Zenon, <1>1, <2>2, <2>3 DEF Waits
<1>7. Filled(Pl!Checkpoint, Own, todo', pending', params')
  <2>1. Own \ todo' = Own \ todo
    BY <1>1, <1>5
  <2> QED BY <1>1, <1>2, <1>6, <2>1 DEF Filled
<1>8. loading' = "done" => todo' = {}
  BY <1>1
<1> QED BY <1>1, <1>7, <1>8, LoadingStays

\* A whole tensor fills the stage's shard of its name, if there is one.
LEMMA WholeLoads ==
    ASSUME Loading, NEW t \in todo, Pl!LoadWhole(t)
    PROVE  Loading'
<1>1. /\ loading = "on" /\ todo' = todo \ {t} /\ t.layer \in Pl!Layers /\ t.part = "whole"
      /\ layout' = layout /\ stage' = stage /\ pending' = pending /\ loading' = loading
      /\ IF Pl!Shard(t) \notin DOMAIN params THEN params' = params
         ELSE params' = [params EXCEPT ![Pl!Shard(t)] = Pl!Value(t, {"whole"})]
  BY DEF Pl!LoadWhole, Pl!Take, Pl!Missing, Pl!Put
<1>2. Filled(Pl!Checkpoint, Own, todo, pending, params)
  BY DEF Loading
<1>3. t \in Pl!Checkpoint
  BY <1>2 DEF Filled
<1>4. Pl!Last \in Nat /\ t.layer <= Pl!Last
  BY <1>1, LastIs
<1>5. DOMAIN params = {Pl!Shard(u) : u \in Own} /\ DOMAIN params' = DOMAIN params
  BY <1>1, <1>2 DEF Filled
<1>6. \A s \in DOMAIN params : s # Pl!Shard(t) => params'[s] = params[s]
  BY <1>1
<1>7. ASSUME NEW u \in Halves(Pl!Checkpoint) PROVE Waits(u, todo', pending', params')
  <2>1. t \notin Pair(u)
    BY <1>1, HalfIs DEF Halves
  <2>2. Pair(u) \ todo' = Pair(u) \ todo
    BY <1>1, <2>1
  <2>3. Waits(u, todo, pending, params)
    BY <1>2 DEF Filled
  <2>4. u \in Own /\ u \in Pl!Checkpoint /\ u.layer <= Pl!Last /\ u.part # "whole"
    BY OwnIs DEF Halves
  <2>5. Pl!Shard(u) # Pl!Shard(t)
    BY <1>1, <1>3, <1>4, <2>4, ShardApart
  <2>6. params'[Pl!Shard(u)] = params[Pl!Shard(u)]
    BY <1>5, <1>6, <2>4, <2>5
  <2> QED BY Zenon, <1>1, <2>2, <2>3, <2>6 DEF Waits
<1>8. ASSUME NEW u \in Own \ todo', u.part = "whole"
      PROVE  params'[Pl!Shard(u)] = Pl!Value(u, {"whole"})
  <2>1. Pl!Shard(u) \in DOMAIN params /\ u \in Pl!Checkpoint /\ u.layer <= Pl!Last
    BY <1>5, OwnIs
  <2>2. CASE u = t
    BY <1>1, <2>1, <2>2
  <2>3. CASE u # t
    <3>1. u \in Own \ todo
      BY <1>1, <2>3
    <3>2. params[Pl!Shard(u)] = Pl!Value(u, {"whole"})
      BY <1>2, <1>8, <3>1 DEF Filled
    <3>3. Pl!Shard(u) # Pl!Shard(t)
      <4>1. ASSUME Pl!Shard(u) = Pl!Shard(t) PROVE FALSE
        <5>1. u.layer = t.layer /\ u.proj = t.proj /\ u.expert = t.expert
          BY <1>3, <1>4, <2>1, <4>1, ShardApart
        <5>2. u = Named(u, u.part) /\ t = Named(t, t.part)
          BY <1>3, <2>1, TensorIs
        <5> QED BY <1>1, <1>8, <2>3, <5>1, <5>2 DEF Named
      <4> QED BY <4>1
    <3> QED BY <1>6, <2>1, <3>2, <3>3
  <2> QED BY <2>2, <2>3
<1>9. Filled(Pl!Checkpoint, Own, todo', pending', params')
  BY <1>1, <1>2, <1>5, <1>7, <1>8 DEF Filled
<1>10. loading' = "done" => todo' = {}
  BY <1>1
<1> QED BY <1>1, <1>9, <1>10, LoadingStays

\* A half waits for the other, or completes it.
LEMMA HalfLoads ==
    ASSUME Loading, NEW t \in todo, Pl!LoadHalf(t)
    PROVE  Loading'
<1> DEFINE key == Pl!Key(t)
           entry == (IF key \in DOMAIN pending THEN pending[key] ELSE {}) \cup {t}
           shard == Pl!Shard(t)
           parts == {half.part : half \in entry}
           both == Pl!Value(t, {"weight", "scale"})
<1>1. /\ loading = "on" /\ todo' = todo \ {t} /\ t.layer \in Pl!Layers /\ t.part # "whole"
      /\ layout' = layout /\ stage' = stage
      /\ IF parts # {"weight", "scale"}
         THEN /\ pending' = [k \in DOMAIN pending \cup {key} |->
                               IF k = key THEN entry ELSE pending[k]]
              /\ params' = params /\ loading' = loading
         ELSE /\ pending' = [k \in DOMAIN pending \ {key} |-> pending[k]]
              /\ IF shard \notin DOMAIN params THEN loading' = "raised" /\ params' = params
                 ELSE params' = [params EXCEPT ![shard] = Pl!Dequantized(t, entry)]
                      /\ loading' = loading
  BY DEF Pl!LoadHalf, Pl!Take, Pl!Missing, Pl!Put
<1>2. Filled(Pl!Checkpoint, Own, todo, pending, params)
  BY DEF Loading
<1>3. t \in Halves(Pl!Checkpoint)
  BY <1>1, <1>2 DEF Filled, Halves
<1>4. /\ Pair(t) = {Named(t, "weight"), Named(t, "scale")} /\ t \in Pair(t)
      /\ t = Named(t, t.part) /\ t.part \in {"weight", "scale"}
  BY <1>3, HalfIs, TensorIs DEF Pair, Halves
<1>5. Waits(t, todo, pending, params)
  BY <1>2, <1>3 DEF Filled
<1>6. shard \in DOMAIN params
  BY <1>2, <1>3, OwnIs DEF Filled
<1> HIDE DEF key, shard
<1>7. PICK mate : /\ Pair(t) = {t, mate} /\ mate # t /\ {t.part, mate.part} = {"weight", "scale"}
                  /\ mate.proj = t.proj
  <2>1. Named(t, "weight").part = "weight" /\ Named(t, "scale").part = "scale"
        /\ Named(t, "weight").proj = t.proj /\ Named(t, "scale").proj = t.proj
    BY DEF Named
  <2>2. CASE t.part = "weight"
    BY <1>4, <2>1, <2>2
  <2>3. CASE t.part = "scale"
    BY <1>4, <2>1, <2>3
  <2> QED BY <1>4, <2>2, <2>3
<1>8. CASE mate \in todo
  <2>1. Pair(t) \ todo = {} /\ Pair(t) \ todo' = {t}
    BY <1>1, <1>7, <1>8
  <2>2. key \notin DOMAIN pending
    BY <1>5, <2>1 DEF Waits, key
  <2>3. entry = {t} /\ parts = {t.part}
    BY <2>2
  <2> HIDE DEF entry, parts
  <2>4. parts # {"weight", "scale"}
    <3>1. "weight" # "scale"
      OBVIOUS
    <3>2. ASSUME {t.part} = {"weight", "scale"} PROVE FALSE
      <4>1. "weight" \in {t.part} /\ "scale" \in {t.part}
        BY <3>2
      <4> QED BY <3>1, <4>1
    <3> QED BY Zenon, <2>3, <3>2
  <2>5. /\ params' = params /\ loading' = loading
        /\ DOMAIN pending' = DOMAIN pending \cup {key} /\ pending'[key] = {t}
        /\ \A k \in DOMAIN pending : k # key => pending'[k] = pending[k]
    BY <1>1, <2>3, <2>4
  <2>6. ASSUME NEW u \in Halves(Pl!Checkpoint) PROVE Waits(u, todo', pending', params')
    <3>1. CASE u \in Pair(t)
      <4>1. Pair(u) = Pair(t) /\ Pl!Key(u) = key
        BY <1>3, <3>1, KeyApart DEF key
      <4>2. Pair(u) \ todo' = {t} /\ {t} # {} /\ {t} # Pair(u)
        BY <1>7, <2>1, <4>1
      <4> QED BY <2>5, <4>1, <4>2 DEF Waits
    <3>2. CASE u \notin Pair(t)
      <4>1. Pl!Key(u) # key
        BY <1>3, <3>2, KeyApart DEF key
      <4>2. t \notin Pair(u)
        BY <1>3, <3>2, KeyApart, HalfIs
      <4>3. Pair(u) \ todo' = Pair(u) \ todo
        BY <1>1, <4>2
      <4>4. Waits(u, todo, pending, params)
        BY <1>2 DEF Filled
      <4>5. Pl!Key(u) \in DOMAIN pending' <=> Pl!Key(u) \in DOMAIN pending
        BY <2>5, <4>1
      <4> QED BY <2>5, <4>1, <4>3, <4>4, <4>5 DEF Waits
    <3> QED BY <3>1, <3>2
  <2>7. \A k \in DOMAIN pending' : \E u \in Halves(Pl!Checkpoint) : k = Pl!Key(u)
    BY <1>2, <1>3, <2>5 DEF Filled, key
  <2>8. ASSUME NEW u \in Own \ todo', u.part = "whole" PROVE u \in Own \ todo
    BY <1>1, <2>8
  <2>9. Filled(Pl!Checkpoint, Own, todo', pending', params')
    BY <1>1, <1>2, <2>5, <2>6, <2>7, <2>8 DEF Filled
  <2>10. loading' = "done" => todo' = {}
    BY <1>1, <2>5
  <2> QED BY <1>1, <2>9, <2>10, LoadingStays
<1>9. CASE mate \notin todo
  <2>1. Pair(t) \ todo = {mate} /\ Pair(t) \ todo' = Pair(t)
    BY <1>1, <1>7, <1>9
  <2>2. key \in DOMAIN pending /\ pending[key] = {mate}
    <3>1. {mate} # {} /\ {mate} # Pair(t)
      BY <1>7
    <3> QED BY <1>5, <2>1, <3>1 DEF Waits, key
  <2>3. entry = Pair(t) /\ parts = {"weight", "scale"}
    BY <1>7, <2>2
  <2>4. Pl!Dequantized(t, entry) = both
    <3>1. \A half \in entry : half.proj = t.proj
      BY <1>7, <2>3
    <3> HIDE DEF entry
    <3>2. {half.part : half \in entry} = {"weight", "scale"}
      BY <2>3
    <3> QED BY <3>1, <3>2 DEF Pl!Dequantized, Pl!Value
  <2> HIDE DEF entry, parts, both
  <2>5. /\ DOMAIN pending' = DOMAIN pending \ {key}
        /\ \A k \in DOMAIN pending : k # key => pending'[k] = pending[k]
        /\ params' = [params EXCEPT ![shard] = both] /\ loading' = loading
    BY <1>1, <1>6, <2>3, <2>4
  <2>6. /\ DOMAIN params' = DOMAIN params /\ params'[shard] = both
        /\ \A s \in DOMAIN params : s # shard => params'[s] = params[s]
    BY <1>6, <2>5
  <2>7. ASSUME NEW u \in Halves(Pl!Checkpoint) PROVE Waits(u, todo', pending', params')
    <3>1. CASE u \in Pair(t)
      <4>1. Pair(u) = Pair(t) /\ Pl!Key(u) = key /\ Pl!Shard(u) = shard
            /\ Pl!Value(u, {"weight", "scale"}) = both
        BY <1>3, <3>1, KeyApart DEF key, shard, both
      <4>2. Pair(u) \ todo' = Pair(u) /\ Pair(u) # {}
        BY <1>7, <2>1, <4>1
      <4> QED BY <2>5, <2>6, <4>1, <4>2 DEF Waits
    <3>2. CASE u \notin Pair(t)
      <4>1. Pl!Key(u) # key
        BY <1>3, <3>2, KeyApart DEF key
      <4>2. t \notin Pair(u)
        BY <1>3, <3>2, KeyApart, HalfIs
      <4>3. Pair(u) \ todo' = Pair(u) \ todo
        BY <1>1, <4>2
      <4>4. Waits(u, todo, pending, params)
        BY <1>2 DEF Filled
      <4>5. Pl!Key(u) \in DOMAIN pending' <=> Pl!Key(u) \in DOMAIN pending
        BY <2>5, <4>1
      <4>6. Pl!Shard(u) \in DOMAIN params /\ Pl!Shard(u) # shard
        <5>1. Pl!Shard(u) \in DOMAIN params
          BY <1>2, OwnIs DEF Filled
        <5>2. ASSUME Pl!Shard(u) = Pl!Shard(t) PROVE FALSE
          <6>1. u \in Pl!Checkpoint /\ t \in Pl!Checkpoint /\ u.layer <= Pl!Last
                /\ t.layer <= Pl!Last
            BY <1>3, OwnIs
          <6>2. u.layer = t.layer /\ u.proj = t.proj
            BY <5>2, <6>1, ShardApart
          <6>3. Pl!Key(u) = Pl!Key(t)
            BY <6>2 DEF Pl!Key
          <6> QED BY <4>1, <6>3 DEF key
        <5> QED BY <5>1, <5>2 DEF shard
      <4>7. params'[Pl!Shard(u)] = params[Pl!Shard(u)]
        BY <2>6, <4>6
      <4> QED BY <2>5, <4>1, <4>3, <4>4, <4>5, <4>7 DEF Waits
    <3> QED BY <3>1, <3>2
  <2>8. \A k \in DOMAIN pending' : \E u \in Halves(Pl!Checkpoint) : k = Pl!Key(u)
    BY <1>2, <2>5 DEF Filled
  <2>9. ASSUME NEW u \in Own \ todo', u.part = "whole"
        PROVE  params'[Pl!Shard(u)] = Pl!Value(u, {"whole"})
    <3>1. u \in Own \ todo
      BY <1>1, <1>3, <2>9 DEF Halves
    <3>2. params[Pl!Shard(u)] = Pl!Value(u, {"whole"}) /\ Pl!Shard(u) \in DOMAIN params
      BY <1>2, <2>9, <3>1 DEF Filled
    <3>3. Pl!Shard(u) # shard
      <4>1. u \in Pl!Checkpoint /\ t \in Pl!Checkpoint /\ u.layer <= Pl!Last
            /\ t.layer <= Pl!Last
        BY <1>3, OwnIs
      <4>2. t.part # "whole"
        BY <1>1
      <4> QED BY <2>9, <4>1, <4>2, ShardApart DEF shard
    <3> QED BY <2>6, <3>2, <3>3
  <2>10. Filled(Pl!Checkpoint, Own, todo', pending', params')
    BY <1>1, <1>2, <2>6, <2>7, <2>8, <2>9 DEF Filled
  <2>11. loading' = "done" => todo' = {}
    BY <1>1, <2>5
  <2> QED BY <1>1, <2>10, <2>11, LoadingStays
<1> QED BY <1>8, <1>9

\* The load ends when all has come.
LEMMA EndLoads == Loading /\ Pl!EndLoad => Loading'
<1> SUFFICES ASSUME Loading, Pl!EndLoad PROVE Loading'
  OBVIOUS
<1>1. /\ todo = {} /\ todo' = todo /\ layout' = layout /\ stage' = stage
      /\ pending' = pending /\ params' = params
  BY DEF Pl!EndLoad
<1>2. Filled(Pl!Checkpoint, Own, todo', pending', params')
  BY <1>1 DEF Loading
<1> QED BY <1>1, <1>2, LoadingStays

\* Then every shard the stage has is whole, and no half is left.
LEMMA LoadedWhole == Loading => Pl!LoadedIsWhole
<1> SUFFICES ASSUME Loading, loading = "done"
             PROVE  /\ DOMAIN pending = {}
                    /\ \A t \in Pl!Checkpoint : Pl!Mine(t) =>
                         params[Pl!Shard(t)] = Pl!Value(t, Pl!Parts(t.proj))
  BY DEF Pl!LoadedIsWhole
<1>1. todo = {} /\ Filled(Pl!Checkpoint, Own, todo, pending, params)
  BY DEF Loading
<1>2. ASSUME NEW u \in Halves(Pl!Checkpoint)
      PROVE  /\ Pl!Key(u) \notin DOMAIN pending
             /\ params[Pl!Shard(u)] = Pl!Value(u, {"weight", "scale"})
  <2>1. Waits(u, todo, pending, params)
    BY <1>1 DEF Filled
  <2>2. Pair(u) \ todo = Pair(u)
    BY <1>1
  <2> QED BY <2>1, <2>2 DEF Waits
<1>3. DOMAIN pending = {}
  BY <1>1, <1>2 DEF Filled
<1>4. ASSUME NEW t \in Pl!Checkpoint, Pl!Mine(t)
      PROVE  params[Pl!Shard(t)] = Pl!Value(t, Pl!Parts(t.proj))
  <2>1. t \in Own /\ t.layer <= Pl!Last
    BY <1>4, OwnIs DEF Own
  <2>2. CASE t.part # "whole"
    <3>1. t \in Halves(Pl!Checkpoint)
      BY <2>2 DEF Halves
    <3>2. Pl!Parts(t.proj) = {"weight", "scale"}
      BY <3>1, HalfIs
    <3> QED BY <1>2, <3>1, <3>2
  <2>3. CASE t.part = "whole"
    <3>1. Pl!Parts(t.proj) = {"whole"}
      <4>1. Pl!Last \in Nat BY LastIs
      <4>2. CASE t.part \in Pl!Parts(t.proj)
        BY <2>3, <4>2 DEF Pl!Parts
      <4>3. CASE t.proj = "expert"
        BY <4>3 DEF Pl!Parts, Pl!Halved
      <4> QED BY <2>1, <4>1, <4>2, <4>3, TensorIs
    <3>2. params[Pl!Shard(t)] = Pl!Value(t, {"whole"})
      BY <1>1, <2>1, <2>3 DEF Filled
    <3> QED BY <3>1, <3>2
  <2> QED BY <2>2, <2>3
<1> QED BY <1>3, <1>4

-----------------------------------------------------------------------------
(* A behaviour whose subject is a model that is loaded and run.               *)

PlInv == subject = "pipeline" => Loading /\ Forward

\* What a load leaves alone, and a forward.
LEMMA ForwardStays ==
    ASSUME Forward, layout' = layout, UNCHANGED <<sent, flight, wire, buffers, results>>
    PROVE  Forward'
BY DEF Forward
LEMMA LoadStays ==
    ASSUME Loading, UNCHANGED <<layout, stage, todo, pending, params, loading>>
    PROVE  Loading'
<1>1. Filled(Pl!Checkpoint, Own, todo', pending', params')
  BY DEF Loading
<1>2. loading' = "done" => todo' = {}
  BY DEF Loading
<1> QED BY <1>1, <1>2, LoadingStays

\* A step of a model keeps to it.
LEMMA PlKept == PlInv /\ [MCNext]_<<vars, subject, pipelineVars, kdaVars, selectionVars>> => PlInv'
<1> SUFFICES ASSUME PlInv, subject' = "pipeline",
                    [MCNext]_<<vars, subject, pipelineVars, kdaVars, selectionVars>>
             PROVE  (Loading /\ Forward)'
  BY DEF PlInv
<1>1. CASE UNCHANGED pipelineVars /\ subject' = subject
  BY <1>1, ForwardStays, LoadStays DEF PlInv, pipelineVars
<1>2. CASE /\ subject = "pipeline"
           /\ \/ \E t \in todo : Pl!SkipSpec(t) \/ Pl!LoadWhole(t) \/ Pl!LoadHalf(t)
              \/ Pl!EndLoad
  <2>1. Loading /\ Forward
    BY <1>2 DEF PlInv
  <2>2. Loading'
    BY <1>2, <2>1, SkipLoads, WholeLoads, HalfLoads, EndLoads
  <2>3. layout' = layout /\ UNCHANGED <<sent, flight, wire, buffers, results>>
    BY <1>2 DEF Pl!SkipSpec, Pl!LoadWhole, Pl!LoadHalf, Pl!EndLoad, Pl!forward
  <2> QED BY <2>1, <2>2, <2>3, ForwardStays
<1>3. CASE /\ subject = "pipeline"
           /\ \/ Pl!Embed \/ Pl!Receive
              \/ \E s \in {0, 1} : Pl!RunLayer(s) \/ Pl!SendOn(s) \/ Pl!Return(s)
  <2>1. Loading /\ Forward
    BY <1>3 DEF PlInv
  <2>2. Forward'
    BY <1>3, <2>1, EmbedFlows, ReceiveFlows, RunFlows, SendFlows, ReturnFlows
  <2>3. UNCHANGED <<layout, stage, todo, pending, params, loading>>
    BY <1>3 DEF Pl!Embed, Pl!Receive, Pl!RunLayer, Pl!SendOn, Pl!Return, Pl!loads
  <2> QED BY <2>1, <2>2, <2>3, LoadStays
<1>4. \A it : Only(it) => subject = it /\ subject' = it /\ (it # "pipeline" => UNCHANGED pipelineVars)
  BY DEF Only
<1>5. CASE Only("pipeline") /\ MCNext
  <2>1. subject = "pipeline"
    BY <1>4, <1>5
  <2> QED BY <1>2, <1>3, <1>4, <1>5, <2>1 DEF MCNext
<1>6. CASE MCNext /\ ~Only("pipeline")
  <2>1. Only("ring") \/ Only("kda") \/ Only("selection")
    BY <1>6 DEF MCNext
  <2>2. UNCHANGED pipelineVars /\ subject' = subject
    BY <1>4, <2>1
  <2> QED BY <1>1, <2>2
<1>7. CASE UNCHANGED <<vars, subject, pipelineVars, kdaVars, selectionVars>>
  BY <1>1, <1>7
<1> QED BY <1>5, <1>6, <1>7

\* For any layers of either kind, any experts and any number of batches: a stage's
\* parameters are whole when its load ends, in whatever order the halves came, and two
\* stages compute what one computes, batch by batch.
THEOREM StagesWhole == MCSpec => []StagesAreWhole
<1>1. MCInit => PlInv
  <2> SUFFICES ASSUME MCInit, subject = "pipeline" PROVE Loading /\ Forward
    BY DEF PlInv
  <2>1. Pl!Init
    BY DEF MCInit
  <2> QED BY <2>1, LoadsFirst, FlowsFirst
<1>2. PlInv => StagesAreWhole
  <2> SUFFICES ASSUME subject = "pipeline", Loading, Forward
               PROVE  Pl!LoadedIsWhole /\ Pl!StagesAgree
    BY DEF PlInv, StagesAreWhole
  <2>1. Pl!LoadedIsWhole
    BY LoadedWhole
  <2>2. ASSUME NEW i \in DOMAIN results PROVE results[i] = Pl!Reference(i)
    <3>1. results \in Seq(Seq(Items)) /\ \A j \in 1 .. Len(results) : results[j] = Final(j)
      BY DEF Forward
    <3>2. i \in 1 .. Len(results) /\ i \in Nat
      BY <3>1
    <3>3. Pl!Reference(i) = Final(i)
      BY <3>2, ReferenceIs
    <3> QED BY <3>1, <3>2, <3>3
  <2> QED BY <2>1, <2>2 DEF Pl!StagesAgree
<1>3. PlInv /\ [MCNext]_<<vars, subject, pipelineVars, kdaVars, selectionVars>> => PlInv'
  BY PlKept
<1> QED BY <1>1, <1>2, <1>3, PTL DEF MCSpec

-----------------------------------------------------------------------------
(* A linear-attention layer: what one row does.                               *)

\* The tokens of a request's text, by place, with what is before it; a row's; and what a
\* row's kernels see: the window of the text before it, and its own.
Tokens == [life : Nat, at : Nat, wrong : BOOLEAN]
W == ConvSize - 1
Text(l, p) == IF p <= 0 THEN Ka!Zero ELSE [life |-> l, at |-> p, wrong |-> FALSE]
Of(l, row, j) == [life |-> l, at |-> row.base + j, wrong |-> j > row.kept]
Before(l, row) == [i \in 1 .. W |-> Text(l, row.base - W + i)]
OwnTokens(l, row) == [j \in 1 .. row.n |-> Of(l, row, j)]
Seen(l, row) ==
  [i \in 1 .. W + row.n |-> IF i <= W THEN Text(l, row.base - W + i) ELSE Of(l, row, i - W)]

\* A row that vLLM may schedule, of a request l.
RowWell(row, l) ==
  /\ l \in Nat \ {0} /\ row.base \in Nat /\ row.n \in Nat \ {0} /\ row.kept \in 1 .. row.n
  /\ row.drafted \in BOOLEAN
  /\ row.drafted => row.n <= 1 + Speculated /\ row.base > 0
  /\ ~row.drafted => row.kept = row.n
  /\ row.base = 0 => row.n > 1

\* The states of a request's columns are of its text, up to the d-th token.
Known(c, states, a, l, d) ==
  /\ a \in 1 .. 1 + Speculated
  /\ d > 0 => /\ states[a] = Text(l, d)
              /\ c \in Seq(Tokens) /\ a + W - 1 <= Len(c)
              /\ \A i \in 1 .. W : c[a + i - 1] = Text(l, d - W + i)

\* A function of 1 .. m is a sequence.
LEMMA FunSeq ==
    ASSUME NEW S, NEW m \in Nat, NEW f \in [1 .. m -> S]
    PROVE  f \in Seq(S) /\ Len(f) = m
BY SeqDef, LenProperties

\* A piece of a sequence.
LEMMA Piece ==
    ASSUME NEW S, NEW s \in Seq(S), NEW m \in Nat, NEW n \in Nat, 1 <= m, m <= n + 1, n <= Len(s)
    PROVE  /\ SubSeq(s, m, n) \in Seq(S) /\ Len(SubSeq(s, m, n)) = n - m + 1
           /\ \A i \in 1 .. n - m + 1 : SubSeq(s, m, n)[i] = s[m + i - 1]
<1> DEFINE p == SubSeq(s, m, n)
<1>1. \A i \in m .. n : s[i] \in S
  OBVIOUS
<1>2. m \in Int /\ n \in Int
  OBVIOUS
<1>3. p \in Seq(S) /\ Len(p) = (IF m <= n THEN n - m + 1 ELSE 0)
      /\ \A i \in 1 .. n - m + 1 : p[i] = s[m + i - 1]
  BY <1>1, <1>2, SubSeqProperties
<1> HIDE DEF p
<1>4. Len(p) = n - m + 1
  BY <1>3
<1> QED BY <1>3, <1>4 DEF p

\* The window is the kernel's width but one.
LEMMA WIs == W \in Nat /\ ConvSize = W + 1 /\ Speculated \in Nat
BY KdaAssumption DEF W

\* A text's tokens are tokens.
LEMMA TextIs == ASSUME NEW l \in Nat, NEW p \in Int PROVE Text(l, p) \in Tokens
BY DEF Text, Tokens, Ka!Zero

\* So are a row's.
LEMMA OfIs == ASSUME NEW l, NEW row, RowWell(row, l), NEW j \in 1 .. row.n
              PROVE  Of(l, row, j) \in Tokens
BY DEF Of, Tokens, RowWell

\* The text and the row's tokens follow one another.
LEMMA TextFollows ==
    ASSUME NEW l \in Nat \ {0}, NEW p \in Int
    PROVE  Ka!Follows(Text(l, p + 1), Text(l, p))
<1>1. CASE p <= 0
  <2>1. Text(l, p) = Ka!Zero
    BY <1>1 DEF Text
  <2>2. Text(l, p + 1).at <= 1 /\ Text(l, p + 1) # Ka!Astray
    BY <1>1 DEF Text, Ka!Zero, Ka!Astray
  <2> QED BY <2>1, <2>2 DEF Ka!Follows
<1>2. CASE p > 0
  <2>1. Text(l, p) # Ka!Zero
    BY <1>2 DEF Text, Ka!Zero
  <2>2. /\ Text(l, p + 1).life = Text(l, p).life /\ Text(l, p + 1).at = Text(l, p).at + 1
        /\ ~Text(l, p).wrong
    BY <1>2 DEF Text
  <2> QED BY <2>1, <2>2 DEF Ka!Follows
<1> QED BY <1>1, <1>2

\* A row's first token follows the text before it.
LEMMA FirstFollows ==
    ASSUME NEW l, NEW row, RowWell(row, l)
    PROVE  Ka!Follows(Of(l, row, 1), Text(l, row.base))
<1>1. Of(l, row, 1) = Text(l, row.base + 1)
  <2>1. (1 > row.kept) = FALSE /\ ~(row.base + 1 <= 0)
    BY DEF RowWell
  <2> QED BY <2>1 DEF Of, Text
<1>2. Ka!Follows(Text(l, row.base + 1), Text(l, row.base))
  BY TextFollows DEF RowWell
<1> QED BY <1>1, <1>2

\* A row's next token follows the one before.
LEMMA OfFollows ==
    ASSUME NEW l, NEW row, RowWell(row, l), NEW j \in Nat \ {0}
    PROVE  Ka!Follows(Of(l, row, j + 1), Of(l, row, j))
<1>1. Of(l, row, j) # Ka!Zero
  BY DEF Of, Ka!Zero, RowWell
<1>2. /\ Of(l, row, j + 1).life = Of(l, row, j).life
      /\ Of(l, row, j + 1).at = Of(l, row, j).at + 1
      /\ Of(l, row, j).wrong => Of(l, row, j + 1).wrong
  BY DEF Of, RowWell
<1> QED BY <1>1, <1>2 DEF Ka!Follows

\* So do all that the kernels see.
LEMMA SeenFollows ==
    ASSUME NEW l, NEW row, RowWell(row, l), NEW i \in 1 .. W + row.n - 1
    PROVE  Ka!Follows(Seen(l, row)[i + 1], Seen(l, row)[i])
<1>0. W \in Nat /\ row.n \in Nat \ {0} /\ row.base \in Nat /\ l \in Nat \ {0}
  BY WIs DEF RowWell
<1>1. CASE i + 1 <= W
  <2>1. Seen(l, row)[i + 1] = Text(l, row.base - W + i + 1)
        /\ Seen(l, row)[i] = Text(l, row.base - W + i)
    BY <1>0, <1>1 DEF Seen
  <2> QED BY <1>0, <2>1, TextFollows
<1>2. CASE i = W
  <2>1. Seen(l, row)[i + 1] = Of(l, row, 1) /\ Seen(l, row)[i] = Text(l, row.base)
    BY <1>0, <1>2 DEF Seen
  <2> QED BY <2>1, FirstFollows
<1>3. CASE i > W
  <2>1. Seen(l, row)[i + 1] = Of(l, row, (i - W) + 1) /\ Seen(l, row)[i] = Of(l, row, i - W)
    BY <1>0, <1>3 DEF Seen
  <2>2. i - W \in Nat \ {0}
    BY <1>0, <1>3
  <2> QED BY Zenon, <2>1, <2>2, OfFollows
<1> QED BY <1>0, <1>1, <1>2, <1>3

\* The convolution gives each of the row's tokens.
LEMMA ConvolvedIs ==
    ASSUME NEW l, NEW row, RowWell(row, l), NEW j \in 1 .. row.n
    PROVE  Ka!Convolved(Seen(l, row), j) = Of(l, row, j)
<1>0. W \in Nat /\ ConvSize = W + 1 /\ row.n \in Nat
  BY WIs DEF RowWell
<1>1. ASSUME NEW k \in j .. j + ConvSize - 2
      PROVE  Ka!Follows(Seen(l, row)[k + 1], Seen(l, row)[k])
  <2>1. k \in 1 .. W + row.n - 1
    BY <1>0
  <2> QED BY <2>1, SeenFollows
<1>2. Seen(l, row)[j + ConvSize - 1] = Of(l, row, j)
  BY <1>0 DEF Seen
<1> QED BY <1>1, <1>2 DEF Ka!Convolved

\* The window before a row and its tokens are what the kernels see.
LEMMA SeenIs ==
    ASSUME NEW l, NEW row, RowWell(row, l)
    PROVE  /\ Before(l, row) \o OwnTokens(l, row) = Seen(l, row)
           /\ Seen(l, row) \in Seq(Tokens) /\ Len(Seen(l, row)) = W + row.n
           /\ OwnTokens(l, row) \in Seq(Tokens) /\ Len(OwnTokens(l, row)) = row.n
<1>0. W \in Nat /\ row.n \in Nat /\ row.base \in Nat /\ l \in Nat
  BY WIs DEF RowWell
<1>1. Before(l, row) \in [1 .. W -> Tokens]
  BY <1>0, TextIs DEF Before
<1>2. OwnTokens(l, row) \in [1 .. row.n -> Tokens]
  BY OfIs DEF OwnTokens
<1>3. Seen(l, row) \in [1 .. W + row.n -> Tokens]
  <2>1. ASSUME NEW i \in 1 .. W + row.n PROVE Seen(l, row)[i] \in Tokens
    <3>1. CASE i <= W
      BY <1>0, <3>1, TextIs DEF Seen
    <3>2. CASE i > W
      <4>1. i - W \in 1 .. row.n /\ ~(i <= W)
        BY <1>0, <3>2
      <4>2. Seen(l, row)[i] = Of(l, row, i - W)
        BY <4>1 DEF Seen
      <4> QED BY <4>1, <4>2, OfIs
    <3> QED BY <1>0, <3>1, <3>2
  <2> QED BY <2>1 DEF Seen
<1> DEFINE b == Before(l, row)
           o == OwnTokens(l, row)
           s == Seen(l, row)
<1>4. /\ b \in Seq(Tokens) /\ Len(b) = W /\ o \in Seq(Tokens) /\ Len(o) = row.n
  BY <1>0, <1>1, <1>2, FunSeq
<1>5. s \in Seq(Tokens) /\ Len(s) = W + row.n
  <2>1. W + row.n \in Nat
    BY <1>0
  <2> QED BY Zenon, <1>3, <2>1, FunSeq
<1>6. \A i \in 1 .. W : s[i] = b[i]
  BY <1>0 DEF Seen, Before
<1>7. \A j \in 1 .. row.n : s[W + j] = o[j]
  BY <1>0 DEF Seen, OwnTokens
<1> HIDE DEF b, o, s
<1>8. b \o o = s
  <2> DEFINE joined == b \o o
  <2>1. joined \in Seq(Tokens) /\ Len(joined) = W + row.n
    <3>1. joined \in Seq(Tokens) /\ Len(joined) = Len(b) + Len(o)
      BY Zenon, <1>4, ConcatProperties
    <3> HIDE DEF joined
    <3> QED BY <1>4, <3>1
  <2>2. \A i \in 1 .. W + row.n : joined[i] = IF i <= W THEN b[i] ELSE o[i - W]
    BY <1>4, ConcatProperties
  <2> HIDE DEF joined
  <2>3. ASSUME NEW i \in 1 .. Len(s) PROVE joined[i] = s[i]
    <3>1. i \in 1 .. W + row.n
      BY <1>5
    <3>2. CASE i <= W
      BY <1>0, <1>6, <2>2, <3>1, <3>2
    <3>3. CASE i > W
      <4>1. i - W \in 1 .. row.n /\ W + (i - W) = i /\ ~(i <= W)
        BY <1>0, <3>1, <3>3
      <4>2. s[i] = o[i - W]
        BY <1>7, <4>1
      <4> QED BY <2>2, <3>1, <4>1, <4>2
    <3> QED BY <1>0, <3>1, <3>2, <3>3
  <2>4. joined = s
    BY <1>5, <2>1, <2>3, SeqEqual
  <2> QED BY <2>4 DEF joined
<1> QED BY <1>4, <1>5, <1>8 DEF b, o, s

\* The recurrence runs through them: upTo is chosen, and what it is follows from a least
\* place where it is not.
LEMMA AttendedIs ==
    ASSUME NEW row, NEW l, RowWell(row, l), Ka!Initial(row) = Text(l, row.base)
    PROVE  Ka!Attended(row, Seen(l, row)) = OwnTokens(l, row)
<1> DEFINE all == Seen(l, row)
           Step(before, j) == Append(before, IF Ka!Follows(Ka!Convolved(all, j), before[j])
                                             THEN Ka!Convolved(all, j) ELSE Ka!Astray)
           Is(g) == g = [j \in 0 .. row.n |-> IF j = 0 THEN <<Ka!Initial(row)>>
                                              ELSE Step(g[j - 1], j)]
           Upto(j) == [i \in 1 .. j + 1 |-> IF i = 1 THEN Text(l, row.base) ELSE Of(l, row, i - 1)]
           texts == [j \in 0 .. row.n |-> Upto(j)]
           upTo == CHOOSE g : Is(g)
<1>0. row.n \in Nat \ {0} /\ row.base \in Nat /\ l \in Nat \ {0}
  BY DEF RowWell
<1>1. ASSUME NEW j \in 0 .. row.n PROVE Upto(j) \in Seq(Tokens) /\ Len(Upto(j)) = j + 1
  <2>1. ASSUME NEW i \in 1 .. j + 1 PROVE Upto(j)[i] \in Tokens
    <3>1. CASE i = 1
      BY <1>0, <3>1, TextIs
    <3>2. CASE i # 1
      <4>1. i - 1 \in 1 .. row.n
        BY <1>0, <3>2
      <4> QED BY <3>2, <4>1, OfIs
    <3> QED BY <3>1, <3>2
  <2>2. Upto(j) \in [1 .. j + 1 -> Tokens]
    BY <2>1
  <2>3. j + 1 \in Nat
    BY <1>0
  <2> HIDE DEF Upto
  <2> QED BY Zenon, <2>2, <2>3, FunSeq
<1>2. Upto(0) = <<Text(l, row.base)>>
  OBVIOUS
<1>3. ASSUME NEW j \in 1 .. row.n PROVE Upto(j) = Step(Upto(j - 1), j)
  <2> DEFINE before == Upto(j - 1)
             item == Of(l, row, j)
             more == Append(before, item)
             now == Upto(j)
  <2>1. j - 1 \in 0 .. row.n /\ j \in 0 .. row.n
    BY <1>0
  <2>2. before \in Seq(Tokens) /\ Len(before) = j
    <3>1. before \in Seq(Tokens) /\ Len(before) = (j - 1) + 1
      BY <1>1, <2>1
    <3> QED BY <1>0, <3>1
  <2>3. now \in Seq(Tokens) /\ Len(now) = j + 1
    BY <1>1, <2>1
  <2>4. Ka!Convolved(all, j) = item
    BY ConvolvedIs
  <2>5. Ka!Follows(item, before[j])
    <3>1. CASE j = 1
      <4>1. before[j] = Text(l, row.base)
        BY <3>1
      <4> QED BY <3>1, <4>1, FirstFollows
    <3>2. CASE j # 1
      <4>1. j - 1 \in Nat \ {0} /\ (j - 1) + 1 = j /\ j \in 1 .. (j - 1) + 1
        BY <1>0, <3>2
      <4>2. before[j] = Of(l, row, j - 1)
        BY <3>2, <4>1
      <4>3. Ka!Follows(Of(l, row, (j - 1) + 1), Of(l, row, j - 1))
        BY Zenon, <4>1, OfFollows
      <4> QED BY <4>1, <4>2, <4>3
    <3> QED BY <3>1, <3>2
  <2>6. item \in Tokens
    BY OfIs
  <2>7. \A i \in 1 .. j : now[i] = before[i]
    BY <1>0
  <2>8. now[j + 1] = item
    BY <1>0
  <2> HIDE DEF before, item, now
  <2>9. more \in Seq(Tokens) /\ Len(more) = Len(before) + 1
        /\ \A i \in 1 .. Len(before) : more[i] = before[i]
        /\ more[Len(before) + 1] = item
    BY <2>2, <2>6, AppendProperties
  <2> HIDE DEF more
  <2>10. ASSUME NEW i \in 1 .. Len(now) PROVE more[i] = now[i]
    <3>1. i \in 1 .. j + 1
      BY <2>3
    <3>2. CASE i = j + 1
      BY <2>2, <2>8, <2>9, <3>2
    <3>3. CASE i # j + 1
      BY <1>0, <2>2, <2>7, <2>9, <3>1, <3>3
    <3> QED BY <3>2, <3>3
  <2>11. more = now
    <3>1. Len(more) = Len(now)
      BY <2>2, <2>3, <2>9
    <3> QED BY Zenon, <2>3, <2>9, <2>10, <3>1, SeqEqual
  <2>12. Step(before, j) = more
    BY Zenon, <2>4, <2>5 DEF more
  <2> QED BY Zenon, <2>11, <2>12 DEF now, before
<1> HIDE DEF Step
<1>4. Is(texts)
  <2>1. ASSUME NEW j \in 1 .. row.n PROVE texts[j] = Step(texts[j - 1], j)
    <3>1. j \in 0 .. row.n /\ j - 1 \in 0 .. row.n
      BY <1>0
    <3> HIDE DEF Upto
    <3>2. texts[j] = Upto(j) /\ texts[j - 1] = Upto(j - 1)
      BY <3>1
    <3> HIDE DEF texts
    <3> QED BY Zenon, <1>3, <3>2
  <2>2. texts[0] = <<Ka!Initial(row)>>
    <3>1. 0 \in 0 .. row.n
      BY <1>0
    <3> HIDE DEF Upto
    <3> QED BY <1>2, <3>1
  <2>3. ASSUME NEW j \in 0 .. row.n, j # 0 PROVE j \in 1 .. row.n
    BY <1>0, <2>3
  <2>4. texts = [j \in 0 .. row.n |-> texts[j]]
    OBVIOUS
  <2> HIDE DEF texts
  <2>5. \A j \in 0 .. row.n : texts[j] = IF j = 0 THEN <<Ka!Initial(row)>>
                                         ELSE Step(texts[j - 1], j)
    BY Zenon, <2>1, <2>2, <2>3
  <2> QED BY <2>4, <2>5
<1>5. Is(upTo)
  <2> HIDE DEF Is, texts
  <2> QED BY <1>4
<1>6. Ka!Attended(row, all) = Tail(upTo[row.n])
  BY DEF Ka!Attended, Step
<1> HIDE DEF upTo, Upto
<1>7. upTo[0] = Upto(0)
  <2>1. 0 \in 0 .. row.n
    BY <1>0
  <2> QED BY Zenon, <1>2, <1>5, <2>1
<1>8. ASSUME NEW j \in 1 .. row.n PROVE upTo[j] = Step(upTo[j - 1], j)
  <2>1. j \in 0 .. row.n /\ j # 0
    BY <1>0
  <2> QED BY Zenon, <1>5, <2>1
<1>9. upTo[row.n] = Upto(row.n)
  <2> DEFINE Bad == {j \in 0 .. row.n : upTo[j] # Upto(j)}
  <2>1. ASSUME NEW j \in Bad PROVE j - 1 \in Bad
    <3>1. j \in 1 .. row.n
      BY <1>0, <1>7
    <3>2. j - 1 \in 0 .. row.n
      BY <1>0, <3>1
    <3> QED BY <1>3, <1>8, <3>1, <3>2
  <2>2. Bad \subseteq Nat
    BY <1>0
  <2> HIDE DEF Bad
  <2>3. Bad = {}
    <3>1. ASSUME Bad # {} PROVE FALSE
      <4>1. PICK j \in Bad : \A k \in Bad : j <= k
        BY <2>2, <3>1, LeastIn
      <4>2. j - 1 \in Bad /\ j \in Nat
        BY <2>1, <2>2, <4>1
      <4> QED BY <2>2, <4>1, <4>2
    <3> QED BY <3>1
  <2> QED BY <1>0, <2>3 DEF Bad
<1>10. Tail(Upto(row.n)) = OwnTokens(l, row)
  <2> DEFINE u == Upto(row.n)
             o == OwnTokens(l, row)
             rest == Tail(u)
  <2>1. u \in Seq(Tokens) /\ Len(u) = row.n + 1
    BY <1>0, <1>1
  <2>2. o \in Seq(Tokens) /\ Len(o) = row.n
    BY SeenIs
  <2>3. \A j \in 1 .. row.n : o[j] = u[j + 1]
    BY <1>0 DEF OwnTokens, Upto
  <2> HIDE DEF u, o
  <2>4. u # <<>>
    BY <1>0, <2>1
  <2>5. rest \in Seq(Tokens) /\ Len(rest) = Len(u) - 1 /\ \A j \in 1 .. Len(u) - 1 : rest[j] = u[j + 1]
    BY <2>1, <2>4, HeadTailProperties
  <2> HIDE DEF rest
  <2>6. Len(rest) = Len(o) /\ \A j \in 1 .. Len(rest) : rest[j] = o[j]
    BY <1>0, <2>1, <2>2, <2>3, <2>5
  <2>7. rest = o
    BY Zenon, <2>2, <2>5, <2>6, SeqEqual
  <2> QED BY <2>7 DEF rest, u, o
<1> QED BY <1>6, <1>9, <1>10

\* What a row's kernels start from is of its text.
LEMMA StartsFrom ==
    ASSUME NEW row, NEW l, RowWell(row, l), row.base = 0 => Ka!Fresh(row),
           Known(conv[row.r], recurrent[row.r], Ka!From(row), l, row.base)
    PROVE  Ka!History(row) = Before(l, row) /\ Ka!Initial(row) = Text(l, row.base)
<1> DEFINE a == Ka!From(row)
<1>0. W \in Nat /\ ConvSize = W + 1 /\ row.base \in Nat /\ l \in Nat /\ a \in Nat \ {0}
  BY WIs DEF RowWell, Known
<1>1. CASE Ka!Fresh(row)
  <2>1. row.base = 0
    BY <1>1 DEF Ka!Fresh
  <2>2. \A i \in 1 .. W : Text(l, row.base - W + i) = Ka!Zero
    BY <1>0, <2>1 DEF Text
  <2>3. 1 .. ConvSize - 1 = 1 .. W
    BY <1>0
  <2>4. Before(l, row) = [i \in 1 .. ConvSize - 1 |-> Ka!Zero]
    BY <2>2, <2>3 DEF Before
  <2>5. Text(l, row.base) = Ka!Zero
    BY <2>1 DEF Text
  <2> QED BY <1>1, <2>4, <2>5 DEF Ka!History, Ka!Initial
<1>2. CASE ~Ka!Fresh(row)
  <2> DEFINE c == conv[row.r]
             w == SubSeq(c, a, a + ConvSize - 2)
             b == Before(l, row)
  <2>1. /\ recurrent[row.r][a] = Text(l, row.base)
        /\ c \in Seq(Tokens) /\ a + W - 1 <= Len(c)
        /\ \A i \in 1 .. W : c[a + i - 1] = Text(l, row.base - W + i)
    BY <1>0, <1>2 DEF Known
  <2>2. Ka!History(row) = w /\ Ka!Initial(row) = recurrent[row.r][a]
    BY <1>2 DEF Ka!History, Ka!Initial
  <2>3. b \in Seq(Tokens) /\ Len(b) = W /\ \A i \in 1 .. W : b[i] = Text(l, row.base - W + i)
    <3>1. b \in [1 .. W -> Tokens]
      BY <1>0, TextIs DEF Before
    <3>2. b \in Seq(Tokens) /\ Len(b) = W
      BY <1>0, <3>1, FunSeq
    <3> QED BY <3>2 DEF Before
  <2> HIDE DEF c, b, a
  <2>4. w \in Seq(Tokens) /\ Len(w) = W /\ \A i \in 1 .. W : w[i] = c[a + i - 1]
    <3> DEFINE e == a + ConvSize - 2
    <3>1. e \in Nat /\ a <= e + 1 /\ e <= Len(c) /\ e - a + 1 = W
      <4>1. Len(c) \in Int BY <2>1
      <4> QED BY <1>0, <2>1, <4>1
    <3>2. w = SubSeq(c, a, e)
      OBVIOUS
    <3> HIDE DEF e, w
    <3>3. SubSeq(c, a, e) \in Seq(Tokens) /\ Len(SubSeq(c, a, e)) = e - a + 1
          /\ \A i \in 1 .. e - a + 1 : SubSeq(c, a, e)[i] = c[a + i - 1]
      <4>1. c \in Seq(Tokens) /\ a \in Nat /\ 1 <= a /\ e \in Nat /\ a <= e + 1 /\ e <= Len(c)
        BY <1>0, <2>1, <3>1
      <4> QED BY Zenon, <4>1, Piece
    <3> QED BY <3>1, <3>2, <3>3
  <2> HIDE DEF w
  <2>5. \A i \in 1 .. Len(w) : w[i] = b[i]
    BY <2>1, <2>3, <2>4
  <2>6. w = b
    BY <2>3, <2>4, <2>5, SeqEqual
  <2> QED BY <2>1, <2>2, <2>6 DEF b
<1> QED BY <1>1, <1>2

\* What a row leaves is known from the column of its last token that will be accepted.
LEMMA LeavesKnown ==
    ASSUME NEW row, NEW l, RowWell(row, l)
    PROVE  Known(Ka!Window(row, Seen(l, row)), Ka!Written(row, OwnTokens(l, row)),
                 IF row.drafted THEN row.kept ELSE 1, l, row.base + row.kept)
<1> DEFINE s == Seen(l, row)
           from == IF row.drafted THEN 2 ELSE row.n + 1
           w == SubSeq(s, from, W + row.n)
           a == IF row.drafted THEN row.kept ELSE 1
           d == row.base + row.kept
<1>0. /\ W \in Nat /\ ConvSize = W + 1 /\ row.n \in Nat \ {0} /\ row.base \in Nat
      /\ l \in Nat \ {0} /\ row.kept \in 1 .. row.n /\ Speculated \in Nat
      /\ row.drafted \in BOOLEAN /\ (row.drafted => row.n <= 1 + Speculated)
      /\ (~row.drafted => row.kept = row.n)
  BY WIs DEF RowWell
<1>1. s \in Seq(Tokens) /\ Len(s) = W + row.n
  BY SeenIs
<1>2. Ka!Window(row, s) = w
  <2>1. Len(s) - ConvSize + 2 = row.n + 1
    BY <1>0, <1>1
  <2> HIDE DEF s
  <2> QED BY <1>0, <1>1, <2>1 DEF Ka!Window
<1>3. ASSUME NEW i \in 1 .. W PROVE s[row.kept + i] = Text(l, d - W + i)
  <2> DEFINE k == row.kept
             o == k + i
  <2>3. /\ k \in Nat /\ o \in 1 .. W + row.n /\ row.base - W + o = d - W + i
        /\ o - W <= k
    BY <1>0
  <2> HIDE DEF k, o, d
  <2>4. s[o] = IF o <= W THEN Text(l, row.base - W + o) ELSE Of(l, row, o - W)
    BY Zenon, <2>3 DEF Seen
  <2>1. CASE o <= W
    <3> HIDE DEF s
    <3> QED BY Zenon, <2>1, <2>3, <2>4 DEF o, k
  <2>2. CASE o > W
    <3>1. s[o] = Of(l, row, o - W)
      <4>1. ~(o <= W)
        BY <1>0, <2>2, <2>3
      <4> QED BY Zenon, <2>4, <4>1
    <3>2. /\ (o - W > k) = FALSE /\ ~(d - W + i <= 0)
          /\ row.base + (o - W) = d - W + i
      BY <1>0, <2>2, <2>3 DEF d, o, k
    <3> HIDE DEF s
    <3> QED BY <3>1, <3>2 DEF Of, Text, o, k
  <2> HIDE DEF s
  <2> QED BY <1>0, <2>1, <2>2, <2>3
<1> HIDE DEF s
<1>4. w \in Seq(Tokens) /\ Len(w) = (W + row.n) - from + 1
      /\ \A i \in 1 .. (W + row.n) - from + 1 : w[i] = s[from + i - 1]
  <2>1. from \in 1 .. W + row.n + 1 /\ W + row.n \in Nat
    BY <1>0
  <2> HIDE DEF from
  <2> DEFINE e == W + row.n
  <2>2. from \in Nat \ {0} /\ from <= e + 1 /\ e <= Len(s) /\ e \in Nat
    BY <1>1, <2>1
  <2> HIDE DEF e
  <2>3. SubSeq(s, from, e) \in Seq(Tokens) /\ Len(SubSeq(s, from, e)) = e - from + 1
        /\ \A i \in 1 .. e - from + 1 : SubSeq(s, from, e)[i] = s[from + i - 1]
    <3>1. s \in Seq(Tokens) /\ from \in Nat /\ 1 <= from /\ e \in Nat /\ from <= e + 1 /\ e <= Len(s)
      BY <1>1, <2>2
    <3> QED BY Zenon, <3>1, Piece
  <2> QED BY Zenon, <2>3 DEF e
<1>5. a \in 1 .. 1 + Speculated
  BY <1>0
<1>6. a + W - 1 <= Len(w)
  <2> HIDE DEF w
  <2> QED BY <1>0, <1>4
<1>7. ASSUME NEW i \in 1 .. W PROVE w[a + i - 1] = Text(l, d - W + i)
  <2>1. /\ a + i - 1 \in 1 .. (W + row.n) - from + 1
        /\ from + (a + i - 1) - 1 = row.kept + i
    BY <1>0
  <2> HIDE DEF w, a, from, d
  <2> QED BY <1>3, <1>4, <2>1
<1>8. Ka!Written(row, OwnTokens(l, row))[a] = Text(l, d)
  <2>1. Ka!Written(row, OwnTokens(l, row))[a] = OwnTokens(l, row)[row.kept]
    BY <1>0, <1>5 DEF Ka!Written
  <2>2. OwnTokens(l, row)[row.kept] = Of(l, row, row.kept)
    BY <1>0 DEF OwnTokens
  <2>3. (row.kept > row.kept) = FALSE /\ ~(d <= 0)
    BY <1>0
  <2> QED BY <2>1, <2>2, <2>3 DEF Of, Text
<1> HIDE DEF w, a, d
<1>9. Known(w, Ka!Written(row, OwnTokens(l, row)), a, l, d)
  BY <1>4, <1>5, <1>6, <1>7, <1>8 DEF Known
<1> QED BY <1>2, <1>9 DEF s, a, d

-----------------------------------------------------------------------------
(* What a step's rows do together.                                            *)

\* A step has a row of one request or of each of two, of which the k-th has these places
\* in the step and in its group.
BatchWell(b, lf) ==
  /\ \/ \E row : b = <<row>>
     \/ \E row, other : b = <<row, other>> /\ row.r # other.r
  /\ \A k \in DOMAIN b : b[k].r \in {1, 2} /\ RowWell(b[k], lf[b[k].r])
Offset(b, k) == IF k = 1 THEN 0 ELSE b[1].n
First(b, k) == IF k = 2 /\ b[1].drafted = b[2].drafted THEN b[1].n ELSE 0
Item(lf, row, j) == [token |-> Of(lf[row.r], row, j), drafted |-> row.drafted]
InStep == [token : Tokens, drafted : BOOLEAN]

\* The row whose turn is the i-th.
Swapped(b) == Len(b) = 2 /\ ~b[1].drafted /\ b[2].drafted
Turn(b, i) == IF Swapped(b) THEN 3 - i ELSE i

\* One row or two.
LEMMA BatchIs2 ==
    ASSUME NEW b, NEW lf, BatchWell(b, lf)
    PROVE  /\ Len(b) \in {1, 2} /\ DOMAIN b = 1 .. Len(b)
           /\ Len(b) = 2 => b[1].r # b[2].r
           /\ \A k \in 1 .. Len(b) : b[k].r \in {1, 2} /\ RowWell(b[k], lf[b[k].r])
<1>1. CASE \E row : b = <<row>>
  <2>1. PICK row : b = <<row>>
    BY <1>1
  <2>2. Len(b) = 1 /\ DOMAIN b = 1 .. Len(b)
    BY <2>1
  <2> QED BY <2>2 DEF BatchWell
<1>2. CASE \E row, other : b = <<row, other>> /\ row.r # other.r
  <2>1. PICK row, other : b = <<row, other>> /\ row.r # other.r
    BY <1>2
  <2>2. Len(b) = 2 /\ DOMAIN b = 1 .. Len(b) /\ b[1].r # b[2].r
    BY <2>1
  <2> QED BY <2>2 DEF BatchWell
<1> QED BY <1>1, <1>2 DEF BatchWell

\* The kernels' order.
LEMMA TurnIs ==
    ASSUME NEW b, NEW lf, BatchWell(b, lf)
    PROVE  /\ \A i \in 1 .. Len(b) : Turn(b, i) \in 1 .. Len(b) /\ Ka!InOrder(b)[i] = b[Turn(b, i)]
           /\ \A k \in 1 .. Len(b) : \E i \in 1 .. Len(b) : k = Turn(b, i)
           /\ \A i, j \in 1 .. Len(b) : Turn(b, i) = Turn(b, j) => i = j
<1>1. Len(b) \in {1, 2}
  BY BatchIs2
<1>2. CASE Swapped(b)
  <2>1. Ka!InOrder(b) = <<b[2], b[1]>> /\ Len(b) = 2
    BY <1>2 DEF Swapped, Ka!InOrder
  <2>2. \A i \in 1 .. 2 : Turn(b, i) = 3 - i
    BY <1>2 DEF Turn
  <2> QED BY <2>1, <2>2
<1>3. CASE ~Swapped(b)
  <2>1. Ka!InOrder(b) = b
    BY <1>3 DEF Swapped, Ka!InOrder
  <2>2. \A i \in 1 .. Len(b) : Turn(b, i) = i
    BY <1>3 DEF Turn
  <2> QED BY <2>1, <2>2
<1> QED BY <1>2, <1>3

\* The step has each row's tokens where it is to have them, and nothing else.
LEMMA StepIs ==
    ASSUME BatchWell(batch, life)
    PROVE  /\ \A k \in 1 .. Len(batch) : \A j \in 1 .. batch[k].n :
                /\ Offset(batch, k) + j \in DOMAIN Ka!Step
                /\ Ka!Step[Offset(batch, k) + j] = Item(life, batch[k], j)
           /\ \A p \in DOMAIN Ka!Step : \E k \in 1 .. Len(batch) : \E j \in 1 .. batch[k].n :
                p = Offset(batch, k) + j
<1> DEFINE Part1(row) == [j \in 1 .. row.n |-> Item(life, row, j)]
<1>1. Ka!Step = IF Len(batch) = 1 THEN Part1(batch[1]) ELSE Part1(batch[1]) \o Part1(batch[2])
  BY DEF Ka!Step, Ka!Token, Item, Of
<1>2. \A k \in 1 .. Len(batch) : batch[k].n \in Nat \ {0} /\ RowWell(batch[k], life[batch[k].r])
                                 /\ batch[k].drafted \in BOOLEAN
  BY BatchIs2 DEF RowWell
<1>3. ASSUME NEW k \in 1 .. Len(batch)
      PROVE  Part1(batch[k]) \in Seq(InStep) /\ Len(Part1(batch[k])) = batch[k].n
  <2>1. ASSUME NEW j \in 1 .. batch[k].n PROVE Item(life, batch[k], j) \in InStep
    BY <1>2, OfIs DEF Item, InStep
  <2>2. Part1(batch[k]) \in [1 .. batch[k].n -> InStep]
    BY <2>1
  <2>3. batch[k].n \in Nat
    BY <1>2
  <2> HIDE DEF Part1
  <2> QED BY Zenon, <2>2, <2>3, FunSeq
<1>4. CASE Len(batch) = 1
  <2>1. Ka!Step = Part1(batch[1]) /\ Offset(batch, 1) = 0
    BY <1>1, <1>4 DEF Offset
  <2>2. DOMAIN Ka!Step = 1 .. batch[1].n /\ batch[1].n \in Nat
    BY <1>2, <1>4, <2>1
  <2>3. \A j \in 1 .. batch[1].n : Ka!Step[j] = Item(life, batch[1], j)
    BY <2>1
  <2> QED BY <1>4, <2>1, <2>2, <2>3
<1>5. CASE Len(batch) = 2
  <2> DEFINE u == Part1(batch[1])
             v == Part1(batch[2])
             s == u \o v
             n == batch[1].n
             m == batch[2].n
  <2>1. Ka!Step = s
    BY <1>1, <1>5
  <2>2. u \in Seq(InStep) /\ Len(u) = n /\ v \in Seq(InStep) /\ Len(v) = m
    <3>1. 1 \in 1 .. Len(batch) /\ 2 \in 1 .. Len(batch)
      BY <1>5
    <3> HIDE DEF Part1
    <3> QED BY Zenon, <1>3, <3>1
  <2>3. n \in Nat /\ m \in Nat
    BY <1>2, <1>5
  <2>4. (\A j \in 1 .. n : u[j] = Item(life, batch[1], j))
        /\ \A j \in 1 .. m : v[j] = Item(life, batch[2], j)
    OBVIOUS
  <2> HIDE DEF u, v
  <2>5. s \in Seq(InStep) /\ Len(s) = n + m
    <3>1. s \in Seq(InStep) /\ Len(s) = Len(u) + Len(v)
      BY <2>2, ConcatProperties
    <3> HIDE DEF s
    <3> QED BY <2>2, <3>1
  <2>6. \A i \in 1 .. n + m : s[i] = IF i <= n THEN u[i] ELSE v[i - n]
    <3>1. \A i \in 1 .. Len(u) + Len(v) : s[i] = IF i <= Len(u) THEN u[i] ELSE v[i - Len(u)]
      BY <2>2, ConcatProperties
    <3> HIDE DEF s
    <3> QED BY <2>2, <3>1
  <2>7. DOMAIN s = 1 .. n + m
    <3> HIDE DEF s
    <3> QED BY <2>3, <2>5
  <2> HIDE DEF s
  <2>8. \A j \in 1 .. n : s[j] = Item(life, batch[1], j)
    <3> HIDE DEF n, m
    <3> QED BY <2>3, <2>4, <2>6
  <2>9. \A j \in 1 .. m : s[n + j] = Item(life, batch[2], j)
    <3> HIDE DEF n, m
    <3>1. ASSUME NEW j \in 1 .. m PROVE s[n + j] = Item(life, batch[2], j)
      <4>1. n + j \in 1 .. n + m /\ ~(n + j <= n) /\ (n + j) - n = j
        BY <2>3
      <4>2. s[n + j] = v[(n + j) - n]
        BY <2>6, <4>1
      <4> QED BY <2>4, <4>1, <4>2
    <3> QED BY <3>1
  <2>10. Offset(batch, 1) = 0 /\ Offset(batch, 2) = n
    BY DEF Offset
  <2>11. ASSUME NEW k \in 1 .. Len(batch), NEW j \in 1 .. batch[k].n
         PROVE  /\ Offset(batch, k) + j \in DOMAIN Ka!Step
                /\ Ka!Step[Offset(batch, k) + j] = Item(life, batch[k], j)
    <3>1. CASE k = 1
      BY <2>1, <2>3, <2>7, <2>8, <2>10, <3>1
    <3>2. CASE k = 2
      BY <2>1, <2>3, <2>7, <2>9, <2>10, <3>2
    <3> QED BY <1>5, <3>1, <3>2
  <2>12. ASSUME NEW p \in DOMAIN Ka!Step
         PROVE  \E k \in 1 .. Len(batch) : \E j \in 1 .. batch[k].n : p = Offset(batch, k) + j
    <3>1. p \in 1 .. n + m
      BY <2>1, <2>7
    <3>2. CASE p <= n
      <4>1. p \in 1 .. batch[1].n /\ p = Offset(batch, 1) + p /\ 1 \in 1 .. Len(batch)
        BY <1>5, <2>3, <2>10, <3>1, <3>2
      <4> QED BY <4>1
    <3>3. CASE p > n
      <4>1. p - n \in 1 .. batch[2].n /\ p = Offset(batch, 2) + (p - n) /\ 2 \in 1 .. Len(batch)
        BY <1>5, <2>3, <2>10, <3>1, <3>3
      <4> QED BY <4>1
    <3> QED BY <2>3, <3>1, <3>2, <3>3
  <2> QED BY <2>11, <2>12
<1> QED BY <1>4, <1>5, BatchIs2

\* The token of a place, and its group.
LEMMA StepAt ==
    ASSUME BatchWell(batch, life), NEW k \in 1 .. Len(batch), NEW j \in 1 .. batch[k].n
    PROVE  /\ Offset(batch, k) + j \in DOMAIN Ka!Step
           /\ Ka!Step[Offset(batch, k) + j].token = Of(life[batch[k].r], batch[k], j)
           /\ Ka!Step[Offset(batch, k) + j].drafted = batch[k].drafted
<1>1. /\ Offset(batch, k) + j \in DOMAIN Ka!Step
      /\ Ka!Step[Offset(batch, k) + j] = Item(life, batch[k], j)
  BY Zenon, StepIs
<1> QED BY <1>1 DEF Item

\* Every place of the step is some row's.
LEMMA StepHas ==
    ASSUME BatchWell(batch, life), NEW p \in DOMAIN Ka!Step
    PROVE  \E k \in 1 .. Len(batch) : \E j \in 1 .. batch[k].n : p = Offset(batch, k) + j
BY Zenon, StepIs

\* The instance counts as its module does.
LEMMA KaCardinality == \A S : Ka!Cardinality(S) = Cardinality(S)
BY Zenon DEF Ka!Cardinality, Cardinality

\* A token's place in its group.
LEMMA PlaceIs ==
    ASSUME BatchWell(batch, life), NEW k \in 1 .. Len(batch), NEW j \in 1 .. batch[k].n
    PROVE  Ka!Place(Offset(batch, k) + j) = First(batch, k) + j
<1> DEFINE p == Offset(batch, k) + j
           group == {q \in 1 .. p : Ka!Step[q].drafted = Ka!Step[p].drafted}
<1>1. /\ Len(batch) \in {1, 2}
      /\ \A i \in 1 .. Len(batch) : batch[i].n \in Nat \ {0} /\ batch[i].drafted \in BOOLEAN
  BY BatchIs2 DEF RowWell
<1>2. \A i \in 1 .. Len(batch) : \A o \in 1 .. batch[i].n :
         Ka!Step[Offset(batch, i) + o].drafted = batch[i].drafted
  BY Zenon, StepAt
<1>3. Ka!Step[p].drafted = batch[k].drafted
  BY <1>2
<1>4. \A q \in 1 .. batch[1].n : Ka!Step[q].drafted = batch[1].drafted
  BY <1>1, <1>2 DEF Offset
<1>5. CASE k = 1
  <2>1. p = j /\ First(batch, k) + j = j
    BY <1>1, <1>5 DEF Offset, First
  <2>2. group = 1 .. j
    BY <1>1, <1>3, <1>4, <1>5, <2>1
  <2>3. Cardinality(1 .. j) = j
    BY FS_Interval
  <2> QED BY <2>1, <2>2, <2>3, KaCardinality DEF Ka!Place
<1>6. CASE k = 2
  <2>1. Len(batch) = 2 /\ p = batch[1].n + j
    BY <1>1, <1>6 DEF Offset
  <2>2. \A o \in 1 .. j : Ka!Step[batch[1].n + o].drafted = batch[2].drafted
    BY <1>1, <1>2, <1>6, <2>1 DEF Offset
  <2>3. \A q \in 1 .. p : q > batch[1].n => Ka!Step[q].drafted = batch[2].drafted
    <3>1. ASSUME NEW q \in 1 .. p, q > batch[1].n PROVE Ka!Step[q].drafted = batch[2].drafted
      <4>1. q - batch[1].n \in 1 .. j /\ q = batch[1].n + (q - batch[1].n)
        BY <1>1, <2>1, <3>1
      <4> QED BY <2>2, <4>1
    <3> QED BY <3>1
  <2> HIDE DEF p
  <2>4. CASE batch[1].drafted = batch[2].drafted
    <3>1. group = 1 .. p
      BY <1>1, <1>3, <1>4, <1>6, <2>1, <2>3, <2>4
    <3>2. p \in Nat /\ First(batch, k) + j = p
      BY <1>1, <1>6, <2>1, <2>4 DEF First
    <3>3. Cardinality(1 .. p) = p
      BY <3>2, FS_Interval
    <3> QED BY <3>1, <3>2, <3>3, KaCardinality DEF Ka!Place, p
  <2>5. CASE batch[1].drafted # batch[2].drafted
    <3>1. group = batch[1].n + 1 .. p
      BY <1>1, <1>3, <1>4, <1>6, <2>1, <2>3, <2>5
    <3>2. p \in Nat /\ First(batch, k) + j = j /\ batch[1].n + 1 \in Int /\ j \in Nat
          /\ p - (batch[1].n + 1) + 1 = j /\ ~(batch[1].n + 1 > p)
      BY <1>1, <1>6, <2>1, <2>5 DEF First
    <3>3. Cardinality(batch[1].n + 1 .. p) = j
      <4> DEFINE from == batch[1].n + 1
      <4>1. from \in Int /\ p \in Int /\ ~(from > p) /\ p - from + 1 = j
        BY <3>2
      <4> HIDE DEF from
      <4>2. Cardinality(from .. p) = IF from > p THEN 0 ELSE p - from + 1
        BY <4>1, FS_Interval
      <4> QED BY <4>1, <4>2 DEF from
    <3> QED BY <3>1, <3>2, <3>3, KaCardinality DEF Ka!Place, p
  <2> QED BY <2>4, <2>5
<1> QED BY <1>1, <1>5, <1>6

\* Looking a place of a group up finds the token that has it.
LEMMA IndexedIs ==
    ASSUME BatchWell(batch, life), NEW k \in 1 .. Len(batch), NEW j \in 1 .. batch[k].n
    PROVE  Ka!Step[Ka!Indexed(batch[k].drafted, First(batch, k) + j)].token
             = Of(life[batch[k].r], batch[k], j)
<1> DEFINE P(p) == /\ Ka!Step[p].drafted = batch[k].drafted
                   /\ Ka!Place(p) = First(batch, k) + j
           found == CHOOSE p \in DOMAIN Ka!Step : P(p)
<1>1. Offset(batch, k) + j \in DOMAIN Ka!Step /\ P(Offset(batch, k) + j)
  BY Zenon, StepAt, PlaceIs
<1>2. found \in DOMAIN Ka!Step /\ P(found)
  BY <1>1
<1>3. Ka!Indexed(batch[k].drafted, First(batch, k) + j) = found
  BY DEF Ka!Indexed
<1> HIDE DEF found
<1>9. PICK i \in 1 .. Len(batch) : \E o \in 1 .. batch[i].n : found = Offset(batch, i) + o
  BY <1>2, StepHas
<1>4. PICK o \in 1 .. batch[i].n : found = Offset(batch, i) + o
  BY <1>9
<1>5. First(batch, i) + o = First(batch, k) + j /\ batch[i].drafted = batch[k].drafted
  <2>1. /\ Ka!Step[Offset(batch, i) + o].drafted = batch[i].drafted
        /\ Ka!Place(Offset(batch, i) + o) = First(batch, i) + o
    BY Zenon, StepAt, PlaceIs
  <2> QED BY <1>2, <1>4, <2>1
<1>6. /\ Len(batch) \in {1, 2}
      /\ \A q \in 1 .. Len(batch) : batch[q].n \in Nat \ {0}
  BY BatchIs2 DEF RowWell
<1>7. i = k /\ o = j
  <2> DEFINE m == batch[1].n
  <2>1. i \in {1, 2} /\ k \in {1, 2} /\ m \in Nat
    BY <1>6
  <2>2. o \in Nat \ {0} /\ j \in Nat \ {0} /\ (i = 1 => o <= m) /\ (k = 1 => j <= m)
    BY <1>6
  <2>3. i # k => batch[1].drafted = batch[2].drafted
    BY <1>5, <2>1
  <2>4. i # k => First(batch, 1) = 0 /\ First(batch, 2) = m
    BY <2>3 DEF First
  <2>5. First(batch, i) \in Nat
    BY <2>1 DEF First
  <2> HIDE DEF m
  <2>6. CASE i = k
    BY <1>5, <2>2, <2>5, <2>6
  <2>7. CASE i = 1 /\ k = 2
    BY <1>5, <2>1, <2>2, <2>4, <2>7
  <2>8. CASE i = 2 /\ k = 1
    BY <1>5, <2>1, <2>2, <2>4, <2>8
  <2> QED BY <2>1, <2>6, <2>7, <2>8
<1>8. Ka!Step[found].token = Of(life[batch[k].r], batch[k], j)
  BY Zenon, <1>4, <1>7, StepAt
<1> QED BY <1>3, <1>8

-----------------------------------------------------------------------------
(* The layer's inductive invariant.                                           *)

Both == {1, 2}
OwnSlices == <<Ka!Slice("q_conv1d"), Ka!Slice("k_conv1d"), Ka!Slice("v_conv1d")>>

\* A parameter is unloaded or this rank's slice, and so are the merged weights, from the
\* first step on.
WeightsWell ==
  /\ \A name \in Ka!Names : weights[name] \in {Ka!Unloaded, Ka!Slice(name)}
  /\ merged \in {<<>>, OwnSlices}
  /\ batch # <<>> => merged = OwnSlices

\* What a request accepted is 1 until it verifies drafts.
CountsWell(lf, dn, ac, dr) ==
  /\ lf \in [Both -> Nat] /\ dn \in [Both -> Nat] /\ ac \in [Both -> 1 .. 1 + Speculated]
  /\ \A r \in Both : dn[r] < PromptLength \/ ~dr => ac[r] = 1

\* While the kernels run, each row starts from what its request accepted.
Asks(b, dn, ac, dr) ==
  \A k \in 1 .. Len(b) : /\ b[k].base = dn[b[k].r]
                         /\ b[k].drafted => dr /\ b[k].base >= PromptLength
                         /\ ~b[k].drafted => ac[b[k].r] = 1

\* The rows that ran left states of their text, up to what will be accepted of it; the
\* others' requests have them as they were.
After(row) == IF row.drafted THEN row.kept ELSE 1
Reached(cv, rc, lf, row) ==
  Known(cv[row.r], rc[row.r], After(row), lf[row.r], row.base + row.kept)
Resting(cv, rc, ac, lf, dn, r) == lf[r] > 0 => Known(cv[r], rc[r], ac[r], lf[r], dn[r])
Progress(cv, rc, ac, lf, dn, b, rn) ==
  /\ \A i \in 1 .. rn : Reached(cv, rc, lf, b[Turn(b, i)])
  /\ \A r \in Both : (\A i \in 1 .. rn : b[Turn(b, i)].r # r) => Resting(cv, rc, ac, lf, dn, r)

\* A group's outputs are its rows' own tokens, in their places, and the next row's begin
\* where it looks for them.
Put(ou, lf, b, k) ==
  \A j \in 1 .. b[k].n : /\ First(b, k) + j \in 1 .. Len(ou[b[k].drafted])
                         /\ ou[b[k].drafted][First(b, k) + j] = Of(lf[b[k].r], b[k], j)
OutsAre(ou, lf, b, rn) ==
  /\ ou = [d \in BOOLEAN |-> ou[d]] /\ \A d \in BOOLEAN : ou[d] \in Seq(Tokens)
  /\ \A i \in 1 .. rn : Put(ou, lf, b, Turn(b, i))
  /\ rn = 0 => \A d \in BOOLEAN : ou[d] = <<>>
  /\ rn < Len(b) => Len(ou[b[Turn(b, rn + 1)].drafted]) = First(b, Turn(b, rn + 1))

RowsWell ==
  /\ WeightsWell /\ CountsWell(life, done, accepted, drafting)
  /\ conv = [r \in Both |-> conv[r]] /\ recurrent = [r \in Both |-> recurrent[r]]
  /\ batch = <<>> \/ BatchWell(batch, life)
  /\ ran \in 0 .. Len(batch)
  /\ core # <<>> => ran = Len(batch)
  /\ Ka!Idle => /\ outs = [d \in BOOLEAN |-> <<>>]
                /\ \A r \in Both : Resting(conv, recurrent, accepted, life, done, r)
  /\ ~Ka!Idle => /\ Asks(batch, done, accepted, drafting)
                 /\ Progress(conv, recurrent, accepted, life, done, batch, ran)
                 /\ OutsAre(outs, life, batch, ran)
  /\ core # <<>> => batch # <<>> /\ \A p \in DOMAIN core : core[p] = Ka!Step[p].token

\* The first state.
LEMMA RowsFirst == Ka!Init => RowsWell
<1> SUFFICES ASSUME Ka!Init PROVE RowsWell
  OBVIOUS
<1>0. Speculated \in Nat /\ batch = <<>> /\ core = <<>> /\ ran = 0 /\ merged = <<>> /\ Len(batch) = 0
  BY WIs DEF Ka!Init
<1>1. WeightsWell
  BY <1>0 DEF Ka!Init, WeightsWell
<1>2. CountsWell(life, done, accepted, drafting)
  BY <1>0 DEF Ka!Init, CountsWell, Both
<1>3. conv = [r \in Both |-> conv[r]] /\ recurrent = [r \in Both |-> recurrent[r]]
  BY DEF Ka!Init, Both
<1>4. \A r \in Both : Resting(conv, recurrent, accepted, life, done, r)
  BY DEF Ka!Init, Both, Resting
<1>5. outs = [d \in BOOLEAN |-> <<>>] /\ Ka!Idle
  BY DEF Ka!Init, Ka!Idle
<1> QED BY <1>0, <1>1, <1>2, <1>3, <1>4, <1>5 DEF RowsWell

\* A step that leaves all but the weights.
LEMMA RowsStay ==
    ASSUME RowsWell, WeightsWell',
           UNCHANGED <<drafting, life, done, accepted, conv, recurrent, batch, ran, outs, core>>
    PROVE  RowsWell'
<1>1. Ka!Step' = Ka!Step /\ Ka!Idle' = Ka!Idle
  BY DEF Ka!Step, Ka!Token, Ka!Idle
<1> QED BY <1>1 DEF RowsWell

\* A load.
LEMMA LoadKeeps ==
    ASSUME RowsWell, NEW names, Ka!Load(names) PROVE RowsWell'
<1>1. UNCHANGED <<drafting, life, done, accepted, conv, recurrent, batch, ran, outs, core, merged>>
  BY DEF Ka!Load, Ka!state
<1>2. WeightsWell'
  <2>1. WeightsWell
    BY DEF RowsWell
  <2>2. ASSUME NEW name \in Ka!Names PROVE weights'[name] \in {Ka!Unloaded, Ka!Slice(name)}
    BY <2>1 DEF WeightsWell, Ka!Load
  <2> QED BY <1>1, <2>1, <2>2 DEF WeightsWell
<1> QED BY <1>1, <1>2, RowsStay

\* A request begins.
LEMMA BeginKeeps ==
    ASSUME RowsWell, NEW r \in Both, Ka!Begin(r) PROVE RowsWell'
<1> DEFINE Most(n) == \A other \in {1, 2} : life[other] <= n
           last == CHOOSE n \in {life[other] : other \in {1, 2}} : Most(n)
<1>1. /\ life \in [Both -> Nat] /\ done \in [Both -> Nat] /\ accepted \in [Both -> 1 .. 1 + Speculated]
      /\ \A q \in Both : done[q] < PromptLength \/ ~drafting => accepted[q] = 1
  BY DEF RowsWell, CountsWell
<1>2. /\ life' = [life EXCEPT ![r] = 1 + last]
      /\ done' = [done EXCEPT ![r] = 0] /\ accepted' = [accepted EXCEPT ![r] = 1]
      /\ batch' = <<>> /\ ran' = 0 /\ core' = <<>> /\ Ka!Idle
      /\ UNCHANGED <<weights, merged, drafting, conv, recurrent, outs>>
  BY DEF Ka!Begin, Ka!launch, Ka!state
<1>3. last \in Nat
  <2>1. life[1] \in Nat /\ life[2] \in Nat
    BY <1>1 DEF Both
  <2>2. \E n \in {life[other] : other \in {1, 2}} : Most(n)
    <3>1. CASE life[1] <= life[2]
      <4>1. Most(life[2])
        BY <2>1, <3>1
      <4> QED BY <4>1
    <3>2. CASE life[2] <= life[1]
      <4>1. Most(life[1])
        BY <2>1, <3>2
      <4> QED BY <4>1
    <3> QED BY <2>1, <3>1, <3>2
  <2>3. last \in {life[other] : other \in {1, 2}}
    <3> HIDE DEF Most
    <3> QED BY <2>2
  <2> QED BY <2>1, <2>3
<1> HIDE DEF last
<1>4. CountsWell(life', done', accepted', drafting')
  <2>1. 1 \in 1 .. 1 + Speculated
    BY WIs
  <2>2. life' \in [Both -> Nat] /\ done' \in [Both -> Nat]
    BY <1>1, <1>2, <1>3
  <2>3. accepted' \in [Both -> 1 .. 1 + Speculated]
    BY <1>1, <1>2, <2>1
  <2>4. \A q \in Both : done'[q] < PromptLength \/ ~drafting' => accepted'[q] = 1
    BY <1>1, <1>2
  <2> QED BY <2>2, <2>3, <2>4 DEF CountsWell
<1>5. ASSUME NEW q \in Both PROVE Resting(conv', recurrent', accepted', life', done', q)
  <2>1. CASE q = r
    <3>1. accepted'[q] = 1 /\ done'[q] = 0
      BY <1>1, <1>2, <2>1
    <3>2. Known(conv'[q], recurrent'[q], accepted'[q], life'[q], done'[q])
      BY <3>1, WIs DEF Known
    <3> QED BY <3>2 DEF Resting
  <2>2. CASE q # r
    <3>1. Resting(conv, recurrent, accepted, life, done, q)
      BY <1>2 DEF RowsWell
    <3>2. accepted'[q] = accepted[q] /\ done'[q] = done[q] /\ life'[q] = life[q]
      BY <1>1, <1>2, <2>2
    <3> QED BY <1>2, <3>1, <3>2 DEF Resting
  <2> QED BY <2>1, <2>2
<1>6. WeightsWell'
  BY <1>2 DEF RowsWell, WeightsWell
<1>7. outs' = [d \in BOOLEAN |-> <<>>] /\ Ka!Idle' /\ Len(batch') = 0
  BY <1>2 DEF RowsWell, Ka!Idle
<1>8. conv' = [q \in Both |-> conv'[q]] /\ recurrent' = [q \in Both |-> recurrent'[q]]
  BY <1>2 DEF RowsWell
<1>9. ran' \in 0 .. Len(batch') /\ core' = <<>>
  BY <1>2, <1>7
<1> QED BY <1>2, <1>4, <1>5, <1>6, <1>7, <1>8, <1>9 DEF RowsWell

\* The rows vLLM may schedule for a request are well.
Scheduled(row, r) ==
  /\ row.r = r /\ RowWell(row, life[r]) /\ row.base = done[r]
  /\ row.drafted => drafting /\ row.base >= PromptLength
  /\ ~row.drafted => accepted[r] = 1

\* Every row of a request is scheduled so.
LEMMA RowsOfAre ==
    ASSUME CountsWell(life, done, accepted, drafting), NEW r \in Both, life[r] > 0,
           NEW row \in Ka!RowsOf(r)
    PROVE  Scheduled(row, r)
<1>0. /\ life[r] \in Nat \ {0} /\ done[r] \in Nat /\ Speculated \in Nat
      /\ PromptLength \in Nat /\ PromptLength >= 2
      /\ (done[r] < PromptLength \/ ~drafting => accepted[r] = 1)
  <2>1. life[r] \in Nat /\ done[r] \in Nat /\ (done[r] < PromptLength \/ ~drafting => accepted[r] = 1)
    BY DEF CountsWell
  <2> QED BY <2>1, KdaAssumption
<1>1. CASE done[r] < PromptLength
  <2> DEFINE from == IF done[r] = 0 THEN 2 ELSE 1
             most == PromptLength - done[r]
  <2>0. from \in Nat \ {0} /\ (done[r] = 0 => from = 2) /\ most \in Int
    BY <1>0
  <2>1. row \in {Ka!Row(r, n, n, FALSE) : n \in from .. most}
    BY <1>1 DEF Ka!RowsOf
  <2> HIDE DEF from, most
  <2>5. PICK n \in from .. most : row = Ka!Row(r, n, n, FALSE)
    BY <2>1
  <2>2. /\ row.r = r /\ row.base = done[r] /\ row.n = n /\ row.kept = n /\ ~row.drafted
        /\ row.drafted \in BOOLEAN
    BY <2>5 DEF Ka!Row
  <2>3. n \in Nat \ {0} /\ (done[r] = 0 => n > 1)
    BY <2>0, <2>5
  <2>4. RowWell(row, life[r])
    <3>1. row.kept \in 1 .. row.n
      BY <2>2, <2>3
    <3> QED BY <1>0, <2>2, <2>3, <3>1 DEF RowWell
  <2> QED BY <1>0, <1>1, <2>2, <2>4 DEF Scheduled
<1>2. CASE ~(done[r] < PromptLength) /\ drafting
  <2> DEFINE ns == {m \in 2 .. 1 + Speculated : done[r] + m <= MaxLength}
             drafts(n) == {Ka!Row(r, n, kept, TRUE) : kept \in 1 .. n}
  <2>0. row \in UNION {drafts(n) : n \in ns}
    BY <1>2 DEF Ka!RowsOf
  <2>1. PICK n \in 2 .. 1 + Speculated : row \in drafts(n)
    BY <2>0
  <2>2. PICK kept \in 1 .. n : row = Ka!Row(r, n, kept, TRUE)
    BY <2>1
  <2>3. /\ row.r = r /\ row.base = done[r] /\ row.n = n /\ row.kept = kept /\ row.drafted
        /\ row.drafted \in BOOLEAN
    BY <2>2 DEF Ka!Row
  <2>4. RowWell(row, life[r])
    <3>1. n \in Nat \ {0} /\ n <= 1 + Speculated /\ kept \in 1 .. n /\ done[r] > 0
      BY <1>0, <1>2, <2>1, <2>2
    <3> QED BY <1>0, <2>3, <3>1 DEF RowWell
  <2> QED BY <1>0, <1>2, <2>3, <2>4 DEF Scheduled
<1>3. CASE ~(done[r] < PromptLength) /\ ~drafting
  <2>1. row = Ka!Row(r, 1, 1, FALSE)
    BY <1>3 DEF Ka!RowsOf
  <2>2. /\ row.r = r /\ row.base = done[r] /\ row.n = 1 /\ row.kept = 1 /\ ~row.drafted
        /\ row.drafted \in BOOLEAN
    BY <2>1 DEF Ka!Row
  <2>3. RowWell(row, life[r])
    <3>1. done[r] # 0 /\ row.kept \in 1 .. row.n /\ row.n \in Nat \ {0}
      BY <1>0, <1>3, <2>2
    <3> QED BY <1>0, <2>2, <3>1 DEF RowWell
  <2> QED BY <1>0, <1>3, <2>2, <2>3 DEF Scheduled
<1> QED BY <1>1, <1>2, <1>3

\* A forward begins.
LEMMA ForwardKeeps ==
    ASSUME RowsWell, NEW rows, Ka!Begun(rows), BatchWell(rows, life),
           \A k \in 1 .. Len(rows) : rows[k].r \in Both /\ Scheduled(rows[k], rows[k].r)
    PROVE  RowsWell'
<1>1. /\ Ka!Loaded /\ Ka!Idle /\ merged' = (IF merged = <<>> THEN Ka!MergedWeight ELSE merged)
      /\ batch' = rows /\ ran' = 0 /\ core' = <<>>
      /\ UNCHANGED <<weights, drafting, life, done, accepted, conv, recurrent, outs>>
  BY DEF Ka!Begun, Ka!state
<1>2. Len(rows) \in {1, 2} /\ rows # <<>>
  <2>1. Len(rows) \in {1, 2}
    BY BatchIs2
  <2>2. ASSUME rows = <<>> PROVE FALSE
    BY <2>1, <2>2
  <2> QED BY <2>1, <2>2
<1>3. WeightsWell'
  <2>1. WeightsWell
    BY DEF RowsWell
  <2>2. ASSUME NEW name \in {"q_conv1d", "k_conv1d", "v_conv1d"}
        PROVE  weights[name] = Ka!Slice(name)
    <3>1. name \in Ka!Names
      BY DEF Ka!Names, Ka!Columns
    <3> QED BY <1>1, <2>1, <3>1 DEF WeightsWell, Ka!Loaded
  <2>4. Ka!MergedWeight = OwnSlices
    <3>1. /\ weights["q_conv1d"] = Ka!Slice("q_conv1d")
          /\ weights["k_conv1d"] = Ka!Slice("k_conv1d")
          /\ weights["v_conv1d"] = Ka!Slice("v_conv1d")
      BY <2>2
    <3> QED BY Zenon, <3>1 DEF Ka!MergedWeight, OwnSlices
  <2>5. merged = <<>> \/ merged = OwnSlices
    BY <2>1 DEF WeightsWell
  <2>3. merged' = OwnSlices
    BY Zenon, <1>1, <2>4, <2>5
  <2> QED BY <1>1, <2>1, <2>3 DEF WeightsWell
<1>4. outs = [d \in BOOLEAN |-> <<>>]
      /\ \A r \in Both : Resting(conv, recurrent, accepted, life, done, r)
  BY <1>1 DEF RowsWell
<1>5. Asks(rows, done, accepted, drafting)
  BY DEF Asks, Scheduled
<1>6. Progress(conv, recurrent, accepted, life, done, rows, 0)
  BY <1>4 DEF Progress
<1>7. OutsAre(outs, life, rows, 0)
  <2>1. 1 \in 1 .. Len(rows)
    BY <1>2
  <2>2. First(rows, Turn(rows, 1)) = 0
    BY DEF First, Turn, Swapped
  <2>3. rows[Turn(rows, 1)].drafted \in BOOLEAN
    BY <2>1, TurnIs, BatchIs2 DEF RowWell
  <2>4. \A d \in BOOLEAN : outs[d] = <<>>
    BY <1>4
  <2>5. Len(outs[rows[Turn(rows, 0 + 1)].drafted]) = First(rows, Turn(rows, 0 + 1))
    BY <2>2, <2>3, <2>4
  <2>6. outs = [d \in BOOLEAN |-> outs[d]] /\ \A d \in BOOLEAN : outs[d] \in Seq(Tokens)
    BY <1>4
  <2> QED BY <2>4, <2>5, <2>6 DEF OutsAre
<1>8. ~Ka!Idle'
  BY <1>1, <1>2 DEF Ka!Idle
<1>9. /\ CountsWell(life, done, accepted, drafting)
      /\ conv = [r \in Both |-> conv[r]] /\ recurrent = [r \in Both |-> recurrent[r]]
  BY DEF RowsWell
<1>10. 0 \in 0 .. Len(batch')
  BY <1>1, <1>2
<1> QED BY <1>1, <1>3, <1>5, <1>6, <1>7, <1>8, <1>9, <1>10 DEF RowsWell

\* With one row.
LEMMA OneKeeps ==
    ASSUME RowsWell, NEW r \in Both, Ka!ForwardOne(r) PROVE RowsWell'
<1>1. PICK row \in Ka!RowsOf(r) : Ka!Begun(<<row>>)
  BY DEF Ka!ForwardOne
<1> DEFINE rows == <<row>>
<1>2. DOMAIN rows = {1} /\ rows[1] = row /\ Len(rows) = 1
  OBVIOUS
<1>3. \A i \in DOMAIN rows : life[rows[i].r] > 0
  BY <1>1 DEF Ka!Begun
<1>4. row.r = r
  BY <1>1 DEF Ka!RowsOf, Ka!Row
<1>5. CountsWell(life, done, accepted, drafting)
  BY DEF RowsWell
<1>6. Scheduled(row, r)
  BY <1>1, <1>2, <1>3, <1>4, <1>5, RowsOfAre
<1>7. BatchWell(rows, life)
  <2>1. \E one : rows = <<one>>
    OBVIOUS
  <2> HIDE DEF rows
  <2> QED BY <1>2, <1>4, <1>6, <2>1 DEF BatchWell, Scheduled, Both
<1>8. \A k \in 1 .. Len(rows) : rows[k].r \in Both /\ Scheduled(rows[k], rows[k].r)
  <2> HIDE DEF rows
  <2> QED BY <1>2, <1>4, <1>6
<1>9. Ka!Begun(rows)
  BY <1>1
<1> HIDE DEF rows
<1> QED BY Zenon, <1>7, <1>8, <1>9, ForwardKeeps

\* With a row of each of two requests.
LEMMA TwoKeep ==
    ASSUME RowsWell, NEW r \in Both, NEW other \in Both, Ka!ForwardTwo(r, other) PROVE RowsWell'
<1>0. r # other
  BY DEF Ka!ForwardTwo
<1>1. PICK row \in Ka!RowsOf(r), row2 \in Ka!RowsOf(other) : Ka!Begun(<<row, row2>>)
  BY DEF Ka!ForwardTwo
<1> DEFINE rows == <<row, row2>>
<1>2. DOMAIN rows = 1 .. 2 /\ rows[1] = row /\ rows[2] = row2 /\ Len(rows) = 2
  OBVIOUS
<1>3. \A i \in DOMAIN rows : life[rows[i].r] > 0
  BY <1>1 DEF Ka!Begun
<1>4. row.r = r /\ row2.r = other
  BY <1>1 DEF Ka!RowsOf, Ka!Row
<1>5. CountsWell(life, done, accepted, drafting)
  BY DEF RowsWell
<1>6. Scheduled(row, r) /\ Scheduled(row2, other)
  <2>1. life[r] > 0 /\ life[other] > 0
    <3>1. 1 \in DOMAIN rows /\ 2 \in DOMAIN rows
      BY <1>2
    <3> HIDE DEF rows
    <3> QED BY <1>2, <1>3, <1>4, <3>1
  <2> QED BY <1>1, <1>5, <2>1, RowsOfAre
<1>7. BatchWell(rows, life)
  <2>1. \E one, two : rows = <<one, two>> /\ one.r # two.r
    BY <1>0, <1>4
  <2> HIDE DEF rows
  <2> QED BY <1>2, <1>4, <1>6, <2>1 DEF BatchWell, Scheduled, Both
<1>8. \A k \in 1 .. Len(rows) : rows[k].r \in Both /\ Scheduled(rows[k], rows[k].r)
  <2> HIDE DEF rows
  <2> QED BY <1>2, <1>4, <1>6
<1>9. Ka!Begun(rows)
  BY <1>1
<1> HIDE DEF rows
<1> QED BY Zenon, <1>7, <1>8, <1>9, ForwardKeeps

\* A row runs: its states are then of its text up to what will be accepted of it, and its
\* outputs are its own.
LEMMA RunIs ==
    ASSUME RowsWell, Ka!RunRow
    PROVE  LET k == Turn(batch, ran + 1)
               row == batch[k]
               l == life[row.r]
           IN  /\ ran + 1 \in 1 .. Len(batch) /\ BatchWell(batch, life) /\ ~Ka!Idle
               /\ k \in 1 .. Len(batch)
               /\ conv' = [conv EXCEPT ![row.r] = Ka!Window(row, Seen(l, row))]
               /\ recurrent' = [recurrent EXCEPT ![row.r] = Ka!Written(row, OwnTokens(l, row))]
               /\ outs' = [outs EXCEPT ![row.drafted] = @ \o OwnTokens(l, row)]
               /\ Len(outs[row.drafted]) = First(batch, k)
<1> DEFINE k == Turn(batch, ran + 1)
           row == batch[k]
           l == life[row.r]
           R == Ka!InOrder(batch)[ran + 1]
           group(x) == [j \in 1 .. x.n |->
                          Ka!Step[Ka!Indexed(x.drafted, Len(outs[x.drafted]) + j)].token]
           all(x) == Ka!History(x) \o group(x)
<1>0. ran < Len(batch) /\ ran \in 0 .. Len(batch)
  BY DEF Ka!RunRow, RowsWell
<1>1. /\ conv' = [conv EXCEPT ![R.r] = Ka!Window(R, all(R))]
      /\ recurrent' = [recurrent EXCEPT ![R.r] = Ka!Written(R, Ka!Attended(R, all(R)))]
      /\ outs' = [outs EXCEPT ![R.drafted] = @ \o Ka!Attended(R, all(R))]
  BY DEF Ka!RunRow, RowsWell
<1>2. batch # <<>> /\ core = <<>>
  <2>1. Len(<<>>) = 0
    OBVIOUS
  <2>2. core # <<>> => ran = Len(batch)
    BY DEF RowsWell
  <2>3. ASSUME batch = <<>> PROVE FALSE
    BY <1>0, <2>1, <2>3
  <2>4. ASSUME core # <<>> PROVE FALSE
    BY <1>0, <2>2, <2>4
  <2> QED BY <2>3, <2>4
<1>3. BatchWell(batch, life) /\ ~Ka!Idle
  BY <1>2 DEF RowsWell, Ka!Idle
<1>4. /\ Asks(batch, done, accepted, drafting) /\ OutsAre(outs, life, batch, ran)
      /\ Progress(conv, recurrent, accepted, life, done, batch, ran)
  BY <1>3 DEF RowsWell
<1>5. ran + 1 \in 1 .. Len(batch) /\ Len(batch) \in {1, 2}
  <2>1. Len(batch) \in {1, 2}
    BY <1>3, BatchIs2
  <2> QED BY <1>0, <2>1
<1>6. k \in 1 .. Len(batch) /\ R = row
  BY Zenon, <1>3, <1>5, TurnIs
<1>7. row.r \in Both /\ RowWell(row, l)
  BY <1>3, <1>6, BatchIs2 DEF Both
<1>8. Len(outs[row.drafted]) = First(batch, k)
  BY <1>0, <1>4 DEF OutsAre
<1>9. Known(conv[row.r], recurrent[row.r], Ka!From(row), l, row.base)
  <2>1. ASSUME NEW i \in 1 .. ran PROVE batch[Turn(batch, i)].r # row.r
    <3>1. i \in 1 .. Len(batch) /\ i # ran + 1
      BY <1>0, <1>5
    <3>2. Turn(batch, i) \in 1 .. Len(batch) /\ Turn(batch, i) # k
      BY Zenon, <1>3, <1>5, <3>1, TurnIs
    <3>3. Len(batch) = 2 => batch[1].r # batch[2].r
      BY <1>3, BatchIs2
    <3> HIDE DEF k
    <3> QED BY <1>5, <1>6, <3>2, <3>3
  <2> HIDE DEF row
  <2>2. Resting(conv, recurrent, accepted, life, done, row.r)
    BY <1>4, <1>7, <2>1 DEF Progress
  <2>3. l > 0
    BY <1>7 DEF RowWell
  <2>4. Known(conv[row.r], recurrent[row.r], accepted[row.r], l, done[row.r])
    BY <2>2, <2>3 DEF Resting
  <2>5. row.base = done[row.r] /\ (~row.drafted => accepted[row.r] = 1)
    BY <1>4, <1>6 DEF Asks, row
  <2>6. Ka!From(row) = accepted[row.r]
    BY <2>5 DEF Ka!From
  <2> QED BY <2>4, <2>5, <2>6
<1>10. Ka!History(row) = Before(l, row) /\ Ka!Initial(row) = Text(l, row.base)
  <2>1. row.base = 0 => Ka!Fresh(row)
    <3>1. row.base = 0 => ~row.drafted /\ row.n > 1
      BY <1>7 DEF RowWell
    <3>2. k \in DOMAIN batch
      BY <1>3, <1>6, BatchIs2
    <3> QED BY <3>1, <3>2 DEF Ka!Fresh
  <2> HIDE DEF row, l
  <2> QED BY Zenon, <1>7, <1>9, <2>1, StartsFrom
<1>11. group(row) = OwnTokens(l, row)
  <2>1. ASSUME NEW j \in 1 .. row.n
        PROVE  Ka!Step[Ka!Indexed(row.drafted, Len(outs[row.drafted]) + j)].token = Of(l, row, j)
    BY Zenon, <1>3, <1>6, <1>8, IndexedIs
  <2> QED BY <2>1 DEF OwnTokens
<1>12. all(row) = Seen(l, row)
  <2>1. Before(l, row) \o OwnTokens(l, row) = Seen(l, row)
    BY Zenon, <1>7, SeenIs
  <2> QED BY Zenon, <1>10, <1>11, <2>1
<1>13. Ka!Attended(row, Seen(l, row)) = OwnTokens(l, row)
  BY Zenon, <1>7, <1>10, AttendedIs
<1> HIDE DEF R, all, row, k, l
<1>14. /\ conv' = [conv EXCEPT ![row.r] = Ka!Window(row, Seen(l, row))]
       /\ recurrent' = [recurrent EXCEPT ![row.r] = Ka!Written(row, OwnTokens(l, row))]
       /\ outs' = [outs EXCEPT ![row.drafted] = @ \o OwnTokens(l, row)]
  BY <1>1, <1>6, <1>12, <1>13
<1> QED BY <1>3, <1>5, <1>6, <1>8, <1>14 DEF row, k, l

\* A group is one of two, and none has outputs at first.
LEMMA EmptyLen == (\A d \in BOOLEAN : d = TRUE \/ d = FALSE) /\ Len(<<>>) = 0
OBVIOUS

\* A row that runs keeps the invariant.
LEMMA RunKeeps == ASSUME RowsWell, Ka!RunRow PROVE RowsWell'
<1> DEFINE k == Turn(batch, ran + 1)
           row == batch[k]
           l == life[row.r]
           d == row.drafted
           o == OwnTokens(l, row)
           w == Ka!Window(row, Seen(l, row))
           z == Ka!Written(row, o)
<1>1. /\ ran + 1 \in 1 .. Len(batch) /\ BatchWell(batch, life) /\ ~Ka!Idle
      /\ k \in 1 .. Len(batch)
      /\ conv' = [conv EXCEPT ![row.r] = w] /\ recurrent' = [recurrent EXCEPT ![row.r] = z]
      /\ outs' = [outs EXCEPT ![d] = @ \o o]
      /\ Len(outs[d]) = First(batch, k)
  BY Zenon, RunIs
<1>2. /\ ran' = ran + 1
      /\ UNCHANGED <<weights, merged, drafting, life, done, accepted, batch, core>>
  BY DEF Ka!RunRow, Ka!launch
<1>3. /\ Asks(batch, done, accepted, drafting) /\ OutsAre(outs, life, batch, ran)
      /\ Progress(conv, recurrent, accepted, life, done, batch, ran)
      /\ conv = [r \in Both |-> conv[r]] /\ recurrent = [r \in Both |-> recurrent[r]]
      /\ ran \in 0 .. Len(batch) /\ CountsWell(life, done, accepted, drafting) /\ WeightsWell
  BY <1>1 DEF RowsWell
<1>4. Len(batch) \in {1, 2} /\ ran \in {0, 1}
  <2>1. Len(batch) \in {1, 2}
    BY <1>1, BatchIs2
  <2>2. ran + 1 \in 1 .. Len(batch)
    BY <1>1
  <2>3. ran \in 0 .. Len(batch)
    BY <1>3
  <2> DEFINE m == Len(batch)
  <2>4. m \in {1, 2} /\ ran + 1 \in 1 .. m /\ ran \in 0 .. m
    BY <2>1, <2>2, <2>3
  <2> HIDE DEF m
  <2>7. ran \in {0, 1}
    BY <2>4
  <2> QED BY <2>1, <2>7
<1>5. /\ row.r \in Both /\ RowWell(row, l) /\ d \in BOOLEAN /\ row.n \in Nat \ {0}
      /\ Len(batch) = 2 => batch[1].r # batch[2].r
  BY <1>1, BatchIs2 DEF Both, RowWell
<1>6. Known(w, z, After(row), l, row.base + row.kept)
  BY Zenon, <1>5, LeavesKnown DEF After
<1>7. o \in Seq(Tokens) /\ Len(o) = row.n /\ \A j \in 1 .. row.n : o[j] = Of(l, row, j)
  <2>1. o \in Seq(Tokens) /\ Len(o) = row.n
    BY Zenon, <1>5, SeenIs
  <2> QED BY <2>1 DEF OwnTokens
<1> HIDE DEF w, z, o
<1>8. conv' = [r \in Both |-> conv'[r]] /\ recurrent' = [r \in Both |-> recurrent'[r]]
  BY <1>1, <1>3
<1>9. /\ conv'[row.r] = w /\ recurrent'[row.r] = z
      /\ \A r \in Both : r # row.r => conv'[r] = conv[r] /\ recurrent'[r] = recurrent[r]
  <2> HIDE DEF row
  <2> QED BY <1>1, <1>3, <1>5
<1>10. \A i \in 1 .. ran : /\ Turn(batch, i) \in 1 .. Len(batch) /\ Turn(batch, i) # k
                           /\ batch[Turn(batch, i)].r \in Both
                           /\ batch[Turn(batch, i)].r # row.r
  <2>1. ASSUME NEW i \in 1 .. ran
        PROVE  /\ Turn(batch, i) \in 1 .. Len(batch) /\ Turn(batch, i) # k
               /\ batch[Turn(batch, i)].r \in Both /\ batch[Turn(batch, i)].r # row.r
    <3>1. i \in 1 .. Len(batch) /\ i # ran + 1
      BY <1>1, <1>4
    <3>2. Turn(batch, i) \in 1 .. Len(batch) /\ Turn(batch, i) # k
      BY Zenon, <1>1, <3>1, TurnIs
    <3>3. batch[Turn(batch, i)].r \in Both
      BY <1>1, <3>2, BatchIs2 DEF Both
    <3>4. batch[Turn(batch, i)].r # row.r
      <4> DEFINE t == Turn(batch, i)
      <4> HIDE DEF k, t
      <4>1. t \in 1 .. Len(batch) /\ t # k
        BY <3>2 DEF t, k
      <4>2. batch[t].r # batch[k].r
        BY <1>1, <1>4, <1>5, <4>1
      <4> QED BY <4>2 DEF t
    <3> QED BY <3>2, <3>3, <3>4
  <2> QED BY <2>1
<1>11. Progress(conv', recurrent', accepted, life, done, batch, ran + 1)
  <2>1. ASSUME NEW i \in 1 .. ran + 1
        PROVE  Reached(conv', recurrent', life, batch[Turn(batch, i)])
    <3>1. CASE i = ran + 1
      <4>1. Reached(conv', recurrent', life, row)
        BY <1>6, <1>9 DEF Reached
      <4> QED BY <3>1, <4>1
    <3>2. CASE i # ran + 1
      <4>1. i \in 1 .. ran
        BY <1>4, <3>2
      <4> DEFINE row2 == batch[Turn(batch, i)]
      <4>2. Reached(conv, recurrent, life, row2)
        BY <1>3, <4>1 DEF Progress
      <4>3. row2.r \in Both /\ row2.r # row.r
        BY <1>10, <4>1
      <4> HIDE DEF row2, row
      <4>4. conv'[row2.r] = conv[row2.r] /\ recurrent'[row2.r] = recurrent[row2.r]
        BY <1>9, <4>3
      <4>5. Reached(conv', recurrent', life, row2)
        BY <4>2, <4>4 DEF Reached
      <4> QED BY <4>5 DEF row2
    <3> QED BY <3>1, <3>2
  <2>2. ASSUME NEW r \in Both, \A i \in 1 .. ran + 1 : batch[Turn(batch, i)].r # r
        PROVE  Resting(conv', recurrent', accepted, life, done, r)
    <3>1. ran + 1 \in 1 .. ran + 1 /\ \A i \in 1 .. ran : i \in 1 .. ran + 1
      BY <1>4
    <3>2. row.r # r /\ \A i \in 1 .. ran : batch[Turn(batch, i)].r # r
      BY <2>2, <3>1
    <3>3. Resting(conv, recurrent, accepted, life, done, r)
      BY <1>3, <3>2 DEF Progress
    <3>4. conv'[r] = conv[r] /\ recurrent'[r] = recurrent[r]
      BY <1>9, <3>2
    <3> QED BY <3>3, <3>4 DEF Resting
  <2> QED BY <2>1, <2>2 DEF Progress
<1>12. OutsAre(outs', life, batch, ran + 1)
  <2>1. outs = [e \in BOOLEAN |-> outs[e]] /\ \A e \in BOOLEAN : outs[e] \in Seq(Tokens)
    BY <1>3 DEF OutsAre
  <2> DEFINE joined == outs[d] \o o
  <2>2. /\ joined \in Seq(Tokens) /\ Len(joined) = Len(outs[d]) + row.n
        /\ \A i \in 1 .. Len(outs[d]) : joined[i] = outs[d][i]
        /\ \A j \in 1 .. row.n : joined[Len(outs[d]) + j] = o[j]
    <3> DEFINE u == outs[d]
    <3>1. u \in Seq(Tokens)
      BY <1>5, <2>1
    <3> HIDE DEF u
    <3>2. u \o o \in Seq(Tokens) /\ Len(u \o o) = Len(u) + Len(o)
          /\ \A i \in 1 .. Len(u) + Len(o) : (u \o o)[i] = IF i <= Len(u) THEN u[i] ELSE o[i - Len(u)]
      BY <1>7, <3>1, ConcatProperties
    <3> DEFINE v == u \o o
    <3> HIDE DEF v
    <3>3. v \in Seq(Tokens) /\ Len(v) = Len(u) + Len(o)
          /\ \A i \in 1 .. Len(u) + Len(o) : v[i] = IF i <= Len(u) THEN u[i] ELSE o[i - Len(u)]
      BY <3>2 DEF v
    <3>4. Len(o) = row.n /\ Len(u) \in Nat /\ row.n \in Nat
      BY <1>5, <1>7, <3>1
    <3> HIDE DEF row
    <3>5. \A j \in 1 .. Len(u) : v[j] = u[j]
      BY <3>3, <3>4
    <3>6. ASSUME NEW j \in 1 .. row.n PROVE v[Len(u) + j] = o[j]
      <4>1. Len(u) + j \in 1 .. Len(u) + Len(o) /\ ~(Len(u) + j <= Len(u)) /\ (Len(u) + j) - Len(u) = j
        BY <3>4
      <4> QED BY <3>3, <4>1
    <3> QED BY <3>3, <3>4, <3>5, <3>6 DEF u, v
  <2>3. outs'[d] = joined /\ \A e \in BOOLEAN : e # d => outs'[e] = outs[e]
    <3> HIDE DEF row, joined
    <3> QED BY <1>1, <1>5, <2>1 DEF joined
  <2>4. outs' = [e \in BOOLEAN |-> outs'[e]]
    <3> HIDE DEF row
    <3> QED BY <1>1, <2>1
  <2>5. \A e \in BOOLEAN : outs'[e] \in Seq(Tokens)
    <3> HIDE DEF row, joined
    <3> QED BY <2>1, <2>2, <2>3
  <2>6. Put(outs', life, batch, k)
    <3>1. ASSUME NEW j \in 1 .. row.n
          PROVE  /\ First(batch, k) + j \in 1 .. Len(outs'[d])
                 /\ outs'[d][First(batch, k) + j] = Of(l, row, j)
      <4>1. First(batch, k) \in Nat /\ Len(outs'[d]) = First(batch, k) + row.n
        <5>1. Len(outs[d]) \in Nat
          BY <1>5, <2>1
        <5> QED BY <1>1, <2>2, <2>3, <5>1
      <4>2. First(batch, k) + j \in 1 .. Len(outs'[d])
        BY <1>5, <4>1
      <4>3. outs'[d][First(batch, k) + j] = o[j]
        <5>1. First(batch, k) = Len(outs[d])
          BY <1>1
        <5>2. joined[Len(outs[d]) + j] = o[j]
          <6> HIDE DEF joined, d, row
          <6> QED BY Zenon, <2>2
        <5>3. outs'[d] = joined
          BY <2>3
        <5> HIDE DEF k, d, joined, row
        <5> QED BY Zenon, <5>1, <5>2, <5>3
      <4> QED BY <1>7, <4>2, <4>3
    <3> QED BY <3>1 DEF Put
  <2>7. ASSUME NEW i \in 1 .. ran + 1 PROVE Put(outs', life, batch, Turn(batch, i))
    <3>1. CASE i = ran + 1
      BY <2>6, <3>1
    <3>2. CASE i # ran + 1
      <4> DEFINE t == Turn(batch, i)
                 e == batch[t].drafted
      <4>1. i \in 1 .. ran
        BY <1>4, <3>2
      <4>2. Put(outs, life, batch, t)
        BY <1>3, <4>1 DEF OutsAre
      <4>3. e \in BOOLEAN /\ batch[t].n \in Nat
        BY <1>1, <1>10, <4>1, BatchIs2 DEF RowWell
      <4> HIDE DEF t, row
      <4>4. ASSUME NEW j \in 1 .. batch[t].n
            PROVE  /\ First(batch, t) + j \in 1 .. Len(outs'[e])
                   /\ outs'[e][First(batch, t) + j] = Of(life[batch[t].r], batch[t], j)
        <5>1. /\ First(batch, t) + j \in 1 .. Len(outs[e])
              /\ outs[e][First(batch, t) + j] = Of(life[batch[t].r], batch[t], j)
          BY <4>2 DEF Put
        <5> HIDE DEF e
        <5>2. CASE e = d
          <6>1. Len(outs[e]) \in Nat /\ Len(outs'[e]) = Len(outs[e]) + row.n
            <7> HIDE DEF joined, d
            <7> QED BY <2>1, <2>2, <2>3, <4>3, <5>2
          <6>2. outs'[e][First(batch, t) + j] = outs[e][First(batch, t) + j]
            BY <2>2, <2>3, <5>1, <5>2
          <6> QED BY <1>5, <5>1, <6>1, <6>2
        <5>3. CASE e # d
          <6>1. outs'[e] = outs[e]
            BY <2>3, <4>3, <5>3
          <6> QED BY <5>1, <6>1
        <5> QED BY <5>2, <5>3
      <4>5. Put(outs', life, batch, t)
        BY <4>4 DEF Put
      <4> QED BY <4>5 DEF t
    <3> QED BY <3>1, <3>2
  <2>8. ASSUME ran + 1 < Len(batch)
        PROVE  Len(outs'[batch[Turn(batch, ran + 1 + 1)].drafted])
                 = First(batch, Turn(batch, ran + 1 + 1))
    <3> DEFINE t == Turn(batch, ran + 1 + 1)
               e == batch[t].drafted
    <3>1. ran = 0 /\ Len(batch) = 2
      <4>1. Len(batch) \in {1, 2} /\ ran \in {0, 1} /\ ran + 1 < Len(batch)
        BY <1>4, <2>8
      <4> DEFINE m == Len(batch)
      <4>2. m \in {1, 2} /\ ran \in {0, 1} /\ ran + 1 < m
        BY <4>1
      <4> HIDE DEF m
      <4>3. ran = 0 /\ m = 2
        BY <4>2
      <4> QED BY <4>3 DEF m
    <3>2. outs[TRUE] = <<>> /\ outs[FALSE] = <<>>
      BY <1>3, <3>1 DEF OutsAre
    <3>3. k = Turn(batch, 1) /\ t = Turn(batch, 2)
      BY <3>1
    <3>4. /\ batch[1].drafted \in BOOLEAN /\ batch[2].drafted \in BOOLEAN
      BY <1>1, <3>1, BatchIs2 DEF RowWell
    <3>5. CASE batch[1].drafted = batch[2].drafted
      <4>1. k = 1 /\ t = 2
        BY <3>3, <3>5 DEF Turn, Swapped
      <4>2. First(batch, t) = row.n /\ e = d
        BY <3>5, <4>1 DEF First
      <4>3. Len(outs[d]) = 0
        <5> HIDE DEF d
        <5> QED BY Zenon, <1>5, <3>2, EmptyLen
      <4>4. Len(outs'[d]) = row.n
        <5>1. row.n \in Nat
          BY <1>5
        <5> HIDE DEF joined, d, row
        <5> QED BY <2>2, <2>3, <4>3, <5>1
      <4> QED BY <4>2, <4>4
    <3>6. CASE batch[1].drafted # batch[2].drafted
      <4>1. First(batch, t) = 0
        BY <3>6 DEF First
      <4>2. e \in BOOLEAN /\ e # d
        <5>1. (k = 1 /\ t = 2) \/ (k = 2 /\ t = 1)
          BY <3>3 DEF Turn
        <5> HIDE DEF k, t
        <5> QED BY <3>4, <3>6, <5>1
      <4>3. outs'[e] = outs[e]
        <5> HIDE DEF e, row
        <5> QED BY <2>3, <4>2
      <4>4. Len(outs[e]) = 0
        <5> HIDE DEF e
        <5> QED BY Zenon, <3>2, <4>2, EmptyLen
      <4> QED BY <4>1, <4>3, <4>4
    <3> QED BY <3>5, <3>6
  <2>9. ran + 1 # 0
    BY <1>4
  <2> HIDE DEF joined, row
  <2> QED BY <2>4, <2>5, <2>7, <2>8, <2>9 DEF OutsAre
<1>13. ~Ka!Idle' /\ ran + 1 \in 0 .. Len(batch)
  BY <1>1, <1>2, <1>4 DEF Ka!Idle
<1>14. WeightsWell' /\ core = <<>>
  BY <1>1, <1>2, <1>3 DEF WeightsWell, Ka!Idle
<1> HIDE DEF k, row, l, d
<1> QED BY <1>1, <1>2, <1>3, <1>8, <1>11, <1>12, <1>13, <1>14 DEF RowsWell

\* The merged outputs are every token's own.
LEMMA MergeIs ==
    ASSUME BatchWell(batch, life), OutsAre(outs, life, batch, Len(batch))
    PROVE  Ka!Merge # <<>> /\ \A p \in DOMAIN Ka!Merge : Ka!Merge[p] = Ka!Step[p].token
<1>1. DOMAIN Ka!Merge = DOMAIN Ka!Step
      /\ \A p \in DOMAIN Ka!Step : Ka!Merge[p] = outs[Ka!Step[p].drafted][Ka!Place(p)]
  BY DEF Ka!Merge
<1>2. ASSUME NEW p \in DOMAIN Ka!Step PROVE Ka!Merge[p] = Ka!Step[p].token
  <2>1. PICK k \in 1 .. Len(batch) : \E j \in 1 .. batch[k].n : p = Offset(batch, k) + j
    BY StepHas
  <2>2. PICK j \in 1 .. batch[k].n : p = Offset(batch, k) + j
    BY <2>1
  <2>3. /\ Ka!Step[p].token = Of(life[batch[k].r], batch[k], j)
        /\ Ka!Step[p].drafted = batch[k].drafted
    BY Zenon, <2>2, StepAt
  <2>4. Ka!Place(p) = First(batch, k) + j
    BY Zenon, <2>2, PlaceIs
  <2>5. PICK i \in 1 .. Len(batch) : k = Turn(batch, i)
    BY Zenon, TurnIs
  <2>6. Put(outs, life, batch, k)
    BY Zenon, <2>5 DEF OutsAre
  <2>7. outs[batch[k].drafted][First(batch, k) + j] = Of(life[batch[k].r], batch[k], j)
    BY Zenon, <2>6 DEF Put
  <2> QED BY Zenon, <1>1, <2>3, <2>4, <2>7
<1>3. DOMAIN Ka!Step # {}
  <2>1. Len(batch) \in {1, 2} /\ \A k \in 1 .. Len(batch) : RowWell(batch[k], life[batch[k].r])
    BY BatchIs2
  <2>2. 1 \in 1 .. Len(batch)
    BY <2>1
  <2>3. 1 \in 1 .. batch[1].n
    BY <2>1, <2>2 DEF RowWell
  <2>4. Offset(batch, 1) + 1 \in DOMAIN Ka!Step
    BY Zenon, <2>2, <2>3, StepAt
  <2> QED BY <2>4
<1>4. ASSUME Ka!Merge = <<>> PROVE FALSE
  <2>1. DOMAIN <<>> = {}
    OBVIOUS
  <2>2. DOMAIN Ka!Merge = {}
    BY Zenon, <1>4, <2>1
  <2> QED BY <1>1, <1>3, <2>2
<1> QED BY <1>1, <1>2, <1>4

\* The return keeps the invariant.
LEMMA ReturnKeeps == ASSUME RowsWell, Ka!Return PROVE RowsWell'
<1> DEFINE rowOf(r) == {i \in DOMAIN batch : batch[i].r = r}
           kept(r) == batch[CHOOSE i \in rowOf(r) : TRUE].kept
<1>1. /\ ~Ka!Idle /\ ran = Len(batch) /\ core' = Ka!Merge /\ outs' = [d \in BOOLEAN |-> <<>>]
      /\ done' = [r \in {1, 2} |-> IF rowOf(r) = {} THEN done[r] ELSE done[r] + kept(r)]
      /\ accepted' = [r \in {1, 2} |-> IF \E i \in rowOf(r) : batch[i].drafted THEN kept(r)
                                       ELSE accepted[r]]
      /\ UNCHANGED <<weights, merged, drafting, life, conv, recurrent, batch, ran>>
  BY DEF Ka!Return, Ka!launch, Ka!state
<1>2. /\ batch # <<>> /\ BatchWell(batch, life)
      /\ Asks(batch, done, accepted, drafting) /\ OutsAre(outs, life, batch, ran)
      /\ Progress(conv, recurrent, accepted, life, done, batch, ran)
      /\ conv = [r \in Both |-> conv[r]] /\ recurrent = [r \in Both |-> recurrent[r]]
      /\ CountsWell(life, done, accepted, drafting) /\ WeightsWell /\ ran \in 0 .. Len(batch)
  BY <1>1 DEF RowsWell, Ka!Idle
<1>3. /\ Len(batch) \in {1, 2} /\ DOMAIN batch = 1 .. Len(batch)
      /\ Len(batch) = 2 => batch[1].r # batch[2].r
      /\ \A k \in 1 .. Len(batch) : batch[k].r \in Both /\ RowWell(batch[k], life[batch[k].r])
  BY <1>2, BatchIs2 DEF Both
<1>4. ASSUME NEW r \in Both, NEW k \in 1 .. Len(batch), batch[k].r = r
      PROVE  done'[r] = batch[k].base + batch[k].kept /\ accepted'[r] = After(batch[k])
  <2>1. \A i \in 1 .. Len(batch) : batch[i].r = r => i = k
    BY <1>3, <1>4
  <2>2. rowOf(r) = {k}
    BY <1>3, <1>4, <2>1
  <2>3. (CHOOSE i \in {k} : TRUE) = k
    OBVIOUS
  <2>4. kept(r) = batch[k].kept
    BY Zenon, <2>2, <2>3
  <2>5. rowOf(r) # {} /\ ((\E i \in rowOf(r) : batch[i].drafted) <=> batch[k].drafted)
    BY <2>2
  <2>6. batch[k].base = done[r] /\ (~batch[k].drafted => accepted[r] = 1)
    BY <1>2, <1>4 DEF Asks
  <2> HIDE DEF kept, rowOf
  <2>7. done'[r] = done[r] + kept(r)
    BY <1>1, <2>5 DEF Both
  <2>8. accepted'[r] = IF batch[k].drafted THEN kept(r) ELSE accepted[r]
    BY <1>1, <2>5 DEF Both
  <2>9. accepted'[r] = After(batch[k])
    BY <2>4, <2>6, <2>8 DEF After
  <2> QED BY <2>4, <2>6, <2>7, <2>9
<1>5. ASSUME NEW r \in Both, \A k \in 1 .. Len(batch) : batch[k].r # r
      PROVE  done'[r] = done[r] /\ accepted'[r] = accepted[r]
  <2>1. rowOf(r) = {}
    BY <1>3, <1>5
  <2> HIDE DEF kept, rowOf
  <2> QED BY <1>1, <2>1 DEF Both
<1>6. done' = [r \in Both |-> done'[r]] /\ accepted' = [r \in Both |-> accepted'[r]]
  <2> HIDE DEF kept, rowOf
  <2> QED BY <1>1 DEF Both
<1> HIDE DEF kept, rowOf
<1>7. ASSUME NEW k \in 1 .. Len(batch) PROVE Reached(conv, recurrent, life, batch[k])
  <2>1. PICK i \in 1 .. Len(batch) : k = Turn(batch, i)
    BY Zenon, <1>2, TurnIs
  <2>2. i \in 1 .. ran
    BY Zenon, <1>1, <2>1
  <2> QED BY Zenon, <1>2, <2>1, <2>2 DEF Progress
<1>8. ASSUME NEW r \in Both
      PROVE  /\ Resting(conv, recurrent, accepted', life, done', r)
             /\ done'[r] \in Nat /\ accepted'[r] \in 1 .. 1 + Speculated
             /\ done'[r] < PromptLength \/ ~drafting => accepted'[r] = 1
  <2>1. CASE \E k \in 1 .. Len(batch) : batch[k].r = r
    <3>1. PICK k \in 1 .. Len(batch) : batch[k].r = r
      BY <2>1
    <3>2. done'[r] = batch[k].base + batch[k].kept /\ accepted'[r] = After(batch[k])
      BY <1>4, <3>1
    <3>3. Known(conv[r], recurrent[r], After(batch[k]), life[r], batch[k].base + batch[k].kept)
      BY <1>7, <3>1 DEF Reached
    <3>4. Known(conv[r], recurrent[r], accepted'[r], life[r], done'[r])
      BY <3>2, <3>3
    <3>5. accepted'[r] \in 1 .. 1 + Speculated
      BY <3>4 DEF Known
    <3>6. batch[k].base \in Nat /\ batch[k].kept \in Nat
      BY <1>3 DEF RowWell
    <3>7. done'[r] \in Nat
      BY <3>2, <3>6
    <3>8. batch[k].drafted => drafting /\ batch[k].base >= PromptLength
      BY <1>2 DEF Asks
    <3>9. done'[r] < PromptLength \/ ~drafting => accepted'[r] = 1
      <4>1. CASE batch[k].drafted
        <5>1. ~(done'[r] < PromptLength) /\ drafting
          BY <3>2, <3>6, <3>8, <4>1, KdaAssumption
        <5> QED BY <5>1
      <4>2. CASE ~batch[k].drafted
        BY <3>2, <4>2 DEF After
      <4> QED BY <4>1, <4>2
    <3> QED BY <3>4, <3>5, <3>7, <3>9 DEF Resting
  <2>2. CASE \A k \in 1 .. Len(batch) : batch[k].r # r
    <3>1. done'[r] = done[r] /\ accepted'[r] = accepted[r]
      BY <1>5, <2>2
    <3>2. ASSUME NEW i \in 1 .. ran PROVE batch[Turn(batch, i)].r # r
      <4>1. Turn(batch, i) \in 1 .. Len(batch)
        BY Zenon, <1>1, <1>2, TurnIs
      <4> QED BY <2>2, <4>1
    <3>3. Resting(conv, recurrent, accepted, life, done, r)
      BY <1>2, <3>2 DEF Progress
    <3>4. Resting(conv, recurrent, accepted', life, done', r)
      BY <3>1, <3>3 DEF Resting
    <3>5. /\ done[r] \in Nat /\ accepted[r] \in 1 .. 1 + Speculated
          /\ done[r] < PromptLength \/ ~drafting => accepted[r] = 1
      BY <1>2 DEF CountsWell
    <3> QED BY <3>1, <3>4, <3>5
  <2> QED BY <2>1, <2>2
<1>9. CountsWell(life, done', accepted', drafting)
  <2>1. life \in [Both -> Nat]
    BY <1>2 DEF CountsWell
  <2>2. done' \in [Both -> Nat]
    BY <1>6, <1>8
  <2>3. accepted' \in [Both -> 1 .. 1 + Speculated]
    BY <1>6, <1>8
  <2> QED BY <1>8, <2>1, <2>2, <2>3 DEF CountsWell
<1>10. core' # <<>> /\ \A p \in DOMAIN core' : core'[p] = Ka!Step'[p].token
  <2>1. Ka!Merge # <<>> /\ \A p \in DOMAIN Ka!Merge : Ka!Merge[p] = Ka!Step[p].token
    BY Zenon, <1>1, <1>2, MergeIs
  <2>2. Ka!Step' = Ka!Step
    BY <1>1 DEF Ka!Step, Ka!Token
  <2> QED BY Zenon, <1>1, <2>1, <2>2
<1>11. Ka!Idle'
  BY <1>10 DEF Ka!Idle
<1>12. WeightsWell'
  BY <1>1, <1>2 DEF WeightsWell
<1> QED BY <1>1, <1>2, <1>8, <1>9, <1>10, <1>11, <1>12 DEF RowsWell

-----------------------------------------------------------------------------
KdaInv == subject = "kda" => RowsWell

\* Every step of the layer keeps its invariant.
LEMMA KaKept == KdaInv /\ [MCNext]_<<vars, subject, pipelineVars, kdaVars, selectionVars>> => KdaInv'
<1> SUFFICES ASSUME KdaInv, subject' = "kda",
                    [MCNext]_<<vars, subject, pipelineVars, kdaVars, selectionVars>>
             PROVE  RowsWell'
  BY DEF KdaInv
<1>1. CASE UNCHANGED kdaVars /\ subject' = subject
  <2>1. RowsWell
    BY <1>1 DEF KdaInv
  <2>2. UNCHANGED <<weights, merged, drafting, life, done, accepted, conv, recurrent, batch, ran,
                    outs, core>>
    BY <1>1 DEF kdaVars
  <2>3. WeightsWell'
    BY <2>1, <2>2 DEF RowsWell, WeightsWell
  <2> QED BY <2>1, <2>2, <2>3, RowsStay
<1>2. \A it : Only(it) => subject = it /\ subject' = it /\ (it # "kda" => UNCHANGED kdaVars)
  BY DEF Only
<1>3. CASE Only("kda") /\ MCNext
  <2>1. RowsWell
    BY <1>2, <1>3 DEF KdaInv
  <2>2. \/ \E name : Ka!LoadShard(name)
        \/ Ka!LoadOthers \/ Ka!RunRow \/ Ka!Return
        \/ \E r \in Both : Ka!Begin(r) \/ Ka!ForwardOne(r) \/ Ka!ForwardTwo(r, 3 - r)
    BY <1>2, <1>3 DEF MCNext, Both
  <2>3. CASE \E name : Ka!LoadShard(name)
    BY <2>1, <2>3, LoadKeeps DEF Ka!LoadShard
  <2>4. CASE Ka!LoadOthers
    BY <2>1, <2>4, LoadKeeps DEF Ka!LoadOthers
  <2>5. \A r \in Both : 3 - r \in Both
    BY DEF Both
  <2> QED BY <2>1, <2>2, <2>3, <2>4, <2>5, RunKeeps, ReturnKeeps, BeginKeeps, OneKeeps, TwoKeep
<1>4. CASE MCNext /\ ~Only("kda")
  <2>1. Only("ring") \/ Only("pipeline") \/ Only("selection")
    BY <1>4 DEF MCNext
  <2>2. UNCHANGED kdaVars /\ subject' = subject
    BY <1>2, <2>1
  <2> QED BY <1>1, <2>2
<1>5. CASE UNCHANGED <<vars, subject, pipelineVars, kdaVars, selectionVars>>
  BY <1>1, <1>5
<1> QED BY <1>3, <1>4, <1>5

\* For any number of speculated tokens, any convolution and any prompt of two tokens or
\* more: a token's linear attention is of its own request's text, whatever was rejected
\* before it, shared its step or used its columns, and is computed with this rank's slices.
THEOREM RowsOwn == MCSpec => []RowsAreTheirOwn
<1>1. MCInit => KdaInv
  <2> SUFFICES ASSUME MCInit, subject = "kda" PROVE RowsWell
    BY DEF KdaInv
  <2>1. Ka!Init
    BY DEF MCInit
  <2> QED BY <2>1, RowsFirst
<1>2. KdaInv => RowsAreTheirOwn
  <2> SUFFICES ASSUME subject = "kda", RowsWell PROVE Ka!RowsAreTheirOwn
    BY DEF KdaInv, RowsAreTheirOwn
  <2> QED BY DEF RowsWell, WeightsWell, OwnSlices, Ka!RowsAreTheirOwn
<1>3. KdaInv /\ [MCNext]_<<vars, subject, pipelineVars, kdaVars, selectionVars>> => KdaInv'
  BY KaKept
<1> QED BY <1>1, <1>2, <1>3, PTL DEF MCSpec
------------------------------------------------------------------------------
(* What the kernels leave open. *)

\* The elements of a set that come before one of them.
Below(S, key, x) == {y \in S : key[y] < key[x]}
\* Keys that put the elements of a finite set in one order.
Orders(S, key) == /\ IsFiniteSet(S) /\ key \in [S -> Int]
                  /\ \A x, y \in S : key[x] = key[y] => x = y

\* The selection counts as the proofs do.
LEMMA SeCardinality == \A S : Se!Cardinality(S) = Cardinality(S)
BY Zenon DEF Se!Cardinality, Cardinality

\* An element's place is how many come before it, and tells it from the others.
LEMMA PlaceTells ==
    ASSUME NEW S, NEW key, Orders(S, key)
    PROVE  /\ \A x \in S : /\ Cardinality(Below(S, key, x)) \in Nat
                           /\ Cardinality(Below(S, key, x)) + 1 \in 1 .. Cardinality(S)
           /\ \A x, y \in S : key[x] < key[y] =>
                Cardinality(Below(S, key, x)) < Cardinality(Below(S, key, y))
           /\ \A x, y \in S : Cardinality(Below(S, key, x)) = Cardinality(Below(S, key, y)) => x = y
<1>0. IsFiniteSet(S) /\ \A x \in S : key[x] \in Int
  BY DEF Orders
<1>1. \A x \in S : IsFiniteSet(Below(S, key, x)) /\ Cardinality(Below(S, key, x)) \in Nat
  BY <1>0, FS_Subset, FS_CardinalityType DEF Below
<1>2. Cardinality(S) \in Nat
  BY <1>0, FS_CardinalityType
<1>3. ASSUME NEW x \in S PROVE Cardinality(Below(S, key, x)) + 1 \in 1 .. Cardinality(S)
  <2>1. Below(S, key, x) \in SUBSET (S \ {x})
    BY <1>0 DEF Below
  <2>2. IsFiniteSet(S \ {x}) /\ Cardinality(S \ {x}) = Cardinality(S) - 1
    BY <1>0, FS_RemoveElement
  <2>3. Cardinality(Below(S, key, x)) <= Cardinality(S \ {x})
    BY <2>1, <2>2, FS_Subset
  <2> QED BY <1>1, <1>2, <2>2, <2>3
<1>4. ASSUME NEW x \in S, NEW y \in S, key[x] < key[y]
      PROVE  Cardinality(Below(S, key, x)) < Cardinality(Below(S, key, y))
  <2>1. Below(S, key, x) \cup {x} \in SUBSET Below(S, key, y)
    BY <1>0, <1>4 DEF Below
  <2>2. x \notin Below(S, key, x)
    BY <1>0 DEF Below
  <2>3. Cardinality(Below(S, key, x) \cup {x}) = Cardinality(Below(S, key, x)) + 1
    BY <1>1, <2>2, FS_AddElement
  <2>4. Cardinality(Below(S, key, x) \cup {x}) <= Cardinality(Below(S, key, y))
    BY <1>1, <2>1, FS_Subset
  <2> QED BY <1>1, <2>3, <2>4
<1>5. ASSUME NEW x \in S, NEW y \in S,
             Cardinality(Below(S, key, x)) = Cardinality(Below(S, key, y)), x # y
      PROVE  FALSE
  <2>1. key[x] < key[y] \/ key[y] < key[x]
    BY <1>0, <1>5 DEF Orders
  <2> QED BY <1>1, <1>4, <1>5, <2>1
<1> QED BY <1>1, <1>3, <1>4, <1>5

\* Every place is somebody's.
LEMMA PlaceTaken ==
    ASSUME NEW S, NEW key, Orders(S, key), NEW i \in 1 .. Cardinality(S)
    PROVE  \E x \in S : Cardinality(Below(S, key, x)) = i - 1
<1> DEFINE n == Cardinality(S)
           place == [x \in S |-> Cardinality(Below(S, key, x)) + 1]
<1>1. IsFiniteSet(S) /\ n \in Nat
  BY FS_CardinalityType DEF Orders
<1>2. place \in Injection(S, 1 .. n)
  <2>1. place \in [S -> 1 .. n]
    BY PlaceTells
  <2>2. ASSUME NEW x \in S, NEW y \in S, place[x] = place[y] PROVE x = y
    <3>1. Cardinality(Below(S, key, x)) = Cardinality(Below(S, key, y))
      BY <2>2, PlaceTells
    <3> QED BY <3>1, PlaceTells
  <2> QED BY <2>1, <2>2 DEF Injection, IsInjective
<1>3. IsFiniteSet(1 .. n) /\ Cardinality(1 .. n) = n
  BY <1>1, FS_Interval
<1>4. place \in Surjection(S, 1 .. n)
  BY <1>1, <1>2, <1>3, FS_Injection
<1>5. PICK x \in S : place[x] = i
  BY <1>4 DEF Surjection
<1> QED BY <1>5, PlaceTells

\* A set in the order of its keys: each element once, at its place.
LEMMA SortedIs ==
    ASSUME NEW S, NEW key, Orders(S, key)
    PROVE  LET s == Se!Sorted(S, key) IN
           /\ Cardinality(S) \in Nat /\ s \in [1 .. Cardinality(S) -> S]
           /\ \A i \in 1 .. Cardinality(S) : Cardinality(Below(S, key, s[i])) = i - 1
           /\ \A x \in S : \E i \in 1 .. Cardinality(S) : s[i] = x
           /\ \A i, j \in 1 .. Cardinality(S) : i < j => key[s[i]] < key[s[j]]
           /\ \A i, j \in 1 .. Cardinality(S) : s[i] = s[j] => i = j
<1> DEFINE s == Se!Sorted(S, key)
           n == Cardinality(S)
           At(i) == CHOOSE x \in S : Se!Cardinality({y \in S : key[y] < key[x]}) = i - 1
<1>1. n \in Nat
  BY FS_CardinalityType DEF Orders
<1>2. s = [i \in 1 .. n |-> At(i)]
  BY Zenon, SeCardinality DEF Se!Sorted
<1>3. ASSUME NEW i \in 1 .. n
      PROVE  s[i] \in S /\ Cardinality(Below(S, key, s[i])) = i - 1
  <2>1. \E x \in S : Cardinality(Below(S, key, x)) = i - 1
    BY PlaceTaken
  <2>2. \E x \in S : Se!Cardinality({y \in S : key[y] < key[x]}) = i - 1
    BY Zenon, <2>1, SeCardinality DEF Below
  <2>3. At(i) \in S /\ Se!Cardinality({y \in S : key[y] < key[At(i)]}) = i - 1
    BY Zenon, <2>2
  <2>4. At(i) \in S /\ Cardinality(Below(S, key, At(i))) = i - 1
    BY Zenon, <2>3, SeCardinality DEF Below
  <2> QED BY <1>2, <2>4
<1>4. s \in [1 .. n -> S]
  BY <1>2, <1>3
<1> HIDE DEF s, n, At
<1>5. ASSUME NEW x \in S PROVE \E i \in 1 .. n : s[i] = x
  <2> DEFINE i == Cardinality(Below(S, key, x)) + 1
  <2>1. i \in 1 .. n /\ Cardinality(Below(S, key, x)) = i - 1
    BY PlaceTells DEF n
  <2> HIDE DEF i
  <2>2. s[i] \in S /\ Cardinality(Below(S, key, s[i])) = Cardinality(Below(S, key, x))
    BY <1>3, <2>1
  <2> QED BY <2>1, <2>2, PlaceTells
<1>6. ASSUME NEW i \in 1 .. n, NEW j \in 1 .. n, i < j PROVE key[s[i]] < key[s[j]]
  <2>1. s[i] \in S /\ s[j] \in S /\ key[s[i]] \in Int /\ key[s[j]] \in Int
    BY <1>3 DEF Orders
  <2>2. ~(key[s[j]] < key[s[i]])
    <3>1. ASSUME key[s[j]] < key[s[i]] PROVE FALSE
      <4>1. Cardinality(Below(S, key, s[j])) < Cardinality(Below(S, key, s[i]))
        BY <2>1, <3>1, PlaceTells
      <4> QED BY <1>3, <1>6, <4>1
    <3> QED BY <3>1
  <2>3. key[s[j]] # key[s[i]]
    <3>1. ASSUME key[s[j]] = key[s[i]] PROVE FALSE
      <4>1. s[j] = s[i]
        BY <2>1, <3>1 DEF Orders
      <4>2. j - 1 = i - 1
        BY <1>3, <4>1
      <4> QED BY <1>6, <4>2
    <3> QED BY <3>1
  <2> QED BY <2>1, <2>2, <2>3
<1>7. ASSUME NEW i \in 1 .. n, NEW j \in 1 .. n, s[i] = s[j] PROVE i = j
  <2>1. i - 1 = j - 1
    BY <1>3, <1>7
  <2> QED BY <2>1
<1> QED BY <1>1, <1>3, <1>4, <1>5, <1>6, <1>7 DEF s, n

\* And no other sequence is.
LEMMA SortedOnly ==
    ASSUME NEW S, NEW key, Orders(S, key), NEW n \in Nat, NEW f \in [1 .. n -> S],
           \A x \in S : \E i \in 1 .. n : f[i] = x,
           \A i, j \in 1 .. n : i < j => key[f[i]] < key[f[j]]
    PROVE  n = Cardinality(S) /\ f = Se!Sorted(S, key)
<1> DEFINE s == Se!Sorted(S, key)
<1>1. \A i, j \in 1 .. n : f[i] = f[j] => i = j
  <2>1. ASSUME NEW i \in 1 .. n, NEW j \in 1 .. n, f[i] = f[j] PROVE i = j
    <3>1. key[f[i]] \in Int /\ key[f[i]] = key[f[j]]
      BY <2>1 DEF Orders
    <3>2. ~(i < j) /\ ~(j < i)
      BY <3>1
    <3> QED BY <3>2
  <2> QED BY <2>1
<1>2. f \in Bijection(1 .. n, S)
  BY <1>1 DEF Bijection, Injection, Surjection, IsInjective
<1>3. n = Cardinality(S)
  BY <1>2, FS_CountingElements DEF ExistsBijection
<1>4. ASSUME NEW i \in 1 .. n PROVE Cardinality(Below(S, key, f[i])) = i - 1
  <2> DEFINE g == [k \in 1 .. i - 1 |-> f[k]]
             B == Below(S, key, f[i])
  <2>1. ASSUME NEW k \in 1 .. i - 1 PROVE f[k] \in B
    BY <2>1 DEF Below
  <2>2. ASSUME NEW y \in B PROVE \E k \in 1 .. i - 1 : f[k] = y
    <3>1. y \in S /\ key[y] < key[f[i]]
      BY DEF Below
    <3>2. PICK k \in 1 .. n : f[k] = y
      BY <3>1
    <3>3. key[f[k]] \in Int /\ key[f[i]] \in Int
      BY DEF Orders
    <3>4. ~(i < k) /\ k # i
      BY <3>1, <3>2, <3>3
    <3> QED BY <3>2, <3>4
  <2> HIDE DEF B
  <2>3. g \in Bijection(1 .. i - 1, B)
    BY <1>1, <2>1, <2>2 DEF Bijection, Injection, Surjection, IsInjective
  <2>4. i - 1 \in Nat
    OBVIOUS
  <2> HIDE DEF g
  <2>5. Cardinality(B) = i - 1
    BY <2>3, <2>4, FS_CountingElements DEF ExistsBijection
  <2> QED BY <2>5 DEF B
<1>5. s \in [1 .. n -> S] /\ \A i \in 1 .. n : Cardinality(Below(S, key, s[i])) = i - 1
  BY <1>3, SortedIs
<1> HIDE DEF s
<1>6. ASSUME NEW i \in 1 .. n PROVE f[i] = s[i]
  BY <1>4, <1>5, PlaceTells
<1>7. f = s
  BY <1>5, <1>6
<1> QED BY <1>3, <1>7 DEF s

\* The order of a row's columns: the larger logit first, of equal ones the lower.
RowKey(q) == [c \in Se!Reach(q) |-> c - LogitColumns * Se!Logit(q, c)]
\* The columns a row should take.
Best(q) ==
    {c \in Se!Reach(q) : Cardinality(Below(Se!Reach(q), RowKey(q), c)) < Candidates}

\* A row that takes those, each once, in whatever order.
Picked(q, row) ==
    /\ row \in [1 .. Candidates -> Int]
    /\ \A i \in 1 .. Candidates : row[i] # Se!Padding => row[i] + call.low[q] \in Best(q)
    /\ \A c \in Best(q) : \E i \in 1 .. Candidates :
         row[i] # Se!Padding /\ row[i] + call.low[q] = c
    /\ \A i, j \in 1 .. Candidates : row[i] # Se!Padding /\ row[i] = row[j] => i = j

\* A row's range, and the logits in it.
LEMMA CallIs ==
    ASSUME call \in Se!Calls, NEW q \in Se!Queries
    PROVE  /\ LogitColumns \in Nat /\ Candidates \in Nat /\ call.low[q] \in Nat
           /\ call.form \in {"prefill", "decode"}
           /\ \A c \in Se!Reach(q) : /\ c \in 0 .. LogitColumns - 1 /\ call.low[q] <= c
                                     /\ Se!Logit(q, c) \in Int
           /\ IsFiniteSet(Se!Reach(q))
<1>1. LogitColumns \in Nat /\ Candidates \in Nat /\ LogitValues \subseteq Int
  BY SelectionAssumption
<1>2. /\ call.logits \in [Se!Queries -> [Se!Cols -> LogitValues]]
      /\ call.low \in [Se!Queries -> 0 .. LogitColumns] /\ call.form \in {"prefill", "decode"}
  BY DEF Se!Calls
<1>3. call.low[q] \in 0 .. LogitColumns
  BY <1>2
<1>4. \A c \in Se!Reach(q) : /\ c \in 0 .. LogitColumns - 1 /\ c \in Se!Cols /\ call.low[q] <= c
  BY <1>1 DEF Se!Reach, Se!Cols
<1>5. \A c \in Se!Reach(q) : Se!Logit(q, c) \in Int
  BY <1>1, <1>2, <1>4 DEF Se!Logit
<1>6. Se!Reach(q) \in SUBSET (0 .. LogitColumns - 1) /\ IsFiniteSet(0 .. LogitColumns - 1)
  BY <1>1, <1>4, FS_Interval
<1> QED BY <1>1, <1>2, <1>3, <1>4, <1>5, <1>6, FS_Subset

\* What comes first among two columns.
LEMMA KeyBelow ==
    ASSUME NEW w \in Nat, NEW c \in 0 .. w - 1, NEW d \in 0 .. w - 1, NEW x \in Int, NEW y \in Int
    PROVE  d - w * y < c - w * x <=> y > x \/ (y = x /\ d < c)
<1>1. w * x \in Int /\ w * y \in Int
  OBVIOUS
<1>2. CASE y > x
  <2>1. w * (y - x) >= w
    <3>1. y - x - 1 \in Nat /\ y - x = (y - x - 1) + 1
      BY <1>2
    <3>2. w * (y - x) = w * (y - x - 1) + w /\ w * (y - x - 1) \in Nat
      BY <3>1
    <3> QED BY <3>2
  <2>2. w * (y - x) = w * y - w * x
    OBVIOUS
  <2>3. w * y >= w * x + w
    BY <1>1, <2>1, <2>2
  <2> QED BY <1>1, <1>2, <2>3
<1>3. CASE x > y
  <2>1. w * (x - y) >= w
    <3>1. x - y - 1 \in Nat /\ x - y = (x - y - 1) + 1
      BY <1>3
    <3>2. w * (x - y) = w * (x - y - 1) + w /\ w * (x - y - 1) \in Nat
      BY <3>1
    <3> QED BY <3>2
  <2>2. w * (x - y) = w * x - w * y
    OBVIOUS
  <2>3. w * x >= w * y + w
    BY <1>1, <2>1, <2>2
  <2> QED BY <1>1, <1>3, <2>3
<1>4. CASE x = y
  BY <1>1, <1>4
<1> QED BY <1>2, <1>3, <1>4

\* A row's keys put its columns in one order: the larger logit first, then the lower index.
LEMMA RowOrders ==
    ASSUME call \in Se!Calls, NEW q \in Se!Queries
    PROVE  /\ Orders(Se!Reach(q), RowKey(q))
           /\ \A c, d \in Se!Reach(q) : RowKey(q)[d] < RowKey(q)[c] <=>
                Se!Logit(q, d) > Se!Logit(q, c)
                  \/ (Se!Logit(q, d) = Se!Logit(q, c) /\ d < c)
<1>1. \A c \in Se!Reach(q) : RowKey(q)[c] = c - LogitColumns * Se!Logit(q, c)
  BY DEF RowKey
<1>2. \A c, d \in Se!Reach(q) : RowKey(q)[d] < RowKey(q)[c] <=>
        Se!Logit(q, d) > Se!Logit(q, c) \/ (Se!Logit(q, d) = Se!Logit(q, c) /\ d < c)
  BY <1>1, CallIs, KeyBelow
<1>3. ASSUME NEW c \in Se!Reach(q) PROVE RowKey(q)[c] \in Int
  <2>1. LogitColumns \in Int /\ Se!Logit(q, c) \in Int /\ c \in Int
    BY CallIs
  <2>2. LogitColumns * Se!Logit(q, c) \in Int
    BY <2>1
  <2> QED BY <1>1, <2>1, <2>2
<1>4. RowKey(q) \in [Se!Reach(q) -> Int]
  BY <1>1, <1>3 DEF RowKey
<1>5. ASSUME NEW c \in Se!Reach(q), NEW d \in Se!Reach(q), RowKey(q)[c] = RowKey(q)[d]
      PROVE  c = d
  <2>1. ~(RowKey(q)[c] < RowKey(q)[d]) /\ ~(RowKey(q)[d] < RowKey(q)[c])
    BY <1>3, <1>5
  <2>2. Se!Logit(q, d) \in Int /\ Se!Logit(q, c) \in Int /\ c \in Int /\ d \in Int
    BY CallIs
  <2> QED BY <1>2, <2>1, <2>2
<1> QED BY <1>2, <1>4, <1>5, CallIs DEF Orders

\* The best are at most k, and all there are when there are no more.
LEMMA BestIs ==
    ASSUME call \in Se!Calls, NEW q \in Se!Queries
    PROVE  /\ Best(q) \in SUBSET Se!Reach(q) /\ IsFiniteSet(Best(q))
           /\ Cardinality(Best(q)) \in 0 .. Candidates
           /\ Cardinality(Se!Reach(q)) <= Candidates => Best(q) = Se!Reach(q)
<1> DEFINE R == Se!Reach(q)
           key == RowKey(q)
           s == Se!Sorted(R, key)
           n == Cardinality(R)
<1>1. /\ IsFiniteSet(R) /\ n \in Nat /\ Candidates \in Nat /\ Orders(R, key)
  BY CallIs, RowOrders, FS_CardinalityType
<1>2. /\ \A x \in R : Cardinality(Below(R, key, x)) \in Nat
      /\ \A x \in R : Cardinality(Below(R, key, x)) + 1 \in 1 .. n
      /\ \A x, y \in R : Cardinality(Below(R, key, x)) = Cardinality(Below(R, key, y)) => x = y
  BY <1>1, PlaceTells
<1>3. Best(q) = {c \in R : Cardinality(Below(R, key, c)) < Candidates}
  BY DEF Best
<1> HIDE DEF R, key, n
<1>4. Best(q) \in SUBSET R /\ IsFiniteSet(Best(q))
  BY <1>1, <1>3, FS_Subset
<1>5. Cardinality(Best(q)) <= Candidates
  <2> DEFINE place == [c \in Best(q) |-> Cardinality(Below(R, key, c)) + 1]
  <2>1. place \in [Best(q) -> 1 .. Candidates]
    BY <1>1, <1>2, <1>3
  <2>2. ASSUME NEW x \in Best(q), NEW y \in Best(q), place[x] = place[y] PROVE x = y
    <3>1. Cardinality(Below(R, key, x)) \in Nat /\ Cardinality(Below(R, key, y)) \in Nat
      BY <1>2, <1>4
    <3>2. Cardinality(Below(R, key, x)) = Cardinality(Below(R, key, y))
      BY <2>2, <3>1
    <3> QED BY <1>2, <1>4, <3>2
  <2>3. place \in Injection(Best(q), 1 .. Candidates)
    BY <2>1, <2>2 DEF Injection, IsInjective
  <2>4. IsFiniteSet(1 .. Candidates) /\ Cardinality(1 .. Candidates) = Candidates
    BY <1>1, FS_Interval
  <2> HIDE DEF place
  <2> QED BY <2>3, <2>4, FS_Injection
<1>6. n <= Candidates => Best(q) = R
  BY <1>1, <1>2, <1>3
<1>7. Cardinality(Best(q)) \in Nat
  BY <1>4, FS_CardinalityType
<1> QED BY <1>1, <1>4, <1>5, <1>6, <1>7 DEF R, n

\* What padding does to a sequence.
LEMMA PaddedIs ==
    ASSUME NEW n \in Nat, NEW f, f = [i \in 1 .. n |-> f[i]]
    PROVE  Se!Padded(f) = [i \in 1 .. Candidates |-> IF i <= n THEN f[i] ELSE -1]
<1>1. f \in [1 .. n -> {f[i] : i \in 1 .. n}]
  OBVIOUS
<1>2. Len(f) = n
  BY <1>1, FunSeq
<1> QED BY <1>2 DEF Se!Padded, Se!Padding

\* The stable sort, cut at k, takes the best.
LEMMA StableIs ==
    ASSUME call \in Se!Calls, NEW q \in Se!Queries
    PROVE  Picked(q, Se!StableTopK(q))
<1> DEFINE R == Se!Reach(q)
           key == RowKey(q)
           s == Se!Sorted(R, key)
           n == Cardinality(R)
           low == call.low[q]
           f == [i \in DOMAIN s |-> s[i] - low]
           row == Se!StableTopK(q)
<1>1. /\ n \in Nat /\ s \in [1 .. n -> R]
      /\ \A i \in 1 .. n : Cardinality(Below(R, key, s[i])) = i - 1
      /\ \A x \in R : \E i \in 1 .. n : s[i] = x
      /\ \A i, j \in 1 .. n : s[i] = s[j] => i = j
  BY RowOrders, SortedIs
<1>2. /\ Candidates \in Nat /\ low \in Nat
      /\ \A c \in R : c \in Nat /\ low <= c
  BY CallIs
<1>3. row = Se!Padded(f)
  BY DEF Se!StableTopK, RowKey
<1>4. \A c \in R : c \in Best(q) <=> Cardinality(Below(R, key, c)) < Candidates
  BY DEF Best
<1>4a. \A c \in Best(q) : c \in R
  BY DEF Best
<1> HIDE DEF R, key, s, n, low
<1>5. DOMAIN s = 1 .. n /\ f = [i \in 1 .. n |-> f[i]] /\ \A i \in 1 .. n : f[i] = s[i] - low
  BY <1>1
<1> HIDE DEF f, row
<1>6. row = [i \in 1 .. Candidates |-> IF i <= n THEN f[i] ELSE -1]
  <2>1. n \in Nat /\ f = [i \in 1 .. n |-> f[i]]
    BY <1>1, <1>5
  <2>2. Se!Padded(f) = [i \in 1 .. Candidates |-> IF i <= n THEN f[i] ELSE -1]
    BY <2>1, PaddedIs
  <2> QED BY <1>3, <2>2
<1>7. ASSUME NEW i \in 1 .. Candidates
      PROVE  /\ row[i] \in Int
             /\ row[i] # -1 <=> i <= n
             /\ i <= n => /\ i \in 1 .. n /\ row[i] + low = s[i] /\ s[i] \in Best(q)
  <2>1. CASE i <= n
    <3>1. i \in 1 .. n /\ s[i] \in R /\ s[i] \in Nat /\ low <= s[i]
      BY <1>1, <1>2, <2>1
    <3>2. row[i] = s[i] - low
      BY <1>5, <1>6, <2>1, <3>1
    <3>3. Cardinality(Below(R, key, s[i])) = i - 1 /\ i - 1 < Candidates
      BY <1>1, <1>2, <3>1
    <3>4. s[i] \in Best(q)
      BY <1>4, <3>1, <3>3
    <3> QED BY <1>2, <2>1, <3>1, <3>2, <3>4
  <2>2. CASE ~(i <= n)
    BY <1>6, <2>2
  <2> QED BY <2>1, <2>2
<1>8. row \in [1 .. Candidates -> Int]
  BY <1>6, <1>7
<1>9. ASSUME NEW c \in Best(q)
      PROVE  \E i \in 1 .. Candidates : row[i] # -1 /\ row[i] + low = c
  <2>1. c \in R /\ Cardinality(Below(R, key, c)) < Candidates
    BY <1>4, <1>4a
  <2>2. PICK i \in 1 .. n : s[i] = c
    BY <1>1, <2>1
  <2>3. i - 1 < Candidates
    BY <1>1, <2>1, <2>2
  <2>4. i \in 1 .. Candidates /\ i <= n
    BY <1>1, <1>2, <2>3
  <2> QED BY <1>7, <2>2, <2>4
<1>10. ASSUME NEW i \in 1 .. Candidates, NEW j \in 1 .. Candidates, row[i] # -1, row[i] = row[j]
       PROVE  i = j
  <2>1. i \in 1 .. n /\ j \in 1 .. n /\ s[i] = s[j]
    BY <1>7, <1>10
  <2> QED BY <1>1, <2>1
<1> QED BY <1>7, <1>8, <1>9, <1>10 DEF Picked, Se!Padding, row, low

\* A row the kernel may give takes the best when its last value is not tied.
LEMMA KernelIs ==
    ASSUME call \in Se!Calls, NEW q \in Se!Queries,
           output[q] \in [1 .. Candidates -> {-1} \cup Se!Cols],
           Se!KernelMayTake(q, output[q]), ~Se!Tied(q)
    PROVE  Picked(q, output[q])
<1> DEFINE R == Se!Reach(q)
           row == output[q]
           low == call.low[q]
           used == {i \in 1 .. Candidates : row[i] # -1}
           T == {row[i] + low : i \in used}
           most == IF Cardinality(R) < Candidates THEN Cardinality(R) ELSE Candidates
           A == Se!Reaching(q)
<1>1. /\ LogitColumns \in Nat /\ Candidates \in Nat /\ low \in Nat /\ IsFiniteSet(R)
      /\ Cardinality(R) \in Nat /\ \A c \in R : c \in Nat /\ Se!Logit(q, c) \in Int
  BY CallIs, FS_CardinalityType
<1>2. /\ T \subseteq R /\ Cardinality(T) = most
      /\ \A i \in 1 .. Candidates : row[i] # -1 <=> i <= most
      /\ \A c \in T, d \in R \ T : Se!Logit(q, d) <= Se!Logit(q, c)
  BY SeCardinality DEF Se!KernelMayTake, Se!Padding
<1>3. Se!Taken(q) = T
  BY DEF Se!Taken, Se!Padding
<1>4. A = {c \in R : \E t \in T : Se!Logit(q, c) >= Se!Logit(q, t)}
  BY <1>3 DEF Se!Reaching
<1>5. ~(Cardinality(A) > Candidates)
  BY SeCardinality DEF Se!Tied
<1>6. /\ Best(q) \in SUBSET R /\ IsFiniteSet(Best(q)) /\ Cardinality(Best(q)) \in 0 .. Candidates
      /\ Cardinality(R) <= Candidates => Best(q) = R
  BY BestIs
<1>7. \A i \in 1 .. Candidates : row[i] \in Int
  BY <1>1 DEF Se!Cols
<1> HIDE DEF A
<1>8. \A i \in used : row[i] + low \in T
  OBVIOUS
<1>9. \A c \in T : \E i \in used : row[i] + low = c
  OBVIOUS
<1>10. used = 1 .. most /\ most \in Nat
  BY <1>1, <1>2
<1> HIDE DEF T, used, most
<1>11. IsFiniteSet(T)
  BY <1>1, <1>2, FS_Subset
<1>12. IsFiniteSet(used) /\ Cardinality(used) = most
  BY <1>10, FS_Interval
<1>13. T = Best(q)
  <2>1. CASE Cardinality(R) <= Candidates
    <3>1. most = Cardinality(R)
      BY <1>1, <2>1 DEF most
    <3>2. T = R
      BY <1>1, <1>2, <3>1, FS_Subset
    <3> QED BY <1>6, <2>1, <3>2
  <2>2. CASE ~(Cardinality(R) <= Candidates)
    <3>1. most = Candidates
      BY <1>1, <2>2 DEF most
    <3>2. T \in SUBSET A /\ IsFiniteSet(A) /\ Cardinality(A) \in Nat
      BY <1>1, <1>2, <1>4, FS_Subset, FS_CardinalityType
    <3>3. Cardinality(T) <= Cardinality(A)
      BY <3>2, FS_Subset
    <3>4. A = T
      BY <1>1, <1>2, <1>5, <3>1, <3>2, <3>3, FS_Subset
    <3>5. ASSUME NEW c \in T PROVE c \in Best(q)
      <4> DEFINE B == Below(R, RowKey(q), c)
      <4>1. c \in R /\ Se!Logit(q, c) \in Int
        BY <1>1, <1>2
      <4>2. ASSUME NEW d \in B PROVE d \in A \ {c}
        <5>1. d \in R /\ RowKey(q)[d] < RowKey(q)[c]
          BY DEF Below
        <5>2. Se!Logit(q, d) > Se!Logit(q, c) \/ (Se!Logit(q, d) = Se!Logit(q, c) /\ d < c)
          BY <4>1, <5>1, RowOrders
        <5>3. d \in Nat /\ c \in Nat /\ Se!Logit(q, d) \in Int
          BY <1>1, <4>1, <5>1
        <5>4. Se!Logit(q, d) >= Se!Logit(q, c) /\ d # c
          BY <4>1, <5>2, <5>3
        <5> QED BY <1>4, <5>1, <5>4
      <4> HIDE DEF B
      <4>3. B \in SUBSET (T \ {c})
        BY <3>4, <4>2
      <4>4. IsFiniteSet(T \ {c}) /\ Cardinality(T \ {c}) = Candidates - 1
        BY <1>2, <1>11, <3>1, FS_RemoveElement
      <4>5. Cardinality(B) <= Candidates - 1 /\ IsFiniteSet(B)
        BY <4>3, <4>4, FS_Subset
      <4>6. Cardinality(B) \in Nat
        BY <4>5, FS_CardinalityType
      <4>7. Cardinality(B) < Candidates
        BY <1>1, <4>5, <4>6
      <4> QED BY <4>1, <4>7 DEF Best, B
    <3>6. T \in SUBSET Best(q)
      BY <3>5
    <3>7. Cardinality(T) <= Cardinality(Best(q))
      BY <1>6, <3>6, FS_Subset
    <3>8. Cardinality(Best(q)) = Cardinality(T)
      BY <1>1, <1>2, <1>6, <3>1, <3>7
    <3> QED BY <1>6, <3>6, <3>8, FS_Subset
  <2> QED BY <2>1, <2>2
<1>14. ASSUME NEW i \in used, NEW j \in used, row[i] = row[j] PROVE i = j
  <2> DEFINE g == [k \in used |-> row[k] + low]
  <2>1. g \in Surjection(used, T)
    BY <1>8, <1>9 DEF Surjection
  <2>2. g \in Injection(used, T)
    BY <1>2, <1>11, <1>12, <2>1, FS_SurjSameCardinalityImpliesInj
  <2>3. g[i] = g[j]
    BY <1>14
  <2> QED BY <2>2, <2>3 DEF Injection, IsInjective
<1>15. row \in [1 .. Candidates -> Int]
  BY <1>7
<1>16. \A i \in 1 .. Candidates : row[i] # -1 <=> i \in used
  BY DEF used
<1>17. ASSUME NEW i \in 1 .. Candidates, NEW j \in 1 .. Candidates, row[i] # -1, row[i] = row[j]
       PROVE  i = j
  BY <1>14, <1>16, <1>17
<1>18. \A c \in Best(q) : \E i \in 1 .. Candidates : row[i] # -1 /\ row[i] + low = c
  <2>1. used \subseteq 1 .. Candidates
    BY DEF used
  <2> QED BY <1>9, <1>13, <1>16, <2>1
<1>19. \A i \in 1 .. Candidates : row[i] # -1 => row[i] + low \in Best(q)
  BY <1>8, <1>13, <1>16
<1> QED BY <1>15, <1>17, <1>18, <1>19 DEF Picked, Se!Padding

\* A set of numbers in ascending order.
LEMMA AscendingIs ==
    ASSUME NEW S \in SUBSET Int, IsFiniteSet(S)
    PROVE  LET s == Se!Ascending(S) IN
           /\ Orders(S, [x \in S |-> x])
           /\ Cardinality(S) \in Nat /\ s \in [1 .. Cardinality(S) -> S]
           /\ \A i \in 1 .. Cardinality(S) : Cardinality({y \in S : y < s[i]}) = i - 1
           /\ \A x \in S : \E i \in 1 .. Cardinality(S) : s[i] = x
           /\ \A i, j \in 1 .. Cardinality(S) : i < j => s[i] < s[j]
           /\ \A i, j \in 1 .. Cardinality(S) : s[i] = s[j] => i = j
<1> DEFINE key == [x \in S |-> x]
           s == Se!Ascending(S)
           n == Cardinality(S)
<1>1. \A x \in S : x \in Int /\ key[x] = x
  OBVIOUS
<1>2. Orders(S, key)
  BY DEF Orders
<1>3. s = Se!Sorted(S, key)
  BY DEF Se!Ascending
<1>4. \A x \in S : Below(S, key, x) = {y \in S : y < x}
  BY <1>1 DEF Below
<1> HIDE DEF s, key
<1>5. /\ n \in Nat /\ s \in [1 .. n -> S]
      /\ \A i \in 1 .. n : Cardinality(Below(S, key, s[i])) = i - 1
      /\ \A x \in S : \E i \in 1 .. n : s[i] = x
      /\ \A i, j \in 1 .. n : i < j => key[s[i]] < key[s[j]]
      /\ \A i, j \in 1 .. n : s[i] = s[j] => i = j
  BY <1>2, <1>3, SortedIs
<1>6. \A i \in 1 .. n : s[i] \in S
  BY <1>5
<1>7. \A i \in 1 .. n : Cardinality({y \in S : y < s[i]}) = i - 1
  BY <1>4, <1>5, <1>6
<1>8. \A i, j \in 1 .. n : i < j => s[i] < s[j]
  <2>1. \A i \in 1 .. n : key[s[i]] = s[i]
    BY <1>1, <1>6
  <2> QED BY <1>5, <2>1
<1> QED BY <1>2, <1>5, <1>7, <1>8 DEF s, key

\* The best in ascending order, padded.
InOrder(q, row) ==
    row = [i \in 1 .. Candidates |->
             IF i <= Cardinality(Best(q)) THEN Se!Ascending(Best(q))[i] - call.low[q] ELSE -1]

\* The best are columns of the row.
LEMMA BestAscends ==
    ASSUME call \in Se!Calls, NEW q \in Se!Queries
    PROVE  /\ Best(q) \in SUBSET Int /\ IsFiniteSet(Best(q))
           /\ \A c \in Best(q) : c \in 0 .. LogitColumns - 1 /\ call.low[q] <= c
<1>1. Best(q) \in SUBSET Se!Reach(q) /\ IsFiniteSet(Best(q))
  BY BestIs
<1>2. \A c \in Se!Reach(q) : c \in 0 .. LogitColumns - 1 /\ call.low[q] <= c /\ c \in Int
  BY CallIs
<1> QED BY <1>1, <1>2

\* Whatever order they came in, the candidates are put in that one.
LEMMA CanonicalIs ==
    ASSUME call \in Se!Calls, NEW q \in Se!Queries, NEW row, Picked(q, row)
    PROVE  InOrder(q, Se!Canonical(row))
<1> DEFINE low == call.low[q]
           taken == {i \in 1 .. Candidates : row[i] # -1}
           key == [i \in taken |-> row[i]]
           s == Se!Sorted(taken, key)
           n == Cardinality(taken)
           f == [i \in DOMAIN s |-> row[s[i]]]
           g == [i \in 1 .. n |-> row[s[i]] + low]
           B == Best(q)
           id == [x \in B |-> x]
<1>1. /\ row \in [1 .. Candidates -> Int]
      /\ \A i \in taken : row[i] + low \in B
      /\ \A c \in B : \E i \in taken : row[i] + low = c
      /\ \A i, j \in taken : row[i] = row[j] => i = j
  BY DEF Picked, Se!Padding
<1>2. Candidates \in Nat /\ low \in Nat /\ B \in SUBSET Int /\ IsFiniteSet(B)
  BY CallIs, BestAscends
<1>3. Se!Canonical(row) = Se!Padded(f)
  BY DEF Se!Canonical, Se!Padding
<1>4. IsFiniteSet(taken)
  <2>1. Candidates \in Int /\ taken \in SUBSET (1 .. Candidates)
    BY <1>2
  <2>2. IsFiniteSet(1 .. Candidates)
    BY <2>1, FS_Interval
  <2> HIDE DEF taken
  <2> QED BY <2>1, <2>2, FS_Subset
<1>5. \A i \in taken : row[i] \in Int /\ key[i] = row[i]
  BY <1>1
<1>6. Orders(taken, key)
  BY <1>1, <1>4, <1>5 DEF Orders
<1> HIDE DEF taken, low, B, key
<1>7. /\ n \in Nat /\ s \in [1 .. n -> taken]
      /\ \A i \in taken : \E k \in 1 .. n : s[k] = i
      /\ \A i, j \in 1 .. n : i < j => key[s[i]] < key[s[j]]
  BY <1>6, SortedIs
<1> HIDE DEF s, n
<1>8. /\ DOMAIN s = 1 .. n /\ f = [i \in 1 .. n |-> f[i]]
      /\ \A i \in 1 .. n : f[i] = row[s[i]] /\ s[i] \in taken
  BY <1>7
<1>9. \A i \in 1 .. n : g[i] = row[s[i]] + low
  OBVIOUS
<1>10. g \in [1 .. n -> B]
  BY <1>1, <1>8
<1> HIDE DEF f, g
<1>11. \A c \in B : \E k \in 1 .. n : g[k] = c
  <2>1. ASSUME NEW c \in B PROVE \E k \in 1 .. n : g[k] = c
    <3>1. PICK i \in taken : row[i] + low = c
      BY <1>1
    <3>2. PICK k \in 1 .. n : s[k] = i
      BY <1>7
    <3> QED BY <1>9, <3>1, <3>2
  <2> QED BY <2>1
<1>12. \A i, j \in 1 .. n : i < j => g[i] < g[j]
  <2>1. ASSUME NEW i \in 1 .. n, NEW j \in 1 .. n, i < j PROVE g[i] < g[j]
    <3>1. key[s[i]] < key[s[j]] /\ s[i] \in taken /\ s[j] \in taken
      BY <1>7, <1>8, <2>1
    <3>2. row[s[i]] < row[s[j]] /\ row[s[i]] \in Int /\ row[s[j]] \in Int
      BY <1>5, <3>1
    <3> QED BY <1>2, <1>9, <3>2
  <2> QED BY <2>1
<1>13. Orders(B, id)
  BY <1>2, AscendingIs
<1>14. \A x \in B : id[x] = x
  OBVIOUS
<1> HIDE DEF id
<1>15. \A i, j \in 1 .. n : i < j => id[g[i]] < id[g[j]]
  BY <1>10, <1>12, <1>14
<1>16. n = Cardinality(B) /\ g = Se!Sorted(B, id)
  <2>1. n \in Nat
    BY <1>7
  <2> QED BY <2>1, <1>10, <1>11, <1>13, <1>15, SortedOnly
<1>17. Se!Ascending(B) = g
  BY <1>16 DEF Se!Ascending, id
<1>18. Se!Padded(f) = [i \in 1 .. Candidates |-> IF i <= n THEN f[i] ELSE -1]
  <2>1. n \in Nat /\ f = [i \in 1 .. n |-> f[i]]
    BY <1>7, <1>8
  <2> QED BY <2>1, PaddedIs
<1>19. \A i \in 1 .. n : f[i] = g[i] - low
  <2>1. ASSUME NEW i \in 1 .. n PROVE f[i] = g[i] - low
    <3>1. row[s[i]] \in Int
      BY <1>5, <1>8
    <3> QED BY <1>2, <1>8, <1>9, <3>1
  <2> QED BY <2>1
<1>20. \A i \in 1 .. Candidates : i <= n => i \in 1 .. n
  BY <1>2, <1>7
<1>21. [i \in 1 .. Candidates |-> IF i <= n THEN f[i] ELSE -1]
         = [i \in 1 .. Candidates |-> IF i <= n THEN g[i] - low ELSE -1]
  BY <1>19, <1>20
<1> QED BY <1>3, <1>16, <1>17, <1>18, <1>21 DEF InOrder, B, low

\* The cache rows of the best.
PagesOf(q) == [i \in 1 .. Cardinality(Best(q)) |-> LogitColumns - Se!Ascending(Best(q))[i]]
AttendedWell == \A q \in Se!Queries : Se!Attended(q) = PagesOf(q)

\* What a query should read is a sequence of cache rows.
LEMMA PagesAre ==
    ASSUME call \in Se!Calls, NEW q \in Se!Queries
    PROVE  /\ PagesOf(q) \in Seq(1 .. LogitColumns) /\ Len(PagesOf(q)) = Cardinality(Best(q))
           /\ Cardinality(Best(q)) \in 0 .. Candidates
<1> DEFINE n == Cardinality(Best(q))
           s == Se!Ascending(Best(q))
<1>1. n \in 0 .. Candidates /\ Candidates \in Nat /\ LogitColumns \in Nat
  BY BestIs, CallIs
<1>2. s \in [1 .. n -> Best(q)] /\ \A c \in Best(q) : c \in 0 .. LogitColumns - 1
  BY BestAscends, AscendingIs
<1>3. PagesOf(q) = [i \in 1 .. n |-> LogitColumns - s[i]]
  BY DEF PagesOf
<1> HIDE DEF n, s
<1>4. PagesOf(q) \in [1 .. n -> 1 .. LogitColumns] /\ n \in Nat
  <2>1. \A i \in 1 .. n : LogitColumns - s[i] \in 1 .. LogitColumns
    BY <1>1, <1>2
  <2> QED BY <1>1, <1>3, <2>1
<1> QED BY <1>1, <1>4, FunSeq DEF n

\* Where an element of two sequences put together comes from.
LEMMA ConcatIs ==
    ASSUME NEW S, NEW a \in Seq(S), NEW b \in Seq(S)
    PROVE  \A i \in 1 .. Len(a \o b) :
             \/ i \in 1 .. Len(a) /\ (a \o b)[i] = a[i]
             \/ i - Len(a) \in 1 .. Len(b) /\ (a \o b)[i] = b[i - Len(a)]
OBVIOUS

\* The rows of a call's pages, and the places of each query's among them.
LEMMA CompactIs ==
    ASSUME call \in Se!Calls, \A q \in Se!Queries : InOrder(q, order[q])
    PROVE  LET c == Se!Compact IN
           /\ c.indptr = <<0, Len(PagesOf(1)), Len(PagesOf(1) \o PagesOf(2))>>
           /\ c.kv \in Seq(Nat) /\ Len(c.kv) = Len(PagesOf(1) \o PagesOf(2))
           /\ \A i \in 1 .. Len(c.kv) : c.rows[c.kv[i]] = (PagesOf(1) \o PagesOf(2))[i]
<1> DEFINE physical == [q \in Se!Queries |->
                          [i \in 1 .. Candidates |-> Se!Physical(q, order[q][i])]]
           clamped == UNION {{IF physical[q][i] < 0 THEN 0 ELSE physical[q][i] :
                                i \in 1 .. Candidates} : q \in Se!Queries}
           rows == Se!Ascending(clamped)
           inverse(r) == CHOOSE i \in DOMAIN rows : rows[i] = r
           held(q) == Se!Ascending({i \in 1 .. Candidates : physical[q][i] # Se!Padding})
           valid(q) == [n \in DOMAIN held(q) |-> physical[q][held(q)[n]]]
           all == valid(1) \o valid(2)
           kv == [i \in DOMAIN all |-> inverse(all[i])]
<1>1. Se!Compact = [rows |-> rows, kv |-> kv, indptr |-> <<0, Len(valid(1)), Len(all)>>]
  BY DEF Se!Compact
<1>2. LogitColumns \in Nat /\ Candidates \in Nat /\ 1 \in Se!Queries /\ 2 \in Se!Queries
  BY CallIs DEF Se!Queries
<1>3. ASSUME NEW q \in Se!Queries, NEW i \in 1 .. Candidates
      PROVE  physical[q][i] = IF i <= Cardinality(Best(q)) THEN PagesOf(q)[i] ELSE -1
  <2>1. order[q][i] = IF i <= Cardinality(Best(q)) THEN Se!Ascending(Best(q))[i] - call.low[q]
                      ELSE -1
    BY DEF InOrder
  <2>2. physical[q][i] = Se!Physical(q, order[q][i])
    OBVIOUS
  <2>3. Cardinality(Best(q)) \in Nat
    BY PagesAre
  <2>4. CASE i <= Cardinality(Best(q))
    <3>1. i \in 1 .. Cardinality(Best(q))
      BY <2>3, <2>4
    <3>2. /\ Se!Ascending(Best(q))[i] \in Best(q)
          /\ \A c \in Best(q) : c \in 0 .. LogitColumns - 1 /\ call.low[q] <= c
          /\ call.low[q] \in Nat
      <4> DEFINE B == Best(q)
      <4>1. /\ B \in SUBSET Int /\ IsFiniteSet(B) /\ call.low[q] \in Nat
            /\ \A c \in B : c \in 0 .. LogitColumns - 1 /\ call.low[q] <= c
        BY BestAscends, CallIs
      <4> HIDE DEF B
      <4>2. Se!Ascending(B) \in [1 .. Cardinality(B) -> B]
        BY <4>1, AscendingIs
      <4> QED BY <3>1, <4>1, <4>2 DEF B
    <3>3. Se!Physical(q, order[q][i]) = LogitColumns - Se!Ascending(Best(q))[i]
      <4> DEFINE a == Se!Ascending(Best(q))[i]
      <4>1. a \in Int /\ call.low[q] \in Nat /\ call.low[q] <= a
        BY <3>2
      <4>2. order[q][i] = a - call.low[q]
        BY <2>1, <2>4
      <4> HIDE DEF a
      <4>3. a - call.low[q] # -1 /\ LogitColumns - (a - call.low[q] + call.low[q]) = LogitColumns - a
        BY <1>2, <4>1
      <4>4. Se!Physical(q, order[q][i]) = LogitColumns - (a - call.low[q] + call.low[q])
        BY <4>2, <4>3 DEF Se!Physical, Se!Padding
      <4> QED BY <4>3, <4>4 DEF a
    <3> QED BY <2>2, <2>4, <3>1, <3>3 DEF PagesOf
  <2>5. CASE ~(i <= Cardinality(Best(q)))
    BY <2>1, <2>2, <2>5 DEF Se!Physical, Se!Padding
  <2> QED BY <2>4, <2>5
<1>4. ASSUME NEW q \in Se!Queries PROVE valid(q) = PagesOf(q)
  <2> DEFINE n == Cardinality(Best(q))
             used == {i \in 1 .. Candidates : physical[q][i] # Se!Padding}
  <2>1. n \in 0 .. Candidates /\ PagesOf(q) \in Seq(1 .. LogitColumns) /\ Len(PagesOf(q)) = n
    BY PagesAre
  <2>2. \A i \in 1 .. n : i \in 1 .. Candidates /\ PagesOf(q)[i] \in 1 .. LogitColumns
                          /\ physical[q][i] = PagesOf(q)[i]
    BY <1>2, <1>3, <2>1
  <2>3. \A i \in 1 .. Candidates : ~(i <= n) => physical[q][i] = -1
    BY <1>3
  <2> HIDE DEF physical
  <2>4. used = 1 .. n
    BY <1>2, <2>1, <2>2, <2>3 DEF Se!Padding
  <2> HIDE DEF used
  <2>5. used \in SUBSET Int /\ IsFiniteSet(used)
    <3> DEFINE m == n
    <3>1. m \in Int /\ used = 1 .. m
      BY <2>1, <2>4
    <3> HIDE DEF m
    <3>2. IsFiniteSet(1 .. m)
      BY <3>1, FS_Interval
    <3> QED BY <3>1, <3>2
  <2> DEFINE id == [i \in 1 .. n |-> i]
             key == [x \in used |-> x]
  <2>6. Orders(used, key)
    BY <2>5, AscendingIs
  <2>7. /\ id \in [1 .. n -> used] /\ n \in Nat
        /\ \A x \in used : \E i \in 1 .. n : id[i] = x
        /\ \A i, j \in 1 .. n : i < j => key[id[i]] < key[id[j]]
    BY <2>1, <2>4
  <2> HIDE DEF id, key
  <2>8. id = Se!Sorted(used, key)
    BY <2>6, <2>7, SortedOnly
  <2>9. held(q) = id
    BY <2>8 DEF Se!Ascending, used, key
  <2>10. DOMAIN held(q) = 1 .. n /\ \A i \in 1 .. n : held(q)[i] = i
    BY <2>9 DEF id
  <2> HIDE DEF held
  <2>11. valid(q) = [i \in 1 .. n |-> PagesOf(q)[i]]
    BY <2>2, <2>10
  <2> QED BY <2>11 DEF PagesOf
<1>5. all = PagesOf(1) \o PagesOf(2) /\ valid(1) = PagesOf(1)
  BY <1>2, <1>4
<1>6. /\ PagesOf(1) \in Seq(1 .. LogitColumns) /\ PagesOf(2) \in Seq(1 .. LogitColumns)
      /\ all \in Seq(1 .. LogitColumns)
  <2>1. PagesOf(1) \in Seq(1 .. LogitColumns) /\ PagesOf(2) \in Seq(1 .. LogitColumns)
    BY <1>2, PagesAre
  <2> QED BY <1>5, <2>1, ConcatProperties
<1>7. ASSUME NEW i \in 1 .. Len(all) PROVE all[i] \in clamped
  <2> HIDE DEF physical, all
  <2>1. \E q \in Se!Queries : \E j \in 1 .. Len(PagesOf(q)) : all[i] = PagesOf(q)[j]
    <3>1. i \in 1 .. Len(PagesOf(1) \o PagesOf(2)) /\ all[i] = (PagesOf(1) \o PagesOf(2))[i]
      BY <1>5
    <3> DEFINE a == PagesOf(1)
               b == PagesOf(2)
    <3>2. a \in Seq(1 .. LogitColumns) /\ b \in Seq(1 .. LogitColumns) /\ i \in 1 .. Len(a \o b)
      BY <1>6, <3>1
    <3> HIDE DEF a, b
    <3>3. \/ i \in 1 .. Len(a) /\ (a \o b)[i] = a[i]
          \/ i - Len(a) \in 1 .. Len(b) /\ (a \o b)[i] = b[i - Len(a)]
      BY <3>2, ConcatIs
    <3>4. \/ \E j \in 1 .. Len(a) : (a \o b)[i] = a[j]
          \/ \E j \in 1 .. Len(b) : (a \o b)[i] = b[j]
      BY <3>3
    <3> QED BY <1>2, <3>1, <3>4 DEF a, b
  <2>0. PICK q \in Se!Queries : \E j \in 1 .. Len(PagesOf(q)) : all[i] = PagesOf(q)[j]
    BY <2>1
  <2>2. PICK j \in 1 .. Len(PagesOf(q)) : all[i] = PagesOf(q)[j]
    BY <2>0
  <2>3. /\ Len(PagesOf(q)) = Cardinality(Best(q)) /\ Cardinality(Best(q)) \in 0 .. Candidates
        /\ PagesOf(q) \in Seq(1 .. LogitColumns)
    BY PagesAre
  <2>4. j \in 1 .. Candidates /\ physical[q][j] = PagesOf(q)[j] /\ PagesOf(q)[j] \in 1 .. LogitColumns
    <3>1. j \in 1 .. Candidates /\ j <= Cardinality(Best(q)) /\ PagesOf(q)[j] \in 1 .. LogitColumns
      <4> DEFINE g == PagesOf(q)
                 n == Cardinality(Best(q))
      <4>1. g \in Seq(1 .. LogitColumns) /\ j \in 1 .. Len(g)
        BY <2>3
      <4>2. n \in Nat /\ n <= Candidates /\ j \in Nat /\ 1 <= j /\ j <= n /\ Candidates \in Nat
        BY <1>2, <2>3
      <4> HIDE DEF g, n
      <4>3. g[j] \in 1 .. LogitColumns
        BY <4>1, ElementOfSeq
      <4>4. j \in 1 .. Candidates /\ j <= n
        BY <4>2
      <4> QED BY <4>3, <4>4 DEF g, n
    <3>2. physical[q][j] = IF j <= Cardinality(Best(q)) THEN PagesOf(q)[j] ELSE -1
      BY <1>3, <3>1
    <3> QED BY <3>1, <3>2
  <2>5. all[i] = IF physical[q][j] < 0 THEN 0 ELSE physical[q][j]
    BY <1>2, <2>2, <2>4
  <2> QED BY <2>4, <2>5
<1>8. clamped \in SUBSET (0 .. LogitColumns)
  <2>1. ASSUME NEW q \in Se!Queries, NEW i \in 1 .. Candidates
        PROVE  (IF physical[q][i] < 0 THEN 0 ELSE physical[q][i]) \in 0 .. LogitColumns
    <3>1. /\ Len(PagesOf(q)) = Cardinality(Best(q)) /\ Cardinality(Best(q)) \in 0 .. Candidates
          /\ PagesOf(q) \in Seq(1 .. LogitColumns)
      BY PagesAre
    <3>2. i <= Cardinality(Best(q)) => PagesOf(q)[i] \in 1 .. LogitColumns
      BY <1>2, <3>1
    <3>3. physical[q][i] = IF i <= Cardinality(Best(q)) THEN PagesOf(q)[i] ELSE -1
      BY <1>3
    <3> HIDE DEF physical
    <3> QED BY <1>2, <3>2, <3>3
  <2> HIDE DEF physical
  <2> QED BY <2>1
<1>9. clamped \in SUBSET Int /\ IsFiniteSet(clamped)
  <2>1. IsFiniteSet(0 .. LogitColumns)
    BY <1>2, FS_Interval
  <2> HIDE DEF clamped
  <2>2. clamped \in SUBSET Int
    BY <1>2, <1>8
  <2> QED BY <1>8, <2>1, <2>2, FS_Subset
<1> HIDE DEF clamped, physical, all
<1>10. /\ Cardinality(clamped) \in Nat /\ DOMAIN rows = 1 .. Cardinality(clamped)
       /\ \A x \in clamped : \E i \in DOMAIN rows : rows[i] = x
  BY <1>9, AscendingIs
<1> HIDE DEF rows
<1>11. \A x \in clamped : inverse(x) \in Nat /\ rows[inverse(x)] = x
  BY <1>10
<1> HIDE DEF inverse
<1>12. Len(all) \in Nat /\ DOMAIN all = 1 .. Len(all)
  BY <1>6
<1>13. \A i \in 1 .. Len(all) : kv[i] = inverse(all[i])
  BY <1>12
<1>14. kv \in [1 .. Len(all) -> Nat]
  BY <1>7, <1>11, <1>12
<1> HIDE DEF kv
<1>15. kv \in Seq(Nat) /\ Len(kv) = Len(all)
  BY <1>12, <1>14, FunSeq
<1>16. \A i \in 1 .. Len(all) : rows[kv[i]] = all[i]
  BY <1>7, <1>11, <1>13
<1>17. Se!Compact = [rows |-> rows, kv |-> kv,
                     indptr |-> <<0, Len(PagesOf(1)), Len(PagesOf(1) \o PagesOf(2))>>]
  BY <1>1, <1>5
<1>18. Len(kv) = Len(PagesOf(1) \o PagesOf(2)) /\ kv \in Seq(Nat)
  BY <1>5, <1>15
<1>19. \A i \in 1 .. Len(kv) : rows[kv[i]] = (PagesOf(1) \o PagesOf(2))[i]
  BY <1>5, <1>15, <1>16
<1> HIDE DEF valid
<1>20. /\ Se!Compact.rows = rows /\ Se!Compact.kv = kv
       /\ Se!Compact.indptr = <<0, Len(PagesOf(1)), Len(PagesOf(1) \o PagesOf(2))>>
  BY <1>17
<1> QED BY <1>18, <1>19, <1>20

\* The attention reads the cache rows of the best, in the order of the pools.
LEMMA CompactAttends ==
    ASSUME call \in Se!Calls, \A q \in Se!Queries : InOrder(q, order[q]), pages' = Se!Compact
    PROVE  \A q \in Se!Queries : Se!Attended(q)' = PagesOf(q)
<1> DEFINE a == PagesOf(1)
           b == PagesOf(2)
<1>1. a \in Seq(1 .. LogitColumns) /\ b \in Seq(1 .. LogitColumns)
  BY PagesAre DEF Se!Queries
<1> HIDE DEF a, b
<1> DEFINE c == a \o b
           rows == Se!Compact.rows
           kv == Se!Compact.kv
<1>2. /\ Se!Compact.indptr = <<0, Len(a), Len(c)>>
      /\ kv \in Seq(Nat) /\ Len(kv) = Len(c)
      /\ \A i \in 1 .. Len(kv) : rows[kv[i]] = c[i]
  BY CompactIs DEF a, b
<1>3. pages'.rows = rows /\ pages'.kv = kv /\ pages'.indptr = <<0, Len(a), Len(c)>>
  BY <1>2
<1> HIDE DEF rows, kv
<1>4. /\ Len(a) \in Nat /\ Len(b) \in Nat /\ Len(c) = Len(a) + Len(b)
      /\ \A i \in 1 .. Len(a) : c[i] = a[i]
      /\ \A i \in 1 .. Len(b) : c[Len(a) + i] = b[i]
      /\ DOMAIN a = 1 .. Len(a) /\ DOMAIN b = 1 .. Len(b)
  BY <1>1
<1> HIDE DEF c
<1>5. Se!Attended(1)' = a
  <2> DEFINE named == SubSeq(kv, 1, Len(a))
  <2>1. Se!Attended(1)' = [i \in DOMAIN named |-> rows[named[i]]]
    BY <1>3 DEF Se!Attended
  <2>2. /\ named \in Seq(Nat) /\ Len(named) = Len(a)
        /\ \A i \in 1 .. Len(a) : named[i] = kv[i]
    <3> DEFINE n == Len(a)
    <3>1. /\ 1 \in Nat /\ n \in Nat /\ 1 <= 1 /\ 1 <= n + 1 /\ n <= Len(kv) /\ kv \in Seq(Nat)
          /\ n - 1 + 1 = n
      BY <1>2, <1>4
    <3>2. named = SubSeq(kv, 1, n)
      OBVIOUS
    <3> HIDE DEF n, named
    <3>3. /\ named \in Seq(Nat) /\ Len(named) = n - 1 + 1
          /\ \A i \in 1 .. n - 1 + 1 : named[i] = kv[1 + i - 1]
      BY <3>1, <3>2, Piece
    <3> QED BY <3>1, <3>3 DEF n
  <2> HIDE DEF named
  <2>3. DOMAIN named = 1 .. Len(a)
    BY <2>2
  <2>4. \A i \in 1 .. Len(a) : rows[named[i]] = a[i]
    <3>1. \A i \in 1 .. Len(a) : i \in 1 .. Len(kv)
      BY <1>2, <1>4
    <3>2. \A i \in 1 .. Len(a) : rows[kv[i]] = c[i] /\ c[i] = a[i] /\ named[i] = kv[i]
      BY <1>2, <1>4, <2>2, <3>1
    <3> QED BY <3>2
  <2>5. a = [i \in 1 .. Len(a) |-> a[i]]
    BY <1>1
  <2> QED BY <2>1, <2>3, <2>4, <2>5
<1>6. Se!Attended(2)' = b
  <2> DEFINE named == SubSeq(kv, Len(a) + 1, Len(c))
  <2>1. Se!Attended(2)' = [i \in DOMAIN named |-> rows[named[i]]]
    BY <1>3 DEF Se!Attended
  <2>2. /\ named \in Seq(Nat) /\ Len(named) = Len(b)
        /\ \A i \in 1 .. Len(b) : named[i] = kv[Len(a) + i]
    <3>1. /\ Len(a) + 1 \in Nat /\ Len(c) \in Nat /\ 1 <= Len(a) + 1
          /\ Len(a) + 1 <= Len(c) + 1 /\ Len(c) <= Len(kv)
          /\ Len(c) - (Len(a) + 1) + 1 = Len(b)
      BY <1>2, <1>4
    <3>2. /\ named \in Seq(Nat) /\ Len(named) = Len(b)
          /\ \A i \in 1 .. Len(b) : named[i] = kv[Len(a) + 1 + i - 1]
      <4> DEFINE m == Len(a) + 1
                 n == Len(c)
      <4>1. m \in Nat /\ n \in Nat /\ 1 <= m /\ m <= n + 1 /\ n <= Len(kv)
            /\ n - m + 1 = Len(b) /\ kv \in Seq(Nat)
        BY <1>2, <3>1
      <4>2. named = SubSeq(kv, m, n)
        OBVIOUS
      <4> HIDE DEF m, n, named
      <4>3. /\ named \in Seq(Nat) /\ Len(named) = n - m + 1
            /\ \A i \in 1 .. n - m + 1 : named[i] = kv[m + i - 1]
        BY <4>1, <4>2, Piece
      <4> QED BY <4>1, <4>3 DEF m
    <3>3. \A i \in 1 .. Len(b) : Len(a) + 1 + i - 1 = Len(a) + i
      BY <1>4
    <3> QED BY <3>2, <3>3
  <2> HIDE DEF named
  <2>3. DOMAIN named = 1 .. Len(b)
    BY <2>2
  <2>4. \A i \in 1 .. Len(b) : rows[named[i]] = b[i]
    <3>1. \A i \in 1 .. Len(b) : Len(a) + i \in 1 .. Len(kv)
      BY <1>2, <1>4
    <3>2. \A i \in 1 .. Len(b) : rows[kv[Len(a) + i]] = c[Len(a) + i]
      BY <1>2, <3>1
    <3>3. \A i \in 1 .. Len(b) : c[Len(a) + i] = b[i] /\ named[i] = kv[Len(a) + i]
      BY <1>4, <2>2
    <3> QED BY <3>2, <3>3
  <2>5. b = [i \in 1 .. Len(b) |-> b[i]]
    BY <1>1
  <2> QED BY <2>1, <2>3, <2>4, <2>5
<1> QED BY <1>5, <1>6 DEF Se!Queries, a, b

------------------------------------------------------------------------------
(* The experts' blocks. *)

RoutedWell == routed \in [0 .. RoutedTokens - 1 -> 1 .. ExpertCount]
\* How many tokens an expert gets, and how many the experts up to one get.
Share(e) == Cardinality({t \in DOMAIN routed : routed[t] = e})
Shares(e) == Cardinality({t \in DOMAIN routed : routed[t] <= e})

\* The sizes of a routing.
LEMMA SizesAre == RoutedTokens \in Nat /\ ExpertCount \in Nat /\ BlockSize \in Nat \ {0}
BY SelectionAssumption

\* What division leaves.
LEMMA Divided ==
    ASSUME NEW m \in Nat, NEW c \in Nat \ {0}
    PROVE  m \div c \in Nat /\ m = c * (m \div c) + (m % c)
OBVIOUS

\* Disjoint finite sets together.
LEMMA Together ==
    ASSUME NEW S, NEW T, IsFiniteSet(S), IsFiniteSet(T), S \cap T = {}
    PROVE  /\ IsFiniteSet(S \cup T) /\ Cardinality(S) \in Nat /\ Cardinality(T) \in Nat
           /\ Cardinality(S \cup T) = Cardinality(S) + Cardinality(T)
<1>1. Cardinality(S) \in Nat /\ Cardinality(T) \in Nat
  BY FS_CardinalityType
<1>2. Cardinality(S \cap T) = 0
  BY FS_EmptySet
<1>3. /\ IsFiniteSet(S \cup T)
      /\ Cardinality(S \cup T) = Cardinality(S) + Cardinality(T) - Cardinality(S \cap T)
  BY FS_Union
<1> QED BY <1>1, <1>2, <1>3

\* A set of tokens is finite.
LEMMA SomeTokens ==
    ASSUME NEW T \in SUBSET (0 .. RoutedTokens - 1)
    PROVE  IsFiniteSet(T) /\ Cardinality(T) \in 0 .. RoutedTokens
<1>1. /\ IsFiniteSet(0 .. RoutedTokens - 1)
      /\ Cardinality(0 .. RoutedTokens - 1) = RoutedTokens
  <2>1. 0 \in Int /\ RoutedTokens - 1 \in Int
    BY SizesAre
  <2>2. /\ IsFiniteSet(0 .. RoutedTokens - 1)
        /\ Cardinality(0 .. RoutedTokens - 1)
             = IF 0 > RoutedTokens - 1 THEN 0 ELSE RoutedTokens - 1 - 0 + 1
    BY <2>1, FS_Interval
  <2> QED BY <2>2, SizesAre
<1>2. IsFiniteSet(T) /\ Cardinality(T) <= RoutedTokens
  BY <1>1, FS_Subset
<1>3. Cardinality(T) \in Nat
  BY <1>2, FS_CardinalityType
<1> QED BY <1>2, <1>3, SizesAre

\* A division rounded up.
LEMMA CeilingIs ==
    ASSUME NEW n \in Nat, NEW c \in Nat \ {0}
    PROVE  /\ (n + c - 1) \div c \in 0 .. n
           /\ n <= c * ((n + c - 1) \div c) /\ c * ((n + c - 1) \div c) <= n + c - 1
<1> DEFINE m == n + c - 1
           d == m \div c
<1>1. m \in Nat
  OBVIOUS
<1> HIDE DEF m
<1>2. d \in Nat /\ m = c * d + (m % c) /\ m % c \in 0 .. c - 1
  <2>1. d \in Nat /\ m = c * d + (m % c)
    BY <1>1, Divided
  <2> QED BY <1>1, <2>1, ModBounds
<1> HIDE DEF d
<1>3. c * d \in Nat /\ n <= c * d /\ c * d <= m
  <2> DEFINE r == m % c
             p == c * d
  <2>1. p \in Nat
    BY <1>2
  <2>2. m = p + r /\ r \in 0 .. c - 1
    BY Zenon, <1>2
  <2> HIDE DEF r, p
  <2>3. p \in Nat /\ n <= p /\ p <= m
    BY <2>1, <2>2 DEF m
  <2> QED BY <2>3 DEF p
<1>4. d <= n
  <2>1. CASE d >= n + 1
    <3>1. c * d >= c * (n + 1)
      BY <1>2, <2>1
    <3>2. c * (n + 1) = c * n + c /\ c * n >= n
      OBVIOUS
    <3> QED BY <1>3, <3>1, <3>2 DEF m
  <2> QED BY <1>2, <2>1
<1> QED BY <1>2, <1>3, <1>4 DEF d, m

\* An expert's blocks hold its tokens, with less than a block to spare.
LEMMA BlocksAre ==
    ASSUME RoutedWell, NEW e
    PROVE  /\ Share(e) \in 0 .. RoutedTokens /\ Se!Blocks(e) \in 0 .. RoutedTokens
           /\ BlockSize * Se!Blocks(e) \in Nat
           /\ Share(e) <= BlockSize * Se!Blocks(e)
           /\ BlockSize * Se!Blocks(e) <= Share(e) + BlockSize - 1
<1> DEFINE T == {t \in DOMAIN routed : routed[t] = e}
           b == Se!Blocks(e)
<1>1. T \in SUBSET (0 .. RoutedTokens - 1)
  BY DEF RoutedWell
<1>3. b = (Cardinality(T) + BlockSize - 1) \div BlockSize
  BY SeCardinality DEF Se!Blocks
<1>4. Share(e) = Cardinality(T)
  BY DEF Share
<1> HIDE DEF T, b
<1>5. Share(e) \in 0 .. RoutedTokens
  BY <1>1, <1>4, SomeTokens
<1>6. /\ b \in 0 .. Share(e)
      /\ Share(e) <= BlockSize * b /\ BlockSize * b <= Share(e) + BlockSize - 1
  <2>1. Share(e) \in Nat /\ BlockSize \in Nat \ {0}
    BY <1>5, SizesAre
  <2>2. b = (Share(e) + BlockSize - 1) \div BlockSize
    BY <1>3, <1>4
  <2> QED BY <2>1, <2>2, CeilingIs
<1>7. b \in Nat /\ b <= RoutedTokens
  BY <1>5, <1>6, SizesAre
<1>8. BlockSize * b \in Nat
  BY <1>7, SizesAre
<1> QED BY <1>5, <1>6, <1>7, <1>8, SizesAre DEF b

\* The blocks of the experts up to one.
Grid(e) == {b \in (1 .. e) \X (1 .. RoutedTokens) : b[2] <= Se!Blocks(b[1])}

\* An expert's end counts the blocks up to it.
LEMMA GridIs ==
    ASSUME NEW e \in Nat
    PROVE  IsFiniteSet(Grid(e)) /\ Cardinality(Grid(e)) \in Nat
           /\ Se!End(e) = BlockSize * Cardinality(Grid(e)) /\ Se!End(e) \in Nat
<1>1. IsFiniteSet(1 .. e) /\ IsFiniteSet(1 .. RoutedTokens)
  BY SizesAre, FS_Interval
<1>2. IsFiniteSet((1 .. e) \X (1 .. RoutedTokens))
  BY <1>1, FS_Product
<1>3. IsFiniteSet(Grid(e)) /\ Cardinality(Grid(e)) \in Nat
  BY <1>2, FS_Subset, FS_CardinalityType DEF Grid
<1>4. Se!End(e) = BlockSize * Cardinality(Grid(e))
  BY SeCardinality DEF Se!End, Grid
<1>5. BlockSize * Cardinality(Grid(e)) \in Nat
  BY <1>3, SizesAre
<1> QED BY <1>3, <1>4, <1>5

\* An expert's blocks begin where the one before it ends.
LEMMA EndIs ==
    ASSUME RoutedWell
    PROVE  /\ Se!End(0) = 0
           /\ \A e \in Nat \ {0} : /\ e - 1 \in Nat /\ Se!End(e - 1) \in Nat /\ Se!End(e) \in Nat
                                   /\ Se!End(e) = Se!End(e - 1) + BlockSize * Se!Blocks(e)
<1>1. Se!End(0) = 0
  <2>1. Grid(0) = {}
    BY DEF Grid
  <2> QED BY <2>1, GridIs, FS_EmptySet, SizesAre
<1>2. ASSUME NEW e \in Nat \ {0}
      PROVE  Se!End(e) = Se!End(e - 1) + BlockSize * Se!Blocks(e)
  <2> DEFINE n == Se!Blocks(e)
             new == {e} \X (1 .. n)
             old == Grid(e - 1)
  <2>1. e - 1 \in Nat /\ n \in 0 .. RoutedTokens
    BY BlocksAre
  <2>2. IsFiniteSet(old) /\ Cardinality(old) \in Nat
    BY <2>1, GridIs
  <2>3. IsFiniteSet(new) /\ Cardinality(new) = n
    <3>1. IsFiniteSet({e}) /\ Cardinality({e}) = 1
      BY FS_Singleton
    <3>2. n \in Nat
      BY <2>1, SizesAre
    <3> HIDE DEF n
    <3>3. IsFiniteSet(1 .. n) /\ Cardinality(1 .. n) = n
      BY <3>2, FS_Interval
    <3> DEFINE x == {e}
               y == 1 .. n
    <3>4. IsFiniteSet(x) /\ IsFiniteSet(y) /\ new = x \X y
      BY <3>1, <3>3
    <3>5. Cardinality(x) = 1 /\ Cardinality(y) = n
      BY <3>1, <3>3
    <3> HIDE DEF x, y, new
    <3>6. IsFiniteSet(x \X y) /\ Cardinality(x \X y) = Cardinality(x) * Cardinality(y)
      BY <3>4, FS_Product
    <3> QED BY <3>2, <3>4, <3>5, <3>6
  <2>4. Grid(e) = old \cup new
    <3>1. ASSUME NEW b \in Grid(e) PROVE b \in old \cup new
      <4>1. /\ b \in (1 .. e) \X (1 .. RoutedTokens) /\ b[2] <= Se!Blocks(b[1])
        BY DEF Grid
      <4>2. CASE b[1] = e
        <5>1. b = <<e, b[2]>> /\ b[2] \in 1 .. n
          BY <2>1, <4>1, <4>2, SizesAre
        <5> QED BY <5>1
      <4>3. CASE b[1] # e
        <5>1. b \in (1 .. e - 1) \X (1 .. RoutedTokens)
          BY <4>1, <4>3
        <5> QED BY <4>1, <5>1 DEF Grid
      <4> QED BY <4>2, <4>3
    <3>2. ASSUME NEW b \in old PROVE b \in Grid(e)
      BY DEF Grid
    <3>3. ASSUME NEW b \in new PROVE b \in Grid(e)
      <4>1. b[1] = e /\ b[2] \in 1 .. n /\ b = <<e, b[2]>>
        OBVIOUS
      <4>2. b[2] \in 1 .. RoutedTokens /\ b[2] <= Se!Blocks(b[1]) /\ e \in 1 .. e
        BY <2>1, <4>1, SizesAre
      <4> QED BY <4>1, <4>2 DEF Grid
    <3> HIDE DEF old, new
    <3> QED BY <3>1, <3>2, <3>3
  <2>5. old \cap new = {}
    <3>1. \A b \in old : b[1] # e
      BY <2>1 DEF Grid
    <3>2. \A b \in new : b[1] = e
      OBVIOUS
    <3> HIDE DEF old, new
    <3> QED BY <3>1, <3>2
  <2> HIDE DEF old, new, n
  <2>6. Cardinality(Grid(e)) = Cardinality(old) + n
    BY <2>2, <2>3, <2>4, <2>5, Together
  <2>7. Se!End(e) = BlockSize * Cardinality(Grid(e)) /\ Se!End(e - 1) = BlockSize * Cardinality(old)
    BY <2>1, GridIs DEF old
  <2>8. BlockSize * (Cardinality(old) + n) = BlockSize * Cardinality(old) + BlockSize * n
    BY <2>1, <2>2, SizesAre
  <2> QED BY <2>6, <2>7, <2>8 DEF n
<1>3. \A e \in Nat \ {0} : e - 1 \in Nat /\ Se!End(e - 1) \in Nat /\ Se!End(e) \in Nat
  BY GridIs
<1> QED BY <1>1, <1>2, <1>3

\* Experts end in their order.
LEMMA EndGrows ==
    ASSUME NEW e \in Nat, NEW f \in Nat, e <= f
    PROVE  Se!End(e) \in Nat /\ Se!End(f) \in Nat /\ Se!End(e) <= Se!End(f)
<1>1. Grid(e) \in SUBSET Grid(f)
  BY DEF Grid
<1>2. /\ IsFiniteSet(Grid(f)) /\ Cardinality(Grid(e)) \in Nat /\ Cardinality(Grid(f)) \in Nat
      /\ Se!End(e) \in Nat /\ Se!End(f) \in Nat
      /\ Se!End(e) = BlockSize * Cardinality(Grid(e))
      /\ Se!End(f) = BlockSize * Cardinality(Grid(f))
  BY GridIs
<1>3. Cardinality(Grid(e)) <= Cardinality(Grid(f))
  BY <1>1, <1>2, FS_Subset
<1>4. BlockSize * Cardinality(Grid(e)) <= BlockSize * Cardinality(Grid(f))
  BY <1>2, <1>3, SizesAre
<1> QED BY <1>2, <1>4

\* What is written fits the buffer.
LEMMA WrittenFits ==
    ASSUME RoutedWell
    PROVE  /\ Se!Buffer \in Nat /\ RoutedTokens <= Se!Buffer /\ Se!Written \in 0 .. Se!Buffer
<1> DEFINE Most(e) == Se!End(e) <= Shares(e) + e * (BlockSize - 1)
<1>1. \A e \in Nat : Shares(e) \in 0 .. RoutedTokens
  <2>1. ASSUME NEW e \in Nat PROVE Shares(e) \in 0 .. RoutedTokens
    <3> DEFINE T == {t \in DOMAIN routed : routed[t] <= e}
    <3>1. T \in SUBSET (0 .. RoutedTokens - 1)
      BY DEF RoutedWell
    <3>3. Shares(e) = Cardinality(T)
      BY DEF Shares
    <3> HIDE DEF T
    <3> QED BY <3>1, <3>3, SomeTokens
  <2> QED BY <2>1
<1>2. ASSUME NEW e \in Nat \ {0} PROVE Shares(e) = Shares(e - 1) + Share(e)
  <2> DEFINE old == {t \in DOMAIN routed : routed[t] <= e - 1}
             new == {t \in DOMAIN routed : routed[t] = e}
             all == {t \in DOMAIN routed : routed[t] <= e}
  <2>1. all = old \cup new /\ old \cap new = {}
    BY DEF RoutedWell
  <2>2. old \in SUBSET (0 .. RoutedTokens - 1) /\ new \in SUBSET (0 .. RoutedTokens - 1)
    BY DEF RoutedWell
  <2>4. /\ Shares(e) = Cardinality(all) /\ Shares(e - 1) = Cardinality(old)
        /\ Share(e) = Cardinality(new)
    BY DEF Shares, Share
  <2> HIDE DEF old, new, all
  <2>5. IsFiniteSet(old) /\ IsFiniteSet(new)
    BY <2>2, SomeTokens
  <2> QED BY <2>1, <2>4, <2>5, Together
<1>3. Most(0)
  BY <1>1, EndIs, SizesAre
<1>4. ASSUME NEW e \in Nat \ {0}, Most(e - 1) PROVE Most(e)
  <2> DEFINE b == BlockSize * Se!Blocks(e)
             c == (e - 1) * (BlockSize - 1)
  <2>1. /\ Se!End(e) = Se!End(e - 1) + b /\ Se!End(e - 1) \in Nat /\ e - 1 \in Nat
        /\ b <= Share(e) + BlockSize - 1 /\ b \in Nat
        /\ Shares(e) = Shares(e - 1) + Share(e)
    BY <1>2, EndIs, BlocksAre
  <2>2. Shares(e - 1) \in Nat /\ Share(e) \in Nat
    BY <1>1, <2>1, BlocksAre
  <2>3. e * (BlockSize - 1) = c + (BlockSize - 1) /\ c \in Nat
    BY SizesAre
  <2>4. Se!End(e - 1) <= Shares(e - 1) + c
    BY <1>4
  <2> HIDE DEF b, c
  <2>5. Se!End(e) <= Shares(e) + (c + (BlockSize - 1))
    BY <2>1, <2>2, <2>3, <2>4, SizesAre
  <2> QED BY <2>3, <2>5
<1> HIDE DEF Most
<1>5. \A e \in Nat : Most(e)
  <2> DEFINE bad == {e \in Nat : ~Most(e)}
  <2>1. ASSUME bad # {} PROVE FALSE
    <3>1. PICK e \in bad : \A f \in bad : e <= f
      BY <2>1, LeastIn
    <3>2. e \in Nat \ {0}
      BY <1>3
    <3>3. e - 1 \in Nat /\ e - 1 \notin bad
      BY <3>1, <3>2
    <3>4. Most(e - 1)
      BY <3>3
    <3> QED BY <1>4, <3>2, <3>4
  <2> QED BY <2>1
<1>6. ExpertCount * (BlockSize - 1) \in Nat
  BY SizesAre
<1>7. Se!Written <= Shares(ExpertCount) + ExpertCount * (BlockSize - 1) /\ Se!Written \in Nat
  BY <1>5, GridIs, SizesAre DEF Se!Written, Most
<1>8. Se!Buffer = RoutedTokens + ExpertCount * (BlockSize - 1)
  BY DEF Se!Buffer
<1>9. Shares(ExpertCount) \in 0 .. RoutedTokens
  BY <1>1, SizesAre
<1> QED BY <1>6, <1>7, <1>8, <1>9, SizesAre

\* An expert's slots.
LEMMA OwnerIs ==
    ASSUME RoutedWell
    PROVE  /\ \A s \in 1 .. Se!Written :
                /\ Se!Owner(s) \in 1 .. ExpertCount
                /\ Se!End(Se!Owner(s) - 1) < s /\ s <= Se!End(Se!Owner(s))
           /\ \A s \in Nat, e \in 1 .. ExpertCount :
                Se!End(e - 1) < s /\ s <= Se!End(e) => s \in 1 .. Se!Written /\ Se!Owner(s) = e
<1>1. \A e \in Nat : Se!End(e) \in Nat
  BY GridIs
<1>2. ExpertCount \in Nat /\ Se!Written = Se!End(ExpertCount) /\ Se!End(0) = 0
  BY EndIs, SizesAre DEF Se!Written
<1>3. ASSUME NEW s \in 1 .. Se!Written
      PROVE  \E e \in 1 .. ExpertCount : Se!End(e - 1) < s /\ s <= Se!End(e)
  <2> DEFINE far == {e \in Nat : s <= Se!End(e)}
  <2>1. ExpertCount \in far
    BY <1>2
  <2>2. PICK e \in far : \A f \in far : e <= f
    BY <2>1, LeastIn
  <2>3. e \in Nat /\ s <= Se!End(e) /\ e <= ExpertCount
    BY <2>1, <2>2
  <2>4. e # 0
    BY <1>1, <1>2, <2>3
  <2>5. e - 1 \in Nat /\ e - 1 \notin far /\ e \in 1 .. ExpertCount
    BY <1>2, <2>2, <2>3, <2>4
  <2>6. Se!End(e - 1) < s
    BY <1>1, <1>2, <2>5
  <2> QED BY <2>3, <2>5, <2>6
<1>4. ASSUME NEW s \in 1 .. Se!Written
      PROVE  /\ Se!Owner(s) \in 1 .. ExpertCount
             /\ Se!End(Se!Owner(s) - 1) < s /\ s <= Se!End(Se!Owner(s))
  BY <1>3 DEF Se!Owner
<1>5. ASSUME NEW s \in Nat, NEW e \in 1 .. ExpertCount, Se!End(e - 1) < s, s <= Se!End(e)
      PROVE  s \in 1 .. Se!Written /\ Se!Owner(s) = e
  <2> DEFINE o == Se!Owner(s)
  <2>1. /\ e \in Nat /\ e - 1 \in Nat /\ Se!End(e - 1) \in Nat /\ Se!End(e) \in Nat
        /\ Se!End(e) <= Se!Written /\ Se!Written \in Nat
    BY <1>1, <1>2, EndGrows
  <2>2. s \in 1 .. Se!Written
    BY <1>5, <2>1
  <2>3. o \in 1 .. ExpertCount /\ Se!End(o - 1) < s /\ s <= Se!End(o)
    BY <1>4, <2>2
  <2> HIDE DEF o
  <2>4. o \in Nat /\ o - 1 \in Nat /\ Se!End(o - 1) \in Nat /\ Se!End(o) \in Nat
    BY <1>1, <1>2, <2>3
  <2>5. ~(o <= e - 1)
    <3>1. ASSUME o <= e - 1 PROVE FALSE
      <4>1. Se!End(o) <= Se!End(e - 1)
        BY <2>1, <2>4, <3>1, EndGrows
      <4> QED BY <1>5, <2>1, <2>3, <2>4, <4>1
    <3> QED BY <3>1
  <2>6. ~(e <= o - 1)
    <3>1. ASSUME e <= o - 1 PROVE FALSE
      <4>1. Se!End(e) <= Se!End(o - 1)
        BY <2>1, <2>4, <3>1, EndGrows
      <4> QED BY <1>5, <2>1, <2>3, <2>4, <4>1
    <3> QED BY <3>1
  <2>7. o = e
    BY <2>1, <2>4, <2>5, <2>6
  <2> QED BY <2>2, <2>7 DEF o
<1> QED BY <1>4, <1>5

\* The kernel's alignment, and what the sort makes of it.
GivenWell(given) ==
    /\ given \in [1 .. Se!Buffer -> 0 .. RoutedTokens]
    /\ \A t \in DOMAIN routed : \E s \in 1 .. Se!Written :
         given[s] = t /\ Se!Owner(s) = routed[t]
    /\ \A s, u \in 1 .. Se!Written : s # u /\ given[s] = given[u] => given[s] = RoutedTokens
SlotsWell(given) ==
    /\ \A s \in 1 .. Se!Written : given[s] # RoutedTokens => routed[given[s]] = Se!Owner(s)
    /\ \A t \in DOMAIN routed : \E s \in 1 .. Se!Written : given[s] = t
    /\ \A s \in 1 .. Se!Written - 1 : Se!Owner(s) = Se!Owner(s + 1) => given[s] <= given[s + 1]

\* Two keys compare as their parts do.
LEMMA KeysCompare ==
    ASSUME NEW n \in Nat, NEW a \in Int, NEW b \in Int, NEW s \in 1 .. n, NEW u \in 1 .. n
    PROVE  /\ a < b => (n + 1) * a + s < (n + 1) * b + u
           /\ (n + 1) * a + s < (n + 1) * b + u => a <= b
           /\ (n + 1) * a + s = (n + 1) * b + u => s = u
<1>1. \A x, y \in Int : x < y => (n + 1) * x + n + 1 <= (n + 1) * y
  <2>1. ASSUME NEW x \in Int, NEW y \in Int, x < y PROVE (n + 1) * x + n + 1 <= (n + 1) * y
    <3> DEFINE d == y - x - 1
    <3>1. d \in Nat /\ y = x + 1 + d
      BY <2>1
    <3> HIDE DEF d
    <3>2. (n + 1) * y = (n + 1) * x + (n + 1) + (n + 1) * d /\ (n + 1) * d \in Nat
          /\ (n + 1) * x \in Int
      BY <3>1
    <3> QED BY <3>2
  <2> QED BY <2>1
<1> DEFINE p == (n + 1) * a
           q == (n + 1) * b
<1>2. p \in Int /\ q \in Int
  OBVIOUS
<1>3. (a < b => p + n + 1 <= q) /\ (b < a => q + n + 1 <= p) /\ (a = b => p = q)
  BY <1>1
<1> HIDE DEF p, q
<1>4. /\ a < b => p + s < q + u
      /\ p + s < q + u => a <= b
      /\ p + s = q + u => s = u
  BY <1>2, <1>3
<1> QED BY <1>4 DEF p, q

\* The keys of the slots: by expert, then token; the unwritten last, in their order.
SlotKey(given) == [s \in 1 .. Se!Buffer |-> (Se!Buffer + 1) * Se!Key(s, given) + s]

\* The keys put the slots in one order, and it is that of the expert, then the token.
LEMMA SlotOrders ==
    ASSUME RoutedWell, NEW given \in [1 .. Se!Buffer -> 0 .. RoutedTokens]
    PROVE  /\ Orders(1 .. Se!Buffer, SlotKey(given))
           /\ \A s, u \in 1 .. Se!Buffer :
                /\ SlotKey(given)[s] < SlotKey(given)[u] => Se!Key(s, given) <= Se!Key(u, given)
                /\ Se!Key(s, given) < Se!Key(u, given) => SlotKey(given)[s] < SlotKey(given)[u]
           /\ \A s \in 1 .. Se!Written : given[s] \in Int /\
                Se!Key(s, given) = Se!Owner(s) * (Se!Buffer + 1) + given[s]
           /\ \A s, u \in 1 .. Se!Written :
                Se!Owner(s) < Se!Owner(u) => Se!Key(s, given) < Se!Key(u, given)
           /\ \A s \in 1 .. Se!Written, u \in 1 .. Se!Buffer :
                u > Se!Written => Se!Key(s, given) < Se!Key(u, given)
<1> DEFINE N == Se!Buffer
           Every == 1 .. N
<1>1. N \in Nat /\ RoutedTokens \in Nat /\ RoutedTokens <= N /\ Se!Written \in 0 .. N
      /\ ExpertCount \in Nat
  BY WrittenFits, SizesAre
<1>2. \A s \in 1 .. Se!Written : s \in Every /\ Se!Owner(s) \in 1 .. ExpertCount
                                 /\ given[s] \in 0 .. N /\ given[s] + 1 \in 1 .. N + 1
  BY <1>1, OwnerIs
<1>3. \A s \in Every : Se!Key(s, given) = IF s <= Se!Written
                                          THEN Se!Owner(s) * (N + 1) + given[s]
                                          ELSE (ExpertCount + 1) * (N + 1)
  BY DEF Se!Key
<1>4. \A s \in Every : SlotKey(given)[s] = (N + 1) * Se!Key(s, given) + s
  BY DEF SlotKey
<1> HIDE DEF N
<1>5. \A s \in 1 .. Se!Written :
        given[s] \in Int /\ Se!Key(s, given) = Se!Owner(s) * (N + 1) + given[s]
  BY <1>1, <1>2, <1>3
<1>6. \A x \in Nat, y \in Nat, g \in 0 .. N : x < y => x * (N + 1) + g < y * (N + 1)
  <2>1. ASSUME NEW x \in Nat, NEW y \in Nat, NEW g \in 0 .. N, x < y
        PROVE  x * (N + 1) + g < y * (N + 1)
    <3> DEFINE d == y - x - 1
    <3>1. d \in Nat /\ y = x + 1 + d
      BY <2>1
    <3> HIDE DEF d
    <3>2. y * (N + 1) = x * (N + 1) + (N + 1) + d * (N + 1) /\ d * (N + 1) \in Nat
          /\ x * (N + 1) \in Nat
      BY <1>1, <3>1
    <3> QED BY <1>1, <3>2
  <2> QED BY <2>1
<1>7. ASSUME NEW s \in 1 .. Se!Written, NEW u \in 1 .. Se!Written, Se!Owner(s) < Se!Owner(u)
      PROVE  Se!Key(s, given) < Se!Key(u, given)
  <2>1. Se!Owner(s) * (N + 1) + given[s] < Se!Owner(u) * (N + 1)
    BY <1>2, <1>6, <1>7
  <2> DEFINE a == Se!Owner(s) * (N + 1)
             b == Se!Owner(u) * (N + 1)
  <2>2. /\ Se!Owner(s) \in Nat /\ Se!Owner(u) \in Nat
        /\ given[s] \in Nat /\ given[u] \in Nat
    BY <1>1, <1>2
  <2>3. a \in Nat /\ b \in Nat
    BY <1>1, <2>2
  <2>4. a + given[s] < b /\ Se!Key(s, given) = a + given[s] /\ Se!Key(u, given) = b + given[u]
    BY <1>5, <2>1
  <2> HIDE DEF a, b
  <2> QED BY <2>2, <2>3, <2>4
<1>8. ASSUME NEW s \in 1 .. Se!Written, NEW u \in Every, u > Se!Written
      PROVE  Se!Key(s, given) < Se!Key(u, given)
  <2>1. Se!Owner(s) \in Nat /\ ExpertCount + 1 \in Nat /\ Se!Owner(s) < ExpertCount + 1
    BY <1>1, <1>2
  <2>2. Se!Owner(s) * (N + 1) + given[s] < (ExpertCount + 1) * (N + 1)
    BY <1>2, <1>6, <2>1
  <2>3. Se!Key(u, given) = (ExpertCount + 1) * (N + 1)
    BY <1>1, <1>3, <1>8
  <2> QED BY <1>5, <2>2, <2>3
<1>9. ASSUME NEW s \in Every PROVE Se!Key(s, given) \in Int /\ SlotKey(given)[s] \in Int
  <2>1. Se!Key(s, given) \in Int
    <3>1. CASE s <= Se!Written
      <4>1. s \in 1 .. Se!Written
        BY <1>1, <3>1
      <4>2. Se!Owner(s) \in Int /\ given[s] \in Int
        BY <1>1, <1>2, <4>1
      <4>3. Se!Owner(s) * (N + 1) \in Int
        BY <1>1, <4>2
      <4> QED BY <1>5, <4>1, <4>2, <4>3
    <3>2. CASE ~(s <= Se!Written)
      <4>1. (ExpertCount + 1) * (N + 1) \in Int
        BY <1>1
      <4> QED BY <1>3, <3>2, <4>1
    <3> QED BY <3>1, <3>2
  <2>2. (N + 1) * Se!Key(s, given) \in Int
    BY <1>1, <2>1
  <2> QED BY <1>1, <1>4, <2>1, <2>2
<1>10. ASSUME NEW s \in Every, NEW u \in Every
       PROVE  /\ SlotKey(given)[s] < SlotKey(given)[u] => Se!Key(s, given) <= Se!Key(u, given)
              /\ Se!Key(s, given) < Se!Key(u, given) => SlotKey(given)[s] < SlotKey(given)[u]
              /\ SlotKey(given)[s] = SlotKey(given)[u] => s = u
  <2> DEFINE a == Se!Key(s, given)
             b == Se!Key(u, given)
  <2>1. a \in Int /\ b \in Int
    BY <1>9
  <2>2. SlotKey(given)[s] = (N + 1) * a + s /\ SlotKey(given)[u] = (N + 1) * b + u
    BY <1>4
  <2> HIDE DEF a, b
  <2>3. /\ a < b => (N + 1) * a + s < (N + 1) * b + u
        /\ (N + 1) * a + s < (N + 1) * b + u => a <= b
        /\ (N + 1) * a + s = (N + 1) * b + u => s = u
    BY <1>1, <2>1, KeysCompare
  <2>4. /\ a < b => SlotKey(given)[s] < SlotKey(given)[u]
        /\ SlotKey(given)[s] < SlotKey(given)[u] => a <= b
        /\ SlotKey(given)[s] = SlotKey(given)[u] => s = u
    BY Zenon, <2>2, <2>3
  <2> QED BY <2>4 DEF a, b
<1>11. SlotKey(given) \in [Every -> Int]
  BY <1>9 DEF SlotKey, N
<1>12. IsFiniteSet(Every)
  BY <1>1, FS_Interval
<1>13. Orders(Every, SlotKey(given))
  BY <1>10, <1>11, <1>12 DEF Orders
<1> QED BY <1>5, <1>7, <1>8, <1>10, <1>13 DEF N

\* Sorted by expert and token, each expert's slots hold its own tokens in order.
LEMMA SortsOut ==
    ASSUME RoutedWell, NEW given, GivenWell(given)
    PROVE  SlotsWell([i \in 1 .. Se!Buffer |->
                        given[Se!Sorted(1 .. Se!Buffer, SlotKey(given))[i]]])
<1> DEFINE N == Se!Buffer
           M == Se!Written
           key == SlotKey(given)
           p == Se!Sorted(1 .. N, key)
           out == [i \in 1 .. N |-> given[p[i]]]
<1>1. N \in Nat /\ M \in 0 .. N
  BY WrittenFits
<1>2. /\ given \in [1 .. N -> 0 .. RoutedTokens]
      /\ \A t \in DOMAIN routed : \E s \in 1 .. M :
           given[s] = t /\ Se!Owner(s) = routed[t]
      /\ \A s, u \in 1 .. M : s # u /\ given[s] = given[u] => given[s] = RoutedTokens
  BY DEF GivenWell
<1>3. /\ Orders(1 .. N, key)
      /\ \A s, u \in 1 .. N :
           /\ key[s] < key[u] => Se!Key(s, given) <= Se!Key(u, given)
           /\ Se!Key(s, given) < Se!Key(u, given) => key[s] < key[u]
      /\ \A s \in 1 .. M : given[s] \in Int /\
           Se!Key(s, given) = Se!Owner(s) * (N + 1) + given[s]
      /\ \A s, u \in 1 .. M :
           Se!Owner(s) < Se!Owner(u) => Se!Key(s, given) < Se!Key(u, given)
      /\ \A s \in 1 .. M, u \in 1 .. N :
           u > M => Se!Key(s, given) < Se!Key(u, given)
  BY <1>2, SlotOrders
<1>4. \A i \in 1 .. N : out[i] = given[p[i]]
  OBVIOUS
<1>5. IsFiniteSet(1 .. N) /\ Cardinality(1 .. N) = N
  BY <1>1, FS_Interval
<1> HIDE DEF N, M, key
<1>6. /\ p \in [1 .. N -> 1 .. N]
      /\ \A i \in 1 .. N : Cardinality(Below(1 .. N, key, p[i])) = i - 1
      /\ \A s \in 1 .. N : \E i \in 1 .. N : p[i] = s
      /\ \A i, j \in 1 .. N : i < j => key[p[i]] < key[p[j]]
  BY <1>3, <1>5, SortedIs
<1> HIDE DEF p, out
<1>7. \A s \in 1 .. M :
        /\ Se!Owner(s) \in 1 .. ExpertCount
        /\ Se!End(Se!Owner(s) - 1) < s /\ s <= Se!End(Se!Owner(s))
        /\ Se!End(Se!Owner(s) - 1) \in Nat /\ Se!End(Se!Owner(s)) \in Nat
        /\ Se!End(Se!Owner(s)) <= M
  <2>1. ASSUME NEW s \in 1 .. M
        PROVE  /\ Se!Owner(s) \in 1 .. ExpertCount
               /\ Se!End(Se!Owner(s) - 1) < s /\ s <= Se!End(Se!Owner(s))
               /\ Se!End(Se!Owner(s) - 1) \in Nat /\ Se!End(Se!Owner(s)) \in Nat
               /\ Se!End(Se!Owner(s)) <= M
    <3> DEFINE o == Se!Owner(s)
    <3>1. o \in 1 .. ExpertCount /\ Se!End(o - 1) < s /\ s <= Se!End(o)
      BY OwnerIs DEF M
    <3> HIDE DEF o
    <3>2. o \in Nat /\ o - 1 \in Nat /\ ExpertCount \in Nat /\ o <= ExpertCount
      BY <3>1, SizesAre
    <3>3. Se!End(o) <= Se!End(ExpertCount) /\ Se!End(o) \in Nat /\ Se!End(o - 1) \in Nat
      BY <3>2, EndGrows, GridIs
    <3>4. Se!End(ExpertCount) = M
      BY DEF M, Se!Written
    <3> QED BY <3>1, <3>3, <3>4 DEF o
  <2> QED BY <2>1
\* Before a slot come those of the experts before its own; it comes before those after.
<1>8. ASSUME NEW i \in 1 .. N, NEW m \in Nat, m <= N,
             \A u \in 1 .. m : key[u] < key[p[i]]
      PROVE  m <= i - 1
  <2>1. 1 .. m \in SUBSET Below(1 .. N, key, p[i])
    BY <1>1, <1>8 DEF Below
  <2>2. IsFiniteSet(Below(1 .. N, key, p[i]))
    BY <1>5, FS_Subset DEF Below
  <2>3. Cardinality(1 .. m) = m
    BY FS_Interval
  <2>4. Cardinality(1 .. m) <= Cardinality(Below(1 .. N, key, p[i]))
    BY <2>1, <2>2, FS_Subset
  <2> QED BY <1>6, <2>3, <2>4
<1>9. ASSUME NEW i \in 1 .. N, NEW m \in Nat, p[i] <= m,
             \A u \in 1 .. N : u > m => ~(key[u] < key[p[i]])
      PROVE  i <= m
  <2>0. p[i] \in 1 .. N
    BY <1>6
  <2>1. p[i] \in 1 .. m
    BY <1>1, <1>9, <2>0
  <2>2. ~(key[p[i]] < key[p[i]])
    BY <1>3, <2>0 DEF Orders
  <2>3. Below(1 .. N, key, p[i]) \in SUBSET ((1 .. m) \ {p[i]})
    BY <1>1, <1>9, <2>2 DEF Below
  <2>4. IsFiniteSet(1 .. m) /\ Cardinality(1 .. m) = m
    BY FS_Interval
  <2>5. /\ IsFiniteSet((1 .. m) \ {p[i]}) /\ Cardinality((1 .. m) \ {p[i]}) = m - 1
    BY <2>1, <2>4, FS_RemoveElement
  <2>6. Cardinality(Below(1 .. N, key, p[i])) <= m - 1
    BY <2>3, <2>5, FS_Subset
  <2> QED BY <1>6, <2>6
<1>10. \A u \in 1 .. M : u \in 1 .. N
  BY <1>1
<1>11. ASSUME NEW s \in 1 .. M, NEW u \in 1 .. N, key[u] < key[s]
       PROVE  u \in 1 .. M /\ Se!Owner(u) <= Se!Owner(s)
  <2>1. key[s] \in Int /\ key[u] \in Int /\ s \in 1 .. N
    BY <1>3, <1>10 DEF Orders
  <2>2. ~(key[s] < key[u])
    BY <1>11, <2>1
  <2>3. ~(u > M)
    BY <1>3, <2>1, <2>2
  <2>4. u \in 1 .. M
    BY <1>1, <2>3
  <2>5. ~(Se!Owner(s) < Se!Owner(u))
    BY <1>3, <2>1, <2>2, <2>4
  <2>6. Se!Owner(s) \in 1 .. ExpertCount /\ Se!Owner(u) \in 1 .. ExpertCount
    BY <1>7, <2>4
  <2> QED BY <2>4, <2>5, <2>6, SizesAre
<1>12. ASSUME NEW i \in 1 .. N, p[i] \in 1 .. M
       PROVE  i \in 1 .. M /\ Se!Owner(i) = Se!Owner(p[i])
  <2> DEFINE s == p[i]
             e == Se!Owner(s)
  <2>1. /\ s \in 1 .. N /\ s \in 1 .. M /\ e \in 1 .. ExpertCount
        /\ Se!End(e - 1) < s /\ s <= Se!End(e) /\ Se!End(e - 1) \in Nat /\ Se!End(e) \in Nat
        /\ Se!End(e) <= M
    BY <1>7, <1>10, <1>12
  <2>2. e - 1 \in Nat /\ e \in Nat
    BY <2>1
  <2>3. \A u \in 1 .. Se!End(e - 1) : key[u] < key[s]
    <3>1. ASSUME NEW u \in 1 .. Se!End(e - 1) PROVE key[u] < key[s]
      <4> DEFINE o == Se!Owner(u)
      <4> HIDE DEF s, e
      <4>1. u \in 1 .. M
        BY <1>1, <2>1
      <4>2. o \in 1 .. ExpertCount /\ Se!End(o - 1) < u /\ u <= Se!End(o)
            /\ Se!End(o - 1) \in Nat
        BY <1>7, <4>1
      <4> HIDE DEF o
      <4>3. ~(e <= o)
        <5>1. ASSUME e <= o PROVE FALSE
          <6>1. o - 1 \in Nat /\ e - 1 <= o - 1
            BY <2>2, <4>2, <5>1
          <6>2. Se!End(e - 1) <= Se!End(o - 1)
            BY <2>2, <6>1, EndGrows
          <6> QED BY <2>1, <4>2, <6>2
        <5> QED BY <5>1
      <4>4. o < e
        BY <2>2, <4>2, <4>3
      <4>5. Se!Key(u, given) < Se!Key(s, given)
        BY <1>3, <2>1, <4>1, <4>4 DEF o, e
      <4> QED BY <1>3, <1>10, <2>1, <4>1, <4>5
    <3> QED BY <3>1
  <2>4. Se!End(e - 1) <= i - 1
    <3>1. Se!End(e - 1) <= N
      BY <1>1, <2>1
    <3> QED BY <1>8, <2>1, <2>3, <3>1
  <2>5. \A u \in 1 .. N : u > Se!End(e) => ~(key[u] < key[s])
    <3>1. ASSUME NEW u \in 1 .. N, u > Se!End(e), key[u] < key[s] PROVE FALSE
      <4> DEFINE o == Se!Owner(u)
      <4>1. u \in 1 .. M /\ o <= e
        BY <1>11, <2>1, <3>1
      <4>2. o \in 1 .. ExpertCount /\ u <= Se!End(o) /\ Se!End(o) \in Nat
        BY <1>7, <4>1
      <4> HIDE DEF s, e, o
      <4>3. Se!End(o) <= Se!End(e)
        BY <2>2, <4>1, <4>2, EndGrows
      <4> QED BY <2>1, <3>1, <4>2, <4>3
    <3> QED BY <3>1
  <2>6. i <= Se!End(e)
    BY <1>9, <2>1, <2>5
  <2>7. i \in Nat /\ Se!End(e - 1) < i
    BY <2>1, <2>4
  <2> HIDE DEF e, s
  <2>8. i \in 1 .. M /\ Se!Owner(i) = e
    BY <2>1, <2>6, <2>7, OwnerIs DEF M
  <2> QED BY <2>8 DEF e, s
<1>13. ASSUME NEW i \in 1 .. M PROVE p[i] \in 1 .. M
  <2>1. i \in 1 .. N /\ p[i] \in 1 .. N
    BY <1>6, <1>10
  <2>2. ~(p[i] > M)
    <3>1. ASSUME p[i] > M PROVE FALSE
      <4>1. \A u \in 1 .. M : key[u] < key[p[i]]
        BY <1>3, <1>10, <2>1, <3>1
      <4>2. M \in Nat /\ M <= N
        BY <1>1
      <4>3. M <= i - 1
        BY <1>8, <2>1, <4>1, <4>2
      <4> QED BY <4>2, <4>3
    <3> QED BY <3>1
  <2> QED BY <1>1, <2>1, <2>2
<1>14. ASSUME NEW i \in 1 .. M, out[i] # RoutedTokens
       PROVE  routed[out[i]] = Se!Owner(i)
  <2>1. i \in 1 .. N /\ p[i] \in 1 .. M /\ out[i] = given[p[i]]
    BY <1>4, <1>10, <1>13
  <2>2. out[i] \in DOMAIN routed
    <3>1. given[p[i]] \in 0 .. RoutedTokens
      BY <1>2, <1>10, <2>1
    <3> QED BY <1>14, <2>1, <3>1, SizesAre DEF RoutedWell
  <2>3. PICK u \in 1 .. M : given[u] = out[i] /\ Se!Owner(u) = routed[out[i]]
    BY <1>2, <2>2
  <2>4. u = p[i]
    BY <1>2, <1>14, <2>1, <2>3
  <2>5. Se!Owner(i) = Se!Owner(p[i])
    BY <1>12, <2>1
  <2> QED BY <2>3, <2>4, <2>5
<1>15. ASSUME NEW t \in DOMAIN routed PROVE \E s \in 1 .. M : out[s] = t
  <2>1. PICK u \in 1 .. M : given[u] = t
    BY <1>2
  <2>2. PICK i \in 1 .. N : p[i] = u
    BY <1>6, <1>10
  <2>3. i \in 1 .. M
    BY <1>12, <2>2
  <2> QED BY <1>4, <2>1, <2>2, <2>3
<1>16. ASSUME NEW s \in 1 .. M - 1, Se!Owner(s) = Se!Owner(s + 1)
       PROVE  out[s] <= out[s + 1]
  <2>1. s \in 1 .. M /\ s + 1 \in 1 .. M /\ s \in 1 .. N /\ s + 1 \in 1 .. N
        /\ s < s + 1
    BY <1>1
  <2>2. /\ p[s] \in 1 .. M /\ p[s + 1] \in 1 .. M
        /\ p[s] \in 1 .. N /\ p[s + 1] \in 1 .. N
    BY <1>10, <1>13, <2>1
  <2>3. key[p[s]] < key[p[s + 1]]
    BY <1>6, <2>1
  <2>4. Se!Key(p[s], given) <= Se!Key(p[s + 1], given)
    BY <1>3, <2>2, <2>3
  <2>5. Se!Owner(p[s]) = Se!Owner(p[s + 1])
    <3>1. Se!Owner(p[s]) = Se!Owner(s)
      BY <1>12, <2>1, <2>2
    <3>2. Se!Owner(p[s + 1]) = Se!Owner(s + 1)
      BY <1>12, <2>1, <2>2
    <3> QED BY <1>16, <3>1, <3>2
  <2> DEFINE a == Se!Owner(p[s]) * (N + 1)
  <2>6. a \in Int
    <3>1. Se!Owner(p[s]) \in Int
      BY <1>7, <2>2
    <3> QED BY <1>1, <3>1
  <2>7. /\ Se!Key(p[s], given) = a + given[p[s]] /\ Se!Key(p[s + 1], given) = a + given[p[s + 1]]
        /\ given[p[s]] \in Int /\ given[p[s + 1]] \in Int
    BY <1>3, <2>2, <2>5
  <2> HIDE DEF a
  <2>8. given[p[s]] <= given[p[s + 1]]
    BY <2>4, <2>6, <2>7
  <2> QED BY <1>4, <2>1, <2>8
<1> QED BY <1>14, <1>15, <1>16 DEF SlotsWell, N, M, out, p, key

------------------------------------------------------------------------------
(* A call from its logits to its pages, and a routing to its slots. *)

OutputWell ==
    \/ /\ Len(output) = 3
       /\ \A q \in Se!Queries : /\ output[q] \in [1 .. Candidates -> {-1} \cup Se!Cols]
                                /\ Se!KernelMayTake(q, output[q])
    \/ Len(output) = 2 /\ \A q \in Se!Queries : Picked(q, output[q])
ChosenWell ==
    /\ call = <<>> \/ call \in Se!Calls
    /\ output # <<>> => call \in Se!Calls /\ OutputWell
    /\ order # <<>> => call \in Se!Calls /\ \A q \in Se!Queries : InOrder(q, order[q])
    /\ pages # <<>> => call \in Se!Calls /\ AttendedWell
SortedWell ==
    /\ routed = <<>> \/ RoutedWell
    /\ slots # <<>> => /\ RoutedWell
                       /\ \/ Len(slots) = 1 /\ GivenWell(slots[1])
                          \/ Len(slots) = 2 /\ SlotsWell(slots[2])
SelectionInv == subject = "selection" => ChosenWell /\ SortedWell

\* What depends on the call alone stays with it.
LEMMA CallStays ==
    ASSUME call' = call
    PROVE  /\ \A q : Se!Reach(q)' = Se!Reach(q) /\ Best(q)' = Best(q) /\ PagesOf(q)' = PagesOf(q)
           /\ \A q, row : /\ Picked(q, row)' <=> Picked(q, row)
                          /\ InOrder(q, row)' <=> InOrder(q, row)
                          /\ Se!KernelMayTake(q, row)' <=> Se!KernelMayTake(q, row)
<1>1. \A q : Se!Reach(q)' = Se!Reach(q)
  BY DEF Se!Reach, Se!Cols
<1>2. \A q, c : Se!Logit(q, c)' = Se!Logit(q, c)
  BY DEF Se!Logit
<1>3. \A q : RowKey(q)' = RowKey(q)
  BY <1>1, <1>2 DEF RowKey
<1>4. \A q : Best(q)' = Best(q)
  BY <1>1, <1>3 DEF Best
<1>5. \A q : PagesOf(q)' = PagesOf(q)
  BY <1>4 DEF PagesOf
<1>6. \A q, row : Picked(q, row)' <=> Picked(q, row)
  BY <1>4 DEF Picked
<1>7. \A q, row : InOrder(q, row)' <=> InOrder(q, row)
  BY <1>4 DEF InOrder
<1>8. \A q, row : Se!KernelMayTake(q, row)' <=> Se!KernelMayTake(q, row)
  BY <1>1, <1>2 DEF Se!KernelMayTake
<1> QED BY <1>1, <1>4, <1>5, <1>6, <1>7, <1>8

\* And what depends on the routing, with that.
LEMMA RoutingStays ==
    ASSUME routed' = routed
    PROVE  /\ RoutedWell' <=> RoutedWell
           /\ \A given : /\ GivenWell(given)' <=> GivenWell(given)
                         /\ SlotsWell(given)' <=> SlotsWell(given)
<1>1. RoutedWell' <=> RoutedWell
  BY DEF RoutedWell
<1>2. \A e : Se!Blocks(e)' = Se!Blocks(e)
  BY DEF Se!Blocks
<1>3. \A e : Se!End(e)' = Se!End(e)
  BY <1>2 DEF Se!End
<1>4. Se!Written' = Se!Written
  BY <1>3 DEF Se!Written
<1>5. \A s : Se!Owner(s)' = Se!Owner(s)
  BY <1>3 DEF Se!Owner
<1>6. \A given : GivenWell(given)' <=> GivenWell(given)
  BY <1>4, <1>5 DEF GivenWell, Se!Buffer
<1>7. \A given : SlotsWell(given)' <=> SlotsWell(given)
  BY <1>4, <1>5 DEF SlotsWell
<1> QED BY <1>1, <1>6, <1>7

\* A step that leaves a call alone leaves what is known of it.
LEMMA ChosenStays ==
    ASSUME ChosenWell, call' = call, output' = output, order' = order, pages' = pages
    PROVE  ChosenWell'
<1>1. Se!Calls' = Se!Calls /\ Se!Queries' = Se!Queries /\ Se!Cols' = Se!Cols
  BY DEF Se!Calls, Se!Queries, Se!Cols
<1>2. \A q : Se!Attended(q)' = Se!Attended(q)
  BY DEF Se!Attended
<1>3. AttendedWell' <=> AttendedWell
  BY <1>1, <1>2, CallStays DEF AttendedWell
<1>4. OutputWell' <=> OutputWell
  BY <1>1, CallStays DEF OutputWell
<1> QED BY <1>1, <1>3, <1>4, CallStays DEF ChosenWell

\* And one that leaves a routing alone.
LEMMA SortedStays ==
    ASSUME SortedWell, routed' = routed, slots' = slots
    PROVE  SortedWell'
BY RoutingStays DEF SortedWell

\* A pair is as long as it is.
LEMMA PairLong == ASSUME NEW f, f = [q \in Se!Queries |-> f[q]] PROVE Len(f) = 2
<1>1. f \in [1 .. 2 -> {f[1], f[2]}]
  BY DEF Se!Queries
<1> QED BY <1>1, FunSeq

\* An output replaces what there was, and the rest of the call stays.
LEMMA NewOutput ==
    ASSUME ChosenWell, call \in Se!Calls, UNCHANGED <<call, order, pages>>, OutputWell'
    PROVE  ChosenWell'
<1>1. Se!Calls' = Se!Calls /\ Se!Queries' = Se!Queries
  BY DEF Se!Calls, Se!Queries, Se!Cols
<1>2. \A q : Se!Attended(q)' = Se!Attended(q)
  BY DEF Se!Attended
<1>3. AttendedWell' <=> AttendedWell
  BY <1>1, <1>2, CallStays DEF AttendedWell
<1> QED BY <1>1, <1>3, CallStays DEF ChosenWell

\* A decode call is sorted to its best.
LEMMA DecodeKeeps == ASSUME ChosenWell, Se!DecodeTopK PROVE ChosenWell'
<1>1. /\ call \in Se!Calls /\ UNCHANGED <<call, order, pages>>
      /\ output' = [q \in Se!Queries |-> Se!StableTopK(q)]
  BY DEF Se!DecodeTopK, ChosenWell, Se!Nothing
<1>2. \A q \in Se!Queries : Picked(q, output'[q])
  BY <1>1, StableIs
<1>3. Len(output') = 2
  BY <1>1, PairLong
<1>4. OutputWell'
  BY <1>1, <1>2, <1>3, CallStays DEF OutputWell, Se!Queries
<1> QED BY <1>1, <1>4, NewOutput

\* A prefill call gets what the kernel may take.
LEMMA PrefillKeeps == ASSUME ChosenWell, Se!PrefillKernel PROVE ChosenWell'
<1>1. call \in Se!Calls /\ UNCHANGED <<call, order, pages>>
  BY DEF Se!PrefillKernel, ChosenWell, Se!Nothing
<1>2. PICK first, second \in [1 .. Candidates -> {-1} \cup Se!Cols] :
        /\ Se!KernelMayTake(1, first) /\ Se!KernelMayTake(2, second)
        /\ output' = <<first, second, "kernel">>
  BY DEF Se!PrefillKernel, Se!Padding
<1>3. Len(output') = 3 /\ output'[1] = first /\ output'[2] = second
  BY <1>2
<1>4. \A q \in Se!Queries : /\ output'[q] \in [1 .. Candidates -> {-1} \cup Se!Cols]
                            /\ Se!KernelMayTake(q, output'[q])
  BY <1>2, <1>3 DEF Se!Queries
<1>5. OutputWell'
  BY <1>1, <1>3, <1>4, CallStays DEF OutputWell, Se!Queries, Se!Cols
<1> QED BY <1>1, <1>5, NewOutput

\* The tied rows are chosen again, and the others have no other choice.
LEMMA RepairKeeps == ASSUME ChosenWell, Se!RepairTies PROVE ChosenWell'
<1>1. /\ Len(output) = 3 /\ UNCHANGED <<call, order, pages>>
      /\ output' = [q \in Se!Queries |-> IF Se!Tied(q) THEN Se!StableTopK(q) ELSE output[q]]
  BY DEF Se!RepairTies
<1>2. output # <<>>
  BY <1>1, EmptyLen
<1>3. /\ call \in Se!Calls
      /\ \A q \in Se!Queries : /\ output[q] \in [1 .. Candidates -> {-1} \cup Se!Cols]
                               /\ Se!KernelMayTake(q, output[q])
  BY <1>1, <1>2 DEF ChosenWell, OutputWell
<1>4. \A q \in Se!Queries : Picked(q, output'[q])
  <2>1. ASSUME NEW q \in Se!Queries PROVE Picked(q, output'[q])
    <3>1. CASE Se!Tied(q)
      BY <1>1, <1>3, <3>1, StableIs
    <3>2. CASE ~Se!Tied(q)
      BY <1>1, <1>3, <3>2, KernelIs
    <3> QED BY <3>1, <3>2
  <2> QED BY <2>1
<1>5. Len(output') = 2
  BY <1>1, PairLong
<1>6. OutputWell'
  BY <1>1, <1>4, <1>5, CallStays DEF OutputWell, Se!Queries
<1> QED BY <1>1, <1>3, <1>6, NewOutput

\* The order is of the best.
LEMMA OrderKeeps == ASSUME ChosenWell, Se!CanonicalOrder PROVE ChosenWell'
<1>1. /\ Len(output) = 2 /\ UNCHANGED <<call, output, pages>>
      /\ order' = [q \in Se!Queries |-> Se!Canonical(output[q])]
  BY DEF Se!CanonicalOrder
<1>2. output # <<>>
  BY <1>1, EmptyLen
<1>3. call \in Se!Calls /\ OutputWell /\ \A q \in Se!Queries : Picked(q, output[q])
  BY <1>1, <1>2 DEF ChosenWell, OutputWell
<1>4. \A q \in Se!Queries : InOrder(q, order'[q])
  BY <1>1, <1>3, CanonicalIs
<1>5. Se!Calls' = Se!Calls /\ Se!Queries' = Se!Queries /\ Se!Cols' = Se!Cols
  BY DEF Se!Calls, Se!Queries, Se!Cols
<1>6. \A q : Se!Attended(q)' = Se!Attended(q)
  BY <1>1 DEF Se!Attended
<1>7. AttendedWell' <=> AttendedWell
  BY <1>1, <1>5, <1>6, CallStays DEF AttendedWell
<1>8. OutputWell'
  BY <1>1, <1>3, <1>5, CallStays DEF OutputWell
<1> QED BY <1>1, <1>3, <1>4, <1>5, <1>7, <1>8, CallStays DEF ChosenWell

\* The pages are of the order.
LEMMA CompactKeeps == ASSUME ChosenWell, Se!CompactCandidates PROVE ChosenWell'
<1>1. /\ order # <<>> /\ UNCHANGED <<call, output, order>> /\ pages' = Se!Compact
  BY DEF Se!CompactCandidates, Se!Nothing
<1>2. call \in Se!Calls /\ \A q \in Se!Queries : InOrder(q, order[q])
  BY <1>1 DEF ChosenWell
<1>3. \A q \in Se!Queries : Se!Attended(q)' = PagesOf(q)
  BY <1>1, <1>2, CompactAttends
<1>4. Se!Calls' = Se!Calls /\ Se!Queries' = Se!Queries /\ Se!Cols' = Se!Cols
  BY DEF Se!Calls, Se!Queries, Se!Cols
<1>5. AttendedWell'
  BY <1>1, <1>3, <1>4, CallStays DEF AttendedWell
<1>6. OutputWell' <=> OutputWell
  BY <1>1, <1>4, CallStays DEF OutputWell
<1> QED BY <1>1, <1>2, <1>4, <1>5, <1>6, CallStays DEF ChosenWell

\* The kernel gives the slots in some order.
LEMMA AlignKeeps == ASSUME SortedWell, Se!Align PROVE SortedWell'
<1>1. routed # <<>> /\ routed' = routed
  BY DEF Se!Align, Se!Nothing
<1>2. PICK given \in [1 .. Se!Buffer -> 0 .. RoutedTokens] :
        Se!AlignMayGive(given) /\ slots' = <<given>>
  BY DEF Se!Align
<1>3. RoutedWell
  BY <1>1 DEF SortedWell
<1>4. GivenWell(given)
  BY <1>2 DEF GivenWell, Se!AlignMayGive
<1>5. Len(slots') = 1 /\ slots'[1] = given
  BY <1>2
<1> QED BY <1>1, <1>3, <1>4, <1>5, RoutingStays DEF SortedWell

\* And they are sorted to one.
LEMMA ExpertsKeep == ASSUME SortedWell, Se!CanonicalExperts PROVE SortedWell'
<1> DEFINE given == slots[1]
           sorted == Se!Sorted(1 .. Se!Buffer, SlotKey(given))
           out == [i \in DOMAIN sorted |-> given[sorted[i]]]
<1>1. Len(slots) = 1 /\ routed' = routed /\ slots' = <<given, out>>
  BY DEF Se!CanonicalExperts, SlotKey
<1>2. slots # <<>>
  BY <1>1, EmptyLen
<1>3. RoutedWell /\ GivenWell(given)
  BY <1>1, <1>2 DEF SortedWell
<1> HIDE DEF given
<1>4. DOMAIN sorted = 1 .. Se!Buffer
  <2>1. Orders(1 .. Se!Buffer, SlotKey(given))
    BY <1>3, SlotOrders DEF GivenWell
  <2>2. Cardinality(1 .. Se!Buffer) = Se!Buffer
    BY <1>3, WrittenFits, FS_Interval
  <2> QED BY <2>1, <2>2, SortedIs
<1>5. SlotsWell(out)
  BY <1>3, <1>4, SortsOut
<1>6. Len(slots') = 2 /\ slots'[2] = out
  BY <1>1
<1> HIDE DEF out, sorted
<1> QED BY <1>1, <1>3, <1>5, <1>6, RoutingStays DEF SortedWell

\* A row's page says what the property does of it.
LEMMA PageSays ==
    ASSUME call \in Se!Calls, NEW q \in Se!Queries
    PROVE  LET Beats(d, c) == Se!Logit(q, d) > Se!Logit(q, c)
                              \/ (Se!Logit(q, d) = Se!Logit(q, c) /\ d < c)
               best == {c \in Se!Reach(q) :
                          Se!Cardinality({d \in Se!Reach(q) : Beats(d, c)}) < Candidates}
           IN  PagesOf(q) = [i \in 1 .. Se!Cardinality(best) |->
                               LogitColumns - CHOOSE c \in best :
                                           Se!Cardinality({d \in best : d < c}) = i - 1]
<1> DEFINE Beats(d, c) == Se!Logit(q, d) > Se!Logit(q, c)
                          \/ (Se!Logit(q, d) = Se!Logit(q, c) /\ d < c)
           best == {c \in Se!Reach(q) :
                      Se!Cardinality({d \in Se!Reach(q) : Beats(d, c)}) < Candidates}
           B == Best(q)
           s == Se!Ascending(B)
           At(i) == CHOOSE c \in B : Se!Cardinality({d \in B : d < c}) = i - 1
<1>1. ASSUME NEW c \in Se!Reach(q)
      PROVE  {d \in Se!Reach(q) : Beats(d, c)} = Below(Se!Reach(q), RowKey(q), c)
  <2>1. \A d \in Se!Reach(q) : RowKey(q)[d] < RowKey(q)[c] <=> Beats(d, c)
    BY RowOrders
  <2> HIDE DEF Beats
  <2> QED BY <2>1 DEF Below
<1>2. best = B
  <2>1. \A c \in Se!Reach(q) : Se!Cardinality({d \in Se!Reach(q) : Beats(d, c)})
                                 = Cardinality(Below(Se!Reach(q), RowKey(q), c))
    BY <1>1, SeCardinality
  <2> HIDE DEF Beats
  <2> QED BY <2>1 DEF Best
<1>3. B \in SUBSET Int /\ IsFiniteSet(B)
  BY BestAscends
<1> HIDE DEF B
<1>4. /\ Orders(B, [x \in B |-> x])
      /\ s \in [1 .. Cardinality(B) -> B]
      /\ \A i \in 1 .. Cardinality(B) : Cardinality({y \in B : y < s[i]}) = i - 1
  BY <1>3, AscendingIs
<1> HIDE DEF s
<1>5. \A x \in B : Below(B, [y \in B |-> y], x) = {y \in B : y < x}
  BY DEF Below
<1>6. ASSUME NEW i \in 1 .. Cardinality(B) PROVE At(i) = s[i]
  <2>1. s[i] \in B /\ Se!Cardinality({d \in B : d < s[i]}) = i - 1
    BY <1>4, SeCardinality
  <2>2. At(i) \in B /\ Se!Cardinality({d \in B : d < At(i)}) = i - 1
    BY <2>1
  <2> HIDE DEF At
  <2>3. Cardinality(Below(B, [y \in B |-> y], At(i))) = Cardinality(Below(B, [y \in B |-> y], s[i]))
    BY <1>5, <2>1, <2>2, SeCardinality
  <2> QED BY <1>4, <2>1, <2>2, <2>3, PlaceTells
<1>7. PagesOf(q) = [i \in 1 .. Cardinality(B) |-> LogitColumns - s[i]]
  BY DEF PagesOf, B, s
<1>8. PagesOf(q) = [i \in 1 .. Se!Cardinality(B) |-> LogitColumns - At(i)]
  <2> HIDE DEF At
  <2> QED BY <1>6, <1>7, SeCardinality
<1> HIDE DEF best
<1>9. PagesOf(q) = [i \in 1 .. Se!Cardinality(best) |->
                      LogitColumns - CHOOSE c \in best : Se!Cardinality({d \in best : d < c}) = i - 1]
  BY <1>2, <1>8
<1> QED BY <1>9 DEF best

\* What is kept says that one input gives one result.
LEMMA SaysOneResult ==
    ASSUME ChosenWell, SortedWell PROVE Se!OneInputOneResult
<1>1. ASSUME pages # <<>>, NEW q \in Se!Queries
      PROVE  call \in Se!Calls /\ Se!Attended(q) = PagesOf(q)
  BY <1>1 DEF ChosenWell, AttendedWell
<1>2. ASSUME Len(slots) = 2 PROVE SlotsWell(slots[2])
  <2>1. slots # <<>>
    BY <1>2, EmptyLen
  <2> QED BY <1>2, <2>1 DEF SortedWell
<1> QED BY <1>1, <1>2, PageSays DEF Se!OneInputOneResult, SlotsWell, Se!Nothing

\* The selection is kept by every step of the image.
LEMMA SelectionKept ==
    SelectionInv /\ [MCNext]_<<vars, subject, pipelineVars, kdaVars, selectionVars>>
      => SelectionInv'
<1> SUFFICES ASSUME SelectionInv, subject' = "selection",
                    [MCNext]_<<vars, subject, pipelineVars, kdaVars, selectionVars>>
             PROVE  ChosenWell' /\ SortedWell'
  BY DEF SelectionInv
<1>1. CASE UNCHANGED selectionVars /\ subject' = subject
  <2>1. ChosenWell /\ SortedWell
    BY <1>1 DEF SelectionInv
  <2>2. UNCHANGED <<call, output, order, pages, routed, slots>>
    BY <1>1 DEF selectionVars
  <2> QED BY <2>1, <2>2, ChosenStays, SortedStays
<1>2. \A it : Only(it) => /\ subject = it /\ subject' = it
                          /\ it # "selection" => UNCHANGED selectionVars
  BY DEF Only
<1>3. CASE Only("selection") /\ MCNext
  <2>1. ChosenWell /\ SortedWell
    BY <1>2, <1>3 DEF SelectionInv
  <2>2. \/ Se!DecodeTopK \/ Se!PrefillKernel \/ Se!RepairTies \/ Se!CanonicalOrder
        \/ Se!CompactCandidates \/ Se!Align \/ Se!CanonicalExperts
    BY <1>2, <1>3 DEF MCNext
  <2>3. CASE Se!DecodeTopK
    BY <2>1, <2>3, DecodeKeeps, SortedStays DEF Se!DecodeTopK
  <2>4. CASE Se!PrefillKernel
    BY <2>1, <2>4, PrefillKeeps, SortedStays DEF Se!PrefillKernel
  <2>5. CASE Se!RepairTies
    BY <2>1, <2>5, RepairKeeps, SortedStays DEF Se!RepairTies
  <2>6. CASE Se!CanonicalOrder
    BY <2>1, <2>6, OrderKeeps, SortedStays DEF Se!CanonicalOrder
  <2>7. CASE Se!CompactCandidates
    BY <2>1, <2>7, CompactKeeps, SortedStays DEF Se!CompactCandidates
  <2>8. CASE Se!Align
    BY <2>1, <2>8, AlignKeeps, ChosenStays DEF Se!Align
  <2>9. CASE Se!CanonicalExperts
    BY <2>1, <2>9, ExpertsKeep, ChosenStays DEF Se!CanonicalExperts
  <2> QED BY <2>2, <2>3, <2>4, <2>5, <2>6, <2>7, <2>8, <2>9
<1>4. CASE MCNext /\ ~Only("selection")
  <2>1. Only("ring") \/ Only("pipeline") \/ Only("kda")
    BY <1>4 DEF MCNext
  <2>2. UNCHANGED selectionVars /\ subject' = subject
    BY <1>2, <2>1
  <2> QED BY <1>1, <2>2
<1>5. CASE UNCHANGED <<vars, subject, pipelineVars, kdaVars, selectionVars>>
  BY <1>1, <1>5
<1> QED BY <1>3, <1>4, <1>5

\* For any width, any number of candidates, any logits, any range of each row and any routing of
\* any tokens to any experts: whatever the kernels chose among equals, a row's candidates are its best in one
\* order, the attention reads exactly their cache rows, and an expert's blocks hold its own
\* tokens in one order.
THEOREM OneResult == MCSpec => []OneInputOneResult
<1>1. MCInit => SelectionInv
  <2> SUFFICES ASSUME MCInit, subject = "selection" PROVE ChosenWell /\ SortedWell
    BY DEF SelectionInv
  <2>1. Se!Init
    BY DEF MCInit
  <2>2. /\ call = <<>> \/ call \in Se!Calls
        /\ output = <<>> /\ order = <<>> /\ pages = <<>> /\ slots = <<>>
        /\ routed = <<>> \/ RoutedWell
    BY <2>1 DEF Se!Init, Se!InitTopK, Se!InitIdle, Se!Nothing, RoutedWell
  <2> QED BY <2>2 DEF ChosenWell, SortedWell
<1>2. SelectionInv => OneInputOneResult
  BY SaysOneResult DEF SelectionInv, OneInputOneResult
<1>3. SelectionInv /\ [MCNext]_<<vars, subject, pipelineVars, kdaVars, selectionVars>>
        => SelectionInv'
  BY SelectionKept
<1> QED BY <1>1, <1>2, <1>3, PTL DEF MCSpec
=============================================================================
