----------------------------- MODULE ApcLpaProofs -----------------------------
(***************************************************************************)
(* Proofs about ApcLpa, for any requests, texts, cache groups, chunks,     *)
(* drafts and steps ahead.                                                 *)
(*                                                                         *)
(* The scheduler enters blocks before the worker computes them and learns  *)
(* of rejected drafts after it has planned on.  Inductive ties the two     *)
(* sides together: what is in flight (Sent, InOrder), what the worker      *)
(* knows (Worked), how far each is (Tracked), and what may be entered for  *)
(* a policy (Entered).                                                     *)
(*                                                                         *)
(* The proofs go from an action to its effect (the operators ...Does), and *)
(* from the effects to each part of the invariant (the lemmas ...Kept).    *)
(***************************************************************************)
EXTENDS ApcLpa, SequenceTheorems, WellFoundedInduction, TLAPS

-----------------------------------------------------------------------------
(* What the variables range over.                                          *)

\* A policy, or none yet.
SomePolicy == Policies \cup {None}

\* A step the scheduler sent.
Steps == [req : Requests, new : BOOLEAN, wire : SomePolicy, pos : Nat, n : Nat \ {0},
          draft : BOOLEAN, accepted : Nat, end : Nat, gone : SUBSET Requests,
          entered : Nat, generated : BOOLEAN]

\* Every variable's type; what the client sees is always the policy installed.
Typed ==
    /\ status \in [Requests -> {"waiting", "running", "preempted", "finished"}]
    /\ off \in SUBSET Requests
    /\ policy \in [Requests -> SomePolicy] /\ wire = policy
    /\ told \in [Requests -> SomePolicy]
    /\ computed \in [Requests -> Nat] /\ known \in [Requests -> Nat]
    /\ upto \in [Requests -> Nat] /\ done \in [Requests -> Nat]
    /\ flight \in Seq(Steps)
    /\ retired \in SUBSET Requests /\ owner \in Requests \cup {None}
    /\ spec \in Nat \X Nat /\ skipped \in [Requests -> SUBSET Nat]

-----------------------------------------------------------------------------
(* The inductive invariant, in named parts.                                *)

\* A policy the planner can have made for r.
Fit(r, p) ==
    /\ p \in Policies /\ p.cached <= Prompt[r] /\ Valid(r, p)
    /\ r \in off => p.start = None

\* What a request is known by.
Standing ==
    \A r \in Requests :
        /\ policy[r] # None <=> status[r] \in {"running", "preempted"}
        /\ policy[r] # None => Fit(r, policy[r])
        /\ known[r] \in Prompt[r]..Len(Text[r])
        /\ computed[r] <= Len(Text[r]) /\ upto[r] <= Len(Text[r])
        /\ status[r] \in {"waiting", "preempted"} => ~InFlight(r)

\* Blocks are entered up to the window at most, unless they were restored.
Narrow(r, p, end) ==
    p.start # None /\ p.cached < Prompt[r] => end <= Most(p.start, p.cached)

\* Where the exact part of a prompt ends.
Exact(r, p) == IF p.start = None THEN Prompt[r] ELSE p.start

\* What a running request has entered.
Entered ==
    /\ shared \subseteq AllKeys
    /\ \A r \in Running :
          /\ Keys(r, upto[r]) \subseteq shared
          /\ Least(computed[r], Exact(r, policy[r])) <= upto[r]
          /\ Narrow(r, policy[r], upto[r])

\* What the scheduler puts in a step, and what the worker makes of it.
Sound(s) ==
    /\ s.wire # None /\ Fit(s.req, s.wire)
    /\ s.pos + s.n <= Len(Text[s.req]) /\ s.accepted <= s.n
    /\ ~s.draft /\ s.accepted # 0 => s.accepted = s.n
    /\ s.draft => ~s.new /\ (s.n > 1 => Draft > 0)
    /\ s.new => s.wire.cached = Least(s.pos, Prompt[s.req])
    /\ ~s.new /\ s.pos >= Prompt[s.req] => s.generated
    /\ Narrow(s.req, s.wire, s.entered)

\* What is in flight is sound, goes with the policy of its request, and calls gone what is
\* finished.
Sent ==
    /\ Len(flight) <= Ahead
    /\ \A i \in 1..Len(flight) :
          /\ Sound(flight[i])
          /\ status[flight[i].req] = "running" => flight[i].wire = policy[flight[i].req]
          /\ \A q \in flight[i].gone : status[q] = "finished"
    /\ \A q \in retired : status[q] = "finished"

\* Steps are worked on in the order they were sent; only the first of an admission is new.
InOrder ==
    \A i, j \in 1..Len(flight) :
        /\ i < j /\ flight[j].accepted # 0 => flight[i].accepted # 0
        /\ i < j /\ flight[i].req = flight[j].req =>
              ~flight[j].new /\ flight[i].wire = flight[j].wire
        /\ i <= j => flight[j].req \notin flight[i].gone

\* The positions of r before d that policy p has approximated.
Window(r, p, d) ==
    IF p.start = None THEN {}
    ELSE {x \in 0..(d - 1) : p.start <= x /\ p.cached <= x /\ x < ApproximateEnd(r)}

\* What the worker knows of the requests it was sent.
Worked ==
    /\ owner # None => spec = Configured(owner, told[owner])
    /\ \A r \in Requests :
          /\ done[r] <= Len(Text[r]) /\ skipped[r] \subseteq 0..(Len(Text[r]) - 1)
          /\ told[r] # None => /\ Fit(r, told[r]) /\ told[r].cached <= done[r]
                               /\ skipped[r] = Window(r, told[r], done[r])
          /\ status[r] = "running" /\ Started(r) => told[r] = policy[r]
    /\ \A i \in Unseen : Started(flight[i].req) => told[flight[i].req] = flight[i].wire

\* Every step before i has been worked on, and none after.
Split(i) == /\ \A j \in 1..i : flight[j].accepted # 0
            /\ \A j \in (i + 1)..Len(flight) : flight[j].accepted = 0

\* How far a step takes r, as far as is known.
Moved(r, s) == IF s.req # r THEN 0 ELSE IF s.accepted # 0 THEN s.accepted ELSE s.n
\* As it was planned.
Planned(r, s) == IF s.req # r THEN 0 ELSE s.n

\* Through the steps fl, at[i] is where r will be after i of them, plan[i] where the scheduler
\* takes it to be: they differ by the drafts rejected in steps it has not heard of.
Path(r, fl, at, plan) ==
    /\ at[0] = plan[0]
    /\ \A i \in 1..Len(fl) :
          /\ at[i] = at[i - 1] + Moved(r, fl[i])
          /\ plan[i] = plan[i - 1] + Planned(r, fl[i])
          /\ fl[i].req = r =>
                /\ plan[i - 1] <= fl[i].pos
                /\ plan[i - 1] # fl[i].pos => at[0] >= Prompt[r] /\ Draft > 0
                /\ fl[i].new => at[i - 1] = fl[i].pos
                /\ fl[i].draft => at[i - 1] >= Prompt[r]
    /\ \A i \in 0..Len(fl) :
          /\ at[i] <= plan[i]
          /\ at[i] # plan[i] => at[i] >= Prompt[r] /\ Draft > 0
    /\ \A i, j \in 0..Len(fl) :
          i <= j => at[i] <= at[j] /\ plan[i] - at[i] <= plan[j] - at[j]

\* The path of r through the steps in flight goes by what the worker has done, and ends where
\* the scheduler is.
Tracks(r, at, plan) ==
    /\ Path(r, flight, at, plan)
    /\ \A i \in 0..Len(flight) : Started(r) /\ Split(i) => at[i] = done[r]
    /\ status[r] = "running" => plan[Len(flight)] = computed[r]

\* The requests a step is still to be computed for.
Live(r) == status[r] = "running" \/ \E i \in Unseen : flight[i].req = r

\* Of each of them, there is such a path.
Tracked ==
    \A r \in Requests : Live(r) =>
        \E at, plan \in [0..Len(flight) -> Nat] : Tracks(r, at, plan)

\* The inductive invariant.
IInv == /\ Typed /\ Standing /\ Entered /\ Sent /\ InOrder /\ Worked /\ Tracked
        /\ bad = {} /\ raised = FALSE

-----------------------------------------------------------------------------
(* Operators.                                                              *)

\* Every set of naturals has a least member.
LEMMA LeastOf ==
    ASSUME NEW S \in SUBSET Nat, S # {}
    PROVE  \E x \in S : \A y \in S : x <= y
<1> DEFINE R == {ss \in Nat \X Nat : ss[1] < ss[2]}
<1>1. IsWellFoundedOn(R, Nat)
    BY NatLessThanWellFounded DEF OpToRel
<1>2. \A x, y \in Nat : <<y, x>> \in R <=> y < x
    OBVIOUS
<1> HIDE DEF R
<1>3. PICK x \in S : \A y \in S : ~(<<y, x>> \in R)
    BY <1>1, WFMin
<1>4. ASSUME NEW y \in S
      PROVE  x <= y
  <2>1. x \in Nat /\ y \in Nat /\ <<y, x>> \notin R
    BY <1>3
  <2>2. ~(y < x)
    BY <1>2, <2>1
  <2>3. QED
    BY <2>1, <2>2
<1>5. QED
    BY <1>4

\* A prompt is part of its text, and a tail of it is always computed exactly.
LEMMA PromptIs ==
    ASSUME NEW r \in Requests
    PROVE  /\ Len(Text[r]) \in Nat /\ Prompt[r] \in Nat /\ Prompt[r] >= 1
           /\ Prompt[r] <= Len(Text[r])
           /\ ApproximateEnd(r) \in Nat /\ ApproximateEnd(r) < Prompt[r]
<1>1. Len(Text[r]) \in Nat /\ Prompt[r] \in 1..Len(Text[r]) /\ TailTokens \in Nat \ {0}
    BY ApcAssumption, LenProperties
<1>2. QED
    BY <1>1 DEF ApproximateEnd, ExactTail, Least

\* A policy is never None, and has naturals in it.
LEMMA PolicyIs ==
    ASSUME NEW p \in Policies
    PROVE  /\ p # None /\ p.cached \in Nat /\ (p.start # None => p.start \in Nat)
           /\ p = [cached |-> p.cached, start |-> p.start]
  BY NoneAssumption DEF Policies

\* The planner keeps an earlier window, and begins a new one where the hit ends.
LEMMA PlanIs ==
    ASSUME NEW r \in Requests, NEW h \in Nat, NEW previous \in SomePolicy,
           previous # None => Fit(r, previous)
    PROVE  LET p == PlanPrefill(r, h, previous) IN
           /\ Fit(r, p) /\ p.cached = Least(h, Prompt[r])
           /\ previous # None => p.start = previous.start
           /\ previous = None => p.start \in {None, h}
<1> DEFINE cached == Least(h, Prompt[r])
           p == PlanPrefill(r, h, previous)
<1>1. cached \in Nat /\ cached <= Prompt[r] /\ cached <= h
    BY PromptIs DEF Least
<1>2. p.cached = cached
    BY DEF PlanPrefill
<1>3. CASE previous # None
  <2>1. p.start = previous.start /\ Fit(r, previous)
    BY <1>3 DEF PlanPrefill
  <2>2. p \in Policies
    BY <1>1, <2>1 DEF PlanPrefill, Fit, Policies
  <2>3. QED
    BY <1>1, <1>2, <1>3, <2>1, <2>2 DEF Fit, Valid
<1>4. CASE previous = None
  <2>1. p.start = IF r \notin off /\ Eligible(r, cached) > BreakEven THEN cached ELSE None
    BY <1>4 DEF PlanPrefill
  <2>2. p = [cached |-> cached, start |-> p.start]
    BY <2>1 DEF PlanPrefill
  <2>3. p \in Policies
    BY <1>1, <2>1, <2>2 DEF Policies
  <2>4. Eligible(r, cached) > BreakEven => cached < ApproximateEnd(r)
    BY <1>1, PromptIs, ApcAssumption DEF Eligible, Most
  <2>5. cached < ApproximateEnd(r) => cached = h
    BY PromptIs DEF Least
  <2>6. Valid(r, p)
    BY <2>1, <2>4 DEF Valid
  <2>7. p.start \in {None, h} /\ (r \in off => p.start = None)
    BY <2>1, <2>4, <2>5
  <2> HIDE DEF p, cached
  <2>8. QED
    BY <1>1, <1>2, <1>4, <2>3, <2>6, <2>7 DEF Fit, p, cached
<1>5. QED
    BY <1>3, <1>4

\* Up to where the blocks of a policy may be shared.
LEMMA CacheableIs ==
    ASSUME NEW p \in Policies, NEW end \in Nat
    PROVE  /\ CacheableEnd(p, end) \in Nat /\ CacheableEnd(p, end) <= end
           /\ p.start = None => CacheableEnd(p, end) = end
           /\ p.start # None => CacheableEnd(p, end) = Least(end, p.start)
  BY PolicyIs DEF CacheableEnd, Least

\* Keys only grow with the text.
LEMMA KeysGrow ==
    ASSUME NEW r, NEW m \in Nat, NEW n \in Nat, m <= n
    PROVE  Keys(r, m) \subseteq Keys(r, n)
<1>1. \A g \in Groups : Ends(g, m) \subseteq Ends(g, n)
    BY DEF Ends
<1>2. \A g \in Groups : {Key(g, r, e) : e \in Ends(g, m)}
                           \subseteq {Key(g, r, e) : e \in Ends(g, n)}
    BY <1>1
<1>3. QED
    BY <1>2 DEF Keys

\* The keys of a request's text are keys of a text.
LEMMA KeysIn ==
    ASSUME NEW r \in Requests, NEW n \in Nat, n <= Len(Text[r])
    PROVE  Keys(r, n) \subseteq AllKeys
<1>1. Keys(r, n) \subseteq Keys(r, Len(Text[r]))
    BY PromptIs, KeysGrow
<1>2. QED
    BY <1>1 DEF AllKeys

\* What a lookup restores is shared, and leaves a token to compute.
LEMMA HitIs ==
    ASSUME Typed, NEW r \in Requests, NEW h \in Hits(r)
    PROVE  h \in Nat /\ h < known[r] /\ Keys(r, h) \subseteq shared
  BY DEF Hits, Typed

\* A step that is sent is the last one in flight.
LEMMA GrownIs ==
    ASSUME flight \in Seq(Steps), NEW s \in Steps, s.accepted = 0, flight' = Append(flight, s)
    PROVE  /\ flight' \in Seq(Steps) /\ Len(flight) \in Nat /\ Len(flight') = Len(flight) + 1
           /\ \A i \in 1..Len(flight) : flight'[i] = flight[i]
           /\ flight'[Len(flight) + 1] = s
           /\ Unseen' = Unseen \cup {Len(flight) + 1}
           /\ \A q : InFlight(q)' <=> InFlight(q) \/ q = s.req
           /\ \A q : Started(q)' <=> Started(q) /\ ~(q = s.req /\ s.new)
<1>1. /\ flight' \in Seq(Steps) /\ Len(flight) \in Nat /\ Len(flight') = Len(flight) + 1
      /\ \A i \in 1..Len(flight) : flight'[i] = flight[i]
      /\ flight'[Len(flight) + 1] = s
    BY AppendProperties, LenProperties
<1>2. 1..Len(flight') = (1..Len(flight)) \cup {Len(flight) + 1}
    BY <1>1
<1>3. Unseen' = Unseen \cup {Len(flight) + 1}
    BY <1>1, <1>2 DEF Unseen
<1>4. ASSUME NEW q
      PROVE  InFlight(q)' <=> InFlight(q) \/ q = s.req
    BY <1>1, <1>2 DEF InFlight
<1>5. ASSUME NEW q
      PROVE  Started(q)' <=> Started(q) /\ ~(q = s.req /\ s.new)
  <2>1. Unseen \subseteq 1..Len(flight)
    BY DEF Unseen
  <2>2. QED
    BY <1>1, <1>3, <2>1 DEF Started
<1>6. QED
    BY <1>1, <1>3, <1>4, <1>5

\* A step that is heard of was the first one in flight, and was worked on.
LEMMA HeardIs ==
    ASSUME flight \in Seq(Steps), flight # <<>>, Head(flight).accepted > 0,
           flight' = Tail(flight)
    PROVE  /\ flight' \in Seq(Steps) /\ Len(flight) \in Nat /\ Len(flight) >= 1
           /\ Len(flight') = Len(flight) - 1
           /\ \A i \in 1..(Len(flight) - 1) : flight'[i] = flight[i + 1]
           /\ flight[1] \in Steps /\ flight[1] = Head(flight) /\ flight[1].accepted # 0
           /\ \A i \in 1..(Len(flight) - 1) : i \in Unseen' <=> i + 1 \in Unseen
           /\ \A i \in Unseen : i - 1 \in 1..(Len(flight) - 1) /\ i - 1 \in Unseen'
           /\ \A q : InFlight(q)' => InFlight(q)
           /\ \A q : Started(q)' <=> Started(q)
<1>1. /\ flight' \in Seq(Steps) /\ Len(flight) \in Nat /\ Len(flight) >= 1
      /\ Len(flight') = Len(flight) - 1
      /\ \A i \in 1..(Len(flight) - 1) : flight'[i] = flight[i + 1]
      /\ flight[1] \in Steps /\ flight[1] = Head(flight)
    BY HeadTailProperties, EmptySeq, LenProperties
<1>2. flight[1].accepted # 0
    BY <1>1 DEF Steps
<1>3. \A i \in 1..(Len(flight) - 1) : i \in Unseen' <=> i + 1 \in Unseen
    BY <1>1 DEF Unseen
<1>4. \A i \in Unseen : i \in 2..Len(flight) /\ i - 1 \in 1..(Len(flight) - 1)
    BY <1>1, <1>2 DEF Unseen
<1>5. \A i \in Unseen : i - 1 \in Unseen'
    BY <1>1, <1>3, <1>4
<1>6. ASSUME NEW q
      PROVE  InFlight(q)' => InFlight(q)
  <2>1. \A i \in 1..(Len(flight) - 1) : i + 1 \in 1..Len(flight)
    BY <1>1
  <2>2. QED
    BY <1>1, <2>1 DEF InFlight
<1>7. ASSUME NEW q
      PROVE  Started(q)' <=> Started(q)
  <2>1. ASSUME NEW i \in Unseen PROVE flight'[i - 1] = flight[i] /\ i - 1 \in Unseen'
    BY <1>1, <1>4, <1>5
  <2>2. ASSUME NEW i \in Unseen' PROVE flight'[i] = flight[i + 1] /\ i + 1 \in Unseen
    BY <1>1, <1>3 DEF Unseen
  <2>3. QED
    BY <2>1, <2>2, ZenonT(40) DEF Started
<1>8. QED
    BY <1>1, <1>2, <1>3, <1>4, <1>5, <1>6, <1>7

\* What replaces a step keeps the others.
LEMMA PutIs ==
    ASSUME flight \in Seq(Steps), NEW i \in 1..Len(flight), NEW s \in Steps
    PROVE  /\ [flight EXCEPT ![i] = s] \in Seq(Steps)
           /\ Len([flight EXCEPT ![i] = s]) = Len(flight)
           /\ \A j \in 1..Len(flight) :
                 [flight EXCEPT ![i] = s][j] = IF j = i THEN s ELSE flight[j]
  BY ExceptSeq

\* A step that is worked on stays where it is.
LEMMA WorkedIs ==
    ASSUME flight \in Seq(Steps), NEW i \in Unseen, NEW acc \in Nat \ {0}, NEW e \in Nat,
           flight' = [flight EXCEPT ![i].accepted = acc, ![i].end = e]
    PROVE  /\ flight' \in Seq(Steps) /\ Len(flight) \in Nat /\ Len(flight') = Len(flight)
           /\ i \in 1..Len(flight) /\ flight[i] \in Steps /\ flight[i].accepted = 0
           /\ \A j \in 1..Len(flight) : j # i => flight'[j] = flight[j]
           /\ flight'[i].req = flight[i].req /\ flight'[i].new = flight[i].new
           /\ flight'[i].wire = flight[i].wire /\ flight'[i].gone = flight[i].gone
           /\ flight'[i].pos = flight[i].pos /\ flight'[i].n = flight[i].n
           /\ flight'[i].draft = flight[i].draft /\ flight'[i].entered = flight[i].entered
           /\ flight'[i].generated = flight[i].generated /\ flight'[i].accepted = acc
           /\ flight'[i] \in Steps
           /\ Unseen' = Unseen \ {i}
           /\ \A q : InFlight(q)' <=> InFlight(q)
<1> DEFINE s == [flight[i] EXCEPT !.accepted = acc, !.end = e]
<1>1. Len(flight) \in Nat /\ i \in 1..Len(flight) /\ flight[i].accepted = 0
    BY LenProperties DEF Unseen
<1>2. flight[i] \in Steps
    BY <1>1, ElementOfSeq
<1>3. s \in Steps /\ s.accepted = acc /\ s.req = flight[i].req
    BY <1>2 DEF Steps
<1>4. flight' = [flight EXCEPT ![i] = s]
    BY LenProperties, <1>1
<1>5. /\ flight' \in Seq(Steps) /\ Len(flight') = Len(flight)
      /\ \A j \in 1..Len(flight) : flight'[j] = IF j = i THEN s ELSE flight[j]
  <2> HIDE DEF s
  <2>1. /\ [flight EXCEPT ![i] = s] \in Seq(Steps)
        /\ Len([flight EXCEPT ![i] = s]) = Len(flight)
        /\ \A j \in 1..Len(flight) :
              [flight EXCEPT ![i] = s][j] = IF j = i THEN s ELSE flight[j]
    BY <1>1, <1>3, PutIs
  <2>2. QED
    BY <1>4, <2>1
<1> HIDE DEF s
<1>6. Unseen' = Unseen \ {i}
    BY <1>1, <1>3, <1>5 DEF Unseen
<1>7. \A q : InFlight(q)' <=> InFlight(q)
    BY <1>1, <1>3, <1>5 DEF InFlight
<1>8. /\ s.req = flight[i].req /\ s.new = flight[i].new
      /\ s.wire = flight[i].wire /\ s.gone = flight[i].gone
      /\ s.pos = flight[i].pos /\ s.n = flight[i].n
      /\ s.draft = flight[i].draft /\ s.entered = flight[i].entered
      /\ s.generated = flight[i].generated /\ s.accepted = acc
    BY <1>2 DEF Steps, s
<1>9. flight'[i] = s
    BY <1>1, <1>5
<1>10. QED
    BY <1>1, <1>2, <1>3, <1>5, <1>6, <1>7, <1>8, <1>9

-----------------------------------------------------------------------------
(* What a step does.                                                       *)

\* A step s of request r is sent.
Grows(r, s) ==
    /\ s \in Steps /\ s.req = r /\ s.accepted = 0 /\ s.gone = retired
    /\ flight' = Append(flight, s) /\ retired' = {} /\ Len(flight) < Ahead
    /\ computed' = [computed EXCEPT ![r] = s.pos + s.n]
    /\ upto' = [upto EXCEPT ![r] = s.entered]
    /\ UNCHANGED <<off, known, bad, worker>> /\ raised' = FALSE

\* The first one of an admission, at a hit h.
AdmitDoes(r, h, s) ==
    /\ Grows(r, s) /\ h \in Hits(r) /\ s.pos = h /\ h + s.n <= known[r]
    /\ s.new /\ ~s.draft
    /\ status[r] \in {"waiting", "preempted"} /\ Running = {}
    /\ status' = [status EXCEPT ![r] = "running"]
    /\ policy' = [policy EXCEPT ![r] = s.wire] /\ wire' = policy'
    /\ Fit(r, s.wire) /\ s.wire.cached = Least(h, Prompt[r])
    /\ policy[r] # None => s.wire.start = policy[r].start
    /\ policy[r] = None => s.wire.start \in {None, h}
    /\ s.entered = Most(h, CacheableEnd(s.wire, h + s.n))
    /\ shared' = shared \cup Keys(r, CacheableEnd(s.wire, h + s.n))

\* A later one.
ContinueDoes(r, s) ==
    /\ Grows(r, s) /\ s.pos = computed[r] /\ s.pos + s.n <= Len(Text[r])
    /\ ~s.new /\ s.wire = policy[r]
    /\ s.pos >= Prompt[r] => s.generated
    /\ s.draft => s.pos >= Prompt[r] /\ s.n <= 1 + Draft
    /\ status[r] = "running" /\ UNCHANGED <<status, policy, wire>>
    /\ LET last == CacheableEnd(policy[r], Least(s.pos + s.n, known[r])) IN
       s.entered = Most(upto[r], last) /\ shared' = shared \cup Keys(r, last)

\* No check of a publication refuses a policy that fits.
LEMMA PublishPasses ==
    ASSUME Typed, raised = FALSE, NEW r \in Requests, NEW held, NEW end \in Nat,
           Fit(r, policy'[r]), Publish(r, held, end)
    PROVE  raised' = FALSE
<1> DEFINE p == policy'[r]
           last == CacheableEnd(p, end)
<1>1. p \in Policies /\ Valid(r, p) /\ wire[r] = policy[r]
    BY DEF Fit, Typed
<1>2. \A g \in Groups : \A e \in Ends(g, last) : e \in Nat /\ e <= last
    BY <1>1, CacheableIs DEF Ends
<1>3. \A e \in Nat : e <= last => CacheableEnd(p, e) = e
  <2>1. CASE p.start = None
    BY <2>1 DEF CacheableEnd
  <2>2. CASE p.start # None
    <3>1. last = Least(end, p.start) /\ p.start \in Nat
      BY <1>1, <2>2, CacheableIs, PolicyIs
    <3>2. last <= p.start
      BY <3>1 DEF Least
    <3> HIDE DEF last
    <3>3. ASSUME NEW e \in Nat, e <= last
          PROVE  CacheableEnd(p, e) = e
      <4>1. e <= p.start \/ last \notin Nat
        BY <3>1, <3>2, <3>3
      <4>2. last \in Nat
        BY <1>1, CacheableIs DEF last
      <4>3. QED
        BY <2>2, <3>1, <4>1, <4>2 DEF CacheableEnd, Least
    <3>4. QED
      BY <3>3
  <2>3. QED
    BY <2>1, <2>2
<1>4. \A g \in Groups : \A e \in Ends(g, last) : CacheableEnd(p, e) = e
    BY <1>2, <1>3
<1>5. raised' = (\/ raised \/ ~Valid(r, p)
                 \/ wire[r] # None /\ wire[r] # policy[r]
                 \/ \E g \in Groups : \E e \in Ends(g, last) : CacheableEnd(p, e) # e)
    BY DEF Publish
<1>6. QED
    BY <1>1, <1>4, <1>5

\* An admission does what AdmitDoes says of a step that is sent.
LEMMA AdmitIs ==
    ASSUME Typed, Standing, raised = FALSE, NEW r \in Requests, NEW h \in Hits(r), Admit(r, h)
    PROVE  \E s : AdmitDoes(r, h, s)
<1> DEFINE p == PlanPrefill(r, h, policy[r])
<1>1. h \in Nat /\ h < known[r] /\ known[r] \in Nat /\ known[r] <= Len(Text[r])
    BY HitIs, PromptIs, SMTT(40) DEF Standing, Typed
<1>2. /\ Fit(r, p) /\ p.cached = Least(h, Prompt[r])
      /\ policy[r] # None => p.start = policy[r].start
      /\ policy[r] = None => p.start \in {None, h}
    BY <1>1, PlanIs DEF Standing, Typed
<1>3. policy' = [policy EXCEPT ![r] = p] /\ policy'[r] = p /\ p \in Policies
    BY <1>2 DEF Admit, Typed, Fit
<1>4. wire' = policy' /\ wire'[r] = p
    BY <1>3 DEF Admit, Typed
<1>5. PICK n \in 1..Least(Chunk, known[r] - h) :
         Publish(r, h, h + n) /\ Send(r, TRUE, h, n, FALSE)
    BY DEF Admit
<1>6. n \in Nat \ {0} /\ h + n <= known[r] /\ h + n \in Nat
    BY <1>1, <1>5, ApcAssumption DEF Least
<1> DEFINE last == CacheableEnd(p, h + n)
           s == [req |-> r, new |-> TRUE, wire |-> p, pos |-> h, n |-> n, draft |-> FALSE,
                 accepted |-> 0, end |-> 0, gone |-> retired, entered |-> Most(h, last),
                 generated |-> FALSE]
<1>7. last \in Nat /\ Most(h, last) \in Nat
    BY <1>1, <1>3, <1>6, CacheableIs DEF Most
<1>8. s \in Steps
  <2> HIDE DEF last, p
  <2>1. retired \in SUBSET Requests /\ p \in SomePolicy
    BY <1>3 DEF Typed, SomePolicy
  <2>2. QED
    BY <1>1, <1>6, <1>7, <2>1 DEF Steps
<1>9. raised' = FALSE
    BY <1>2, <1>3, <1>5, <1>6, PublishPasses
<1>10. upto' = [upto EXCEPT ![r] = Most(h, last)] /\ shared' = shared \cup Keys(r, last)
    BY <1>3, <1>5 DEF Publish
<1>11. upto'[r] = Most(h, last)
    BY <1>10 DEF Typed
<1>12. /\ flight' = Append(flight, s) /\ retired' = {}
       /\ computed' = [computed EXCEPT ![r] = h + n]
    BY <1>4, <1>5, <1>11 DEF Send
<1>13. /\ status' = [status EXCEPT ![r] = "running"] /\ UNCHANGED <<off, known, bad, worker>>
       /\ status[r] \in {"waiting", "preempted"} /\ Running = {} /\ Len(flight) < Ahead
    BY DEF Admit, Admissible
<1> HIDE DEF p
<1>14. Grows(r, s)
    BY <1>8, <1>9, <1>10, <1>12, <1>13 DEF Grows
<1>15. AdmitDoes(r, h, s)
    BY <1>2, <1>3, <1>4, <1>6, <1>10, <1>13, <1>14 DEF AdmitDoes
<1>16. QED
    BY <1>15

\* A request that is scheduled has a later step sent.
LEMMA ScheduleIs ==
    ASSUME Typed, Standing, raised = FALSE, NEW r \in Requests, NEW n \in Nat \ {0},
           NEW draft \in BOOLEAN, Schedule(r, n, draft), computed[r] + n <= Len(Text[r]),
           draft => computed[r] >= Prompt[r] /\ n <= 1 + Draft
    PROVE  \E s : ContinueDoes(r, s)
<1> DEFINE p == policy[r]
           from == computed[r]
           last == CacheableEnd(p, Least(from + n, known[r]))
           s == [req |-> r, new |-> FALSE, wire |-> p, pos |-> from, n |-> n, draft |-> draft,
                 accepted |-> 0, end |-> 0, gone |-> retired, entered |-> Most(upto[r], last),
                 generated |-> known[r] > Prompt[r] \/ from >= Prompt[r]]
<1>1. /\ status[r] = "running" /\ Len(flight) < Ahead
      /\ UNCHANGED <<status, off, policy, wire, known, bad, worker>>
      /\ Publish(r, upto[r], Least(from + n, known[r])) /\ Send(r, FALSE, from, n, draft)
    BY DEF Schedule
<1>2. p \in Policies /\ Fit(r, p) /\ policy'[r] = p /\ wire'[r] = p
    BY <1>1 DEF Standing, Typed, Fit
<1>3. from \in Nat /\ known[r] \in Nat /\ upto[r] \in Nat /\ Least(from + n, known[r]) \in Nat
    BY DEF Typed, Least
<1>4. last \in Nat /\ Most(upto[r], last) \in Nat
    BY <1>2, <1>3, CacheableIs DEF Most
<1>5. s \in Steps
  <2> HIDE DEF last
  <2>1. retired \in SUBSET Requests /\ p \in SomePolicy
    BY <1>2 DEF Typed, SomePolicy
  <2>2. (known[r] > Prompt[r] \/ from >= Prompt[r]) \in BOOLEAN
    OBVIOUS
  <2>3. QED
    BY <1>3, <1>4, <2>1, <2>2 DEF Steps
<1>6. raised' = FALSE
    BY <1>1, <1>2, <1>3, PublishPasses
<1>7. upto' = [upto EXCEPT ![r] = Most(upto[r], last)] /\ shared' = shared \cup Keys(r, last)
    BY <1>1, <1>2 DEF Publish
<1>8. upto'[r] = Most(upto[r], last)
    BY <1>7 DEF Typed
<1>9. /\ flight' = Append(flight, s) /\ retired' = {}
      /\ computed' = [computed EXCEPT ![r] = from + n]
    BY <1>1, <1>2, <1>8 DEF Send
<1>10. Grows(r, s)
    BY <1>1, <1>5, <1>6, <1>7, <1>9 DEF Grows
<1>11. ContinueDoes(r, s)
    BY <1>1, <1>7, <1>10 DEF ContinueDoes
<1>12. QED
    BY <1>11

\* So has one that goes on, by a chunk of what is known or by drafts.
LEMMA ContinueIs ==
    ASSUME Typed, Standing, raised = FALSE, NEW r \in Requests, Continue(r)
    PROVE  \E s : ContinueDoes(r, s)
<1>1. computed[r] \in Nat /\ known[r] \in Nat /\ known[r] >= Prompt[r] /\ known[r] <= Len(Text[r])
    BY PromptIs DEF Typed, Standing
<1>2. CASE /\ computed[r] < known[r]
           /\ \E n \in 1..Least(Chunk, known[r] - computed[r]) : Schedule(r, n, FALSE)
  <2>1. PICK n \in 1..Least(Chunk, known[r] - computed[r]) : Schedule(r, n, FALSE)
    BY <1>2
  <2>2. n \in Nat \ {0} /\ computed[r] + n <= Len(Text[r])
    BY <1>1, <1>2, PromptIs, ApcAssumption, SMTT(40) DEF Least
  <2>3. QED
    BY <2>1, <2>2, ScheduleIs
<1>3. CASE /\ computed[r] >= known[r] \/ (computed[r] + 1 = known[r] /\ known[r] > Prompt[r])
           /\ \E n \in 1..(1 + Draft) :
                 computed[r] + n <= Len(Text[r]) /\ Schedule(r, n, TRUE)
  <2>1. PICK n \in 1..(1 + Draft) : computed[r] + n <= Len(Text[r]) /\ Schedule(r, n, TRUE)
    BY <1>3
  <2>2. n \in Nat \ {0} /\ n <= 1 + Draft /\ computed[r] >= Prompt[r]
    BY <1>1, <1>3, PromptIs, ApcAssumption, SMTT(40)
  <2>3. QED
    BY <2>1, <2>2, ScheduleIs
<1>4. QED
    BY <1>2, <1>3 DEF Continue

\* The next step to work on: all before it were, and its request has begun unless it is new.
LEMMA FrontIs ==
    ASSUME Typed, InOrder, NEW i \in Unseen, \A j \in Unseen : i <= j
    PROVE  /\ i \in 1..Len(flight) /\ flight[i] \in Steps /\ Split(i - 1)
           /\ ~flight[i].new => Started(flight[i].req)
<1>1. Len(flight) \in Nat /\ i \in 1..Len(flight) /\ flight[i].accepted = 0
    BY LenProperties DEF Unseen, Typed
<1>2. \A j \in 1..Len(flight) : flight[j] \in Steps
    BY ElementOfSeq DEF Typed
<1>3. ASSUME NEW j \in 1..(i - 1) PROVE flight[j].accepted # 0
  <2>1. j \in 1..Len(flight) /\ j \notin Unseen
    BY <1>1
  <2>2. QED
    BY <2>1 DEF Unseen
<1>4. ASSUME NEW j \in ((i - 1) + 1)..Len(flight) PROVE flight[j].accepted = 0
  <2>1. j \in 1..Len(flight) /\ (i = j \/ i < j)
    BY <1>1
  <2>2. QED
    BY <1>1, <2>1 DEF InOrder
<1>5. Split(i - 1)
    BY <1>3, <1>4 DEF Split
<1>6. ASSUME ~flight[i].new, NEW j \in Unseen, flight[j].req = flight[i].req
      PROVE  ~flight[j].new
  <2>1. j \in 1..Len(flight) /\ (i = j \/ i < j)
    BY <1>1 DEF Unseen
  <2>2. QED
    BY <1>1, <1>6, <2>1 DEF InOrder
<1>7. QED
    BY <1>1, <1>2, <1>5, <1>6 DEF Started

\* Where the worker goes on is where the step is, unless drafts were rejected past the prompt.
LEMMA PlaceIs ==
    ASSUME Typed, InOrder, Tracked, NEW i \in Unseen, \A j \in Unseen : i <= j, ~flight[i].new
    PROVE  LET s == flight[i] IN
           /\ done[s.req] <= s.pos
           /\ done[s.req] # s.pos => done[s.req] >= Prompt[s.req] /\ Draft > 0
<1> DEFINE s == flight[i]
           r == s.req
<1>1. /\ i \in 1..Len(flight) /\ s \in Steps /\ Split(i - 1) /\ Started(r)
      /\ Len(flight) \in Nat
    BY FrontIs, LenProperties DEF Typed
<1>2. r \in Requests /\ s.pos \in Nat /\ done[r] \in Nat
    BY <1>1 DEF Steps, Typed
<1>3. Live(r)
    BY DEF Live
<1>4. PICK at \in [0..Len(flight) -> Nat], plan \in [0..Len(flight) -> Nat] : Tracks(r, at, plan)
    BY <1>2, <1>3 DEF Tracked
<1>5. i - 1 \in 0..Len(flight) /\ 0 \in 0..Len(flight) /\ i - 1 \in 0..Len(flight)
    BY <1>1
<1>6. at[i - 1] \in Nat /\ plan[i - 1] \in Nat /\ at[0] \in Nat /\ Prompt[r] \in Nat
    BY <1>2, <1>4, <1>5, PromptIs
<1>7. /\ at[i - 1] = done[r] /\ at[i - 1] <= plan[i - 1]
      /\ at[i - 1] # plan[i - 1] => at[i - 1] >= Prompt[r] /\ Draft > 0
    BY <1>1, <1>4, <1>5 DEF Tracks, Path
<1>8. /\ plan[i - 1] <= s.pos
      /\ plan[i - 1] # s.pos => at[0] >= Prompt[r] /\ Draft > 0
    BY <1>1, <1>4 DEF Tracks, Path
<1>9. at[0] <= at[i - 1]
  <2>1. \A j \in 0..Len(flight) : 0 <= j => at[0] <= at[j]
    BY <1>4, <1>5 DEF Tracks, Path
  <2>2. QED
    BY <1>5, <2>1
<1>10. QED
    BY <1>2, <1>6, <1>7, <1>8, <1>9

\* What a step of n positions adds to a window.
LEMMA WindowGrows ==
    ASSUME NEW r \in Requests, NEW p, Fit(r, p), NEW d \in Nat, NEW n \in Nat, p.cached <= d
    PROVE  Window(r, p, d + n) = Window(r, p, d) \cup Span(Configured(r, p), d, n)
<1>1. p \in Policies /\ p.cached \in Nat /\ (p.start # None => p.start \in Nat)
    BY PolicyIs DEF Fit
<1>2. ApproximateEnd(r) \in Nat
    BY PromptIs
<1>3. CASE p.start = None
  <2>1. Configured(r, p) = <<0, 0>>
    BY <1>3 DEF Configured, Approximates
  <2>2. Span(<<0, 0>>, d, n) = {}
    BY DEF Span
  <2>3. QED
    BY <1>3, <2>1, <2>2 DEF Window
<1>4. CASE p.start # None /\ Approximates(r, p)
  <2>1. Configured(r, p) = <<p.start, ApproximateEnd(r)>>
    BY <1>4 DEF Configured
  <2>2. Span(<<p.start, ApproximateEnd(r)>>, d, n) =
           {x \in d..(d + n - 1) : p.start <= x /\ x < ApproximateEnd(r)}
    BY DEF Span
  <2>3. QED
    BY <1>1, <1>2, <1>4, <2>1, <2>2 DEF Window
<1>5. CASE p.start # None /\ ~Approximates(r, p)
  <2>1. Configured(r, p) = <<0, 0>>
    BY <1>5 DEF Configured
  <2>2. Span(<<0, 0>>, d, n) = {}
    BY DEF Span
  <2>3. p.start >= ApproximateEnd(r) \/ p.cached >= ApproximateEnd(r)
    BY <1>1, <1>2, <1>5 DEF Approximates, Most
  <2>4. Window(r, p, d) = {} /\ Window(r, p, d + n) = {}
    BY <1>1, <1>2, <1>5, <2>3 DEF Window
  <2>5. QED
    BY <2>1, <2>2, <2>4
<1>6. QED
    BY <1>3, <1>4, <1>5

\* An admission begins with nothing approximated.
LEMMA WindowBegins ==
    ASSUME NEW r \in Requests, NEW p, Fit(r, p), NEW d \in Nat, p.cached = Least(d, Prompt[r])
    PROVE  p.cached <= d /\ Window(r, p, d) = {}
<1>1. p \in Policies /\ p.cached \in Nat /\ (p.start # None => p.start \in Nat)
    BY PolicyIs DEF Fit
<1>2. ApproximateEnd(r) \in Nat /\ ApproximateEnd(r) < Prompt[r] /\ Prompt[r] \in Nat
    BY PromptIs
<1>3. p.cached = d \/ p.cached = Prompt[r]
    BY DEF Least
<1>4. QED
    BY <1>1, <1>2, <1>3 DEF Window, Least

\* No block entered for a policy depends on what that policy approximates.
LEMMA NothingTainted ==
    ASSUME NEW r \in Requests, NEW p, Fit(r, p), NEW entered \in Nat, Narrow(r, p, entered),
           NEW d \in Nat, NEW last \in Nat, last <= entered
    PROVE  Tainted(r, last, Window(r, p, d)) = {}
<1>1. p \in Policies /\ p.cached \in Nat /\ (p.start # None => p.start \in Nat)
    BY PolicyIs DEF Fit
<1>2. ApproximateEnd(r) \in Nat /\ ApproximateEnd(r) < Prompt[r] /\ Prompt[r] \in Nat
    BY PromptIs
<1>3. ASSUME NEW g \in Groups, NEW e \in Ends(g, last), NEW x \in Window(r, p, d), x < e
      PROVE  FALSE
  <2>1. e \in Nat /\ e <= entered
    BY DEF Ends
  <2>2. p.start # None /\ x \in Nat /\ p.start <= x /\ p.cached <= x /\ x < ApproximateEnd(r)
    BY DEF Window
  <2>3. entered <= Most(p.start, p.cached)
    BY <1>1, <1>2, <2>2 DEF Narrow
  <2>4. QED
    BY <1>1, <1>3, <2>1, <2>2, <2>3 DEF Most
<1>4. \A g \in Groups : {e \in Ends(g, last) : \E x \in Window(r, p, d) : x < e} = {}
    BY <1>3
<1>5. QED
    BY <1>4 DEF Tainted

\* Where step i goes on.
Place(i) == IF flight[i].new THEN flight[i].pos ELSE done[flight[i].req]

\* Step i is worked on: acc positions are computed, and the requests it calls gone forgotten.
WorkDoes(i, acc) ==
    LET s == flight[i]
        r == s.req
    IN  /\ i \in Unseen /\ (\A j \in Unseen : i <= j)
        /\ acc \in Nat \ {0} /\ acc <= s.n /\ (~s.draft => acc = s.n)
        /\ Place(i) \in Nat /\ Place(i) <= s.pos /\ s.wire.cached <= Place(i)
        /\ flight' = [flight EXCEPT ![i].accepted = acc, ![i].end = Place(i) + acc]
        /\ told' = [q \in Requests |->
                      IF q = r THEN s.wire ELSE IF q \in s.gone THEN None ELSE told[q]]
        /\ done' = [q \in Requests |->
                      IF q = r THEN Place(i) + acc ELSE IF q \in s.gone THEN 0 ELSE done[q]]
        /\ skipped' = [q \in Requests |->
                         IF q = r THEN Window(r, s.wire, Place(i) + acc)
                         ELSE IF q \in s.gone THEN {} ELSE skipped[q]]
        /\ owner' = r /\ spec' = Configured(r, s.wire)
        /\ UNCHANGED <<requests, shared, retired>> /\ bad' = {} /\ raised' = FALSE

\* Every step of the worker is one of these.
LEMMA WorkIs ==
    ASSUME Typed, Sent, InOrder, Worked, Tracked, bad = {}, raised = FALSE, BeforeForward
    PROVE  \E i, acc : WorkDoes(i, acc)
<1>1. PICK i \in Unseen : \E acc \in 1..flight[i].n :
        /\ \A j \in Unseen : i <= j
        /\ ~flight[i].draft => acc = flight[i].n
        /\ LET s == flight[i]
               r == s.req
               policies == [q \in Requests |->
                              IF s.new /\ q = r THEN s.wire
                              ELSE IF q \in s.gone THEN None ELSE told[q]]
               at == IF s.new THEN s.pos ELSE done[r]
               before == IF s.new THEN {p \in 0..(s.pos - 1) :
                                          Keys(r, s.pos) \cap bad # {}}
                         ELSE skipped[r]
           IN  /\ told' = policies /\ owner' = r
               /\ spec' = IF policies[r] # None /\ (owner # r \/ s.new)
                          THEN Configured(r, policies[r]) ELSE spec
               /\ done' = [q \in Requests |-> IF q = r THEN at + acc
                             ELSE IF q \in s.gone THEN 0 ELSE done[q]]
               /\ skipped' = [q \in Requests |->
                                IF q = r THEN before \cup Span(spec', at, acc)
                                ELSE IF q \in s.gone THEN {} ELSE skipped[q]]
               /\ bad' = bad \cup (shared \cap
                            Tainted(r, Least(s.entered, done'[r]), skipped'[r]))
               /\ raised' = \/ raised \/ policies[r] = None
                            \/ s.new /\ ~ReadPolicy(s)
                            \/ Misplaced(s, at, spec')
               /\ flight' = [flight EXCEPT ![i].accepted = acc, ![i].end = done'[r]]
    BY ZenonT(40) DEF BeforeForward
<1>2. UNCHANGED <<requests, shared, retired>>
    BY DEF BeforeForward
<1> DEFINE s == flight[i]
           r == s.req
           at == Place(i)
           policies == [q \in Requests |->
                              IF s.new /\ q = r THEN s.wire
                              ELSE IF q \in s.gone THEN None ELSE told[q]]
           before == IF s.new THEN {p \in 0..(s.pos - 1) : Keys(r, s.pos) \cap bad # {}}
                     ELSE skipped[r]
<1>3. PICK acc \in 1..s.n :
        /\ \A j \in Unseen : i <= j
        /\ ~s.draft => acc = s.n
        /\ told' = policies /\ owner' = r
        /\ spec' = IF policies[r] # None /\ (owner # r \/ s.new)
                   THEN Configured(r, policies[r]) ELSE spec
        /\ done' = [q \in Requests |-> IF q = r THEN at + acc
                      ELSE IF q \in s.gone THEN 0 ELSE done[q]]
        /\ skipped' = [q \in Requests |->
                         IF q = r THEN before \cup Span(spec', at, acc)
                         ELSE IF q \in s.gone THEN {} ELSE skipped[q]]
        /\ bad' = bad \cup (shared \cap Tainted(r, Least(s.entered, done'[r]), skipped'[r]))
        /\ raised' = \/ raised \/ policies[r] = None
                     \/ s.new /\ ~ReadPolicy(s)
                     \/ Misplaced(s, at, spec')
        /\ flight' = [flight EXCEPT ![i].accepted = acc, ![i].end = done'[r]]
    BY <1>1 DEF Place
<1>4. /\ i \in 1..Len(flight) /\ s \in Steps /\ r \in Requests /\ s.pos \in Nat
      /\ s.n \in Nat /\ s.entered \in Nat /\ (~s.new => Started(r))
    BY <1>3, FrontIs DEF Steps
<1>5. /\ s.wire # None /\ Fit(r, s.wire) /\ Narrow(r, s.wire, s.entered)
      /\ s.new => s.wire.cached = Least(s.pos, Prompt[r])
      /\ ~s.new /\ s.pos >= Prompt[r] => s.generated
    BY <1>4 DEF Sent, Sound
<1>6. s.wire \in Policies /\ s.wire.cached \in Nat
    BY <1>5, PolicyIs DEF Fit
<1>7. acc \in Nat \ {0} /\ acc <= s.n
  <2>1. \A n \in Nat : \A a \in 1..n : a \in Nat \ {0} /\ a <= n
    OBVIOUS
  <2> HIDE DEF s, r, at, policies, before
  <2>2. QED
    BY ONLY <1>4, <2>1, acc \in 1..s.n
<1>8. (~s.new => told[r] = s.wire) /\ r \notin s.gone
  <2>1. i <= i /\ i \in Nat
    BY <1>4
  <2>2. \A x, y \in 1..Len(flight) : x <= y => flight[y].req \notin flight[x].gone
    BY DEF InOrder
  <2>3. r \notin s.gone
    BY <1>4, <2>1, <2>2
  <2>4. \A x \in Unseen : Started(flight[x].req) => told[flight[x].req] = flight[x].wire
    BY DEF Worked
  <2>5. ~s.new => told[r] = s.wire
    BY <1>4, <2>4
  <2>6. QED
    BY <2>3, <2>5
<1>9. policies[r] = s.wire
    BY <1>4, <1>8
<1>10. ASSUME ~s.new
       PROVE  /\ Fit(r, told[r]) /\ told[r].cached <= done[r]
              /\ skipped[r] = Window(r, told[r], done[r])
    BY <1>4, <1>5, <1>8, <1>10 DEF Worked
<1>11. at \in Nat /\ s.wire.cached <= at
    BY <1>4, <1>5, <1>8, <1>10, WindowBegins DEF Place, Typed
<1>12. /\ at <= s.pos
       /\ at # s.pos => at >= Prompt[r] /\ Draft > 0 /\ ~s.new
  <2>1. CASE s.new
    BY <1>4, <2>1 DEF Place
  <2>2. CASE ~s.new
    BY <1>3, <2>2, PlaceIs DEF Place
  <2>3. QED
    BY <2>1, <2>2
<1>13. spec' = Configured(r, s.wire)
  <2>1. CASE owner # r \/ s.new
    BY <1>3, <1>5, <1>9, <2>1
  <2>2. CASE owner = r /\ ~s.new
    <3>1. owner # None
      BY <1>4, <2>2, ApcAssumption
    <3>2. spec = Configured(r, s.wire)
      BY <1>8, <2>2, <3>1 DEF Worked
    <3>3. QED
      BY <1>3, <2>2, <3>2
  <2>3. QED
    BY <2>1, <2>2
<1>14. before = Window(r, s.wire, at)
  <2>1. CASE s.new
    <3>1. Window(r, s.wire, at) = {}
      BY <1>4, <1>5, <2>1, WindowBegins DEF Place
    <3>2. before = {}
      BY <2>1
    <3>3. QED
      BY <3>1, <3>2
  <2>2. CASE ~s.new
    BY <1>8, <1>10, <2>2 DEF Place
  <2>3. QED
    BY <2>1, <2>2
<1> HIDE DEF before, policies, at
<1>15. before \cup Span(spec', at, acc) = Window(r, s.wire, at + acc)
  <2>1. acc \in Nat
    BY <1>7
  <2> HIDE DEF s, r
  <2>2. Window(r, s.wire, at + acc)
           = Window(r, s.wire, at) \cup Span(Configured(r, s.wire), at, acc)
    BY <1>4, <1>5, <1>11, <2>1, WindowGrows
  <2>3. QED
    BY <1>13, <1>14, <2>2
<1>16. skipped' = [q \in Requests |->
                     IF q = r THEN Window(r, s.wire, at + acc)
                     ELSE IF q \in s.gone THEN {} ELSE skipped[q]]
    BY <1>3, <1>15
<1>17. skipped'[r] = Window(r, s.wire, at + acc) /\ done'[r] = at + acc
    BY <1>3, <1>4, <1>16
<1>18. bad' = {}
  <2>1. at + acc \in Nat
    BY <1>7, <1>11
  <2>2. Least(s.entered, at + acc) \in Nat /\ Least(s.entered, at + acc) <= s.entered
    BY <1>4, <2>1 DEF Least
  <2> HIDE DEF s, r
  <2>3. Tainted(r, Least(s.entered, at + acc), Window(r, s.wire, at + acc)) = {}
    BY <1>4, <1>5, <2>1, <2>2, NothingTainted
  <2>4. QED
    BY <1>3, <1>17, <2>3
<1>19. ~Misplaced(s, at, spec')
    BY <1>4, <1>5, <1>11, <1>12, PromptIs DEF Misplaced
<1>20. s.new => ReadPolicy(s)
    BY <1>5 DEF ReadPolicy, Fit
<1>21. raised' = FALSE
    BY <1>3, <1>5, <1>9, <1>19, <1>20
<1>22. told' = [q \in Requests |->
                  IF q = r THEN s.wire ELSE IF q \in s.gone THEN None ELSE told[q]]
    BY <1>3, <1>8 DEF policies
<1>23. flight' = [flight EXCEPT ![i].accepted = acc, ![i].end = at + acc]
    BY <1>3, <1>17
<1>24. WorkDoes(i, acc)
    BY <1>2, <1>3, <1>7, <1>11, <1>12, <1>13, <1>16, <1>18, <1>21, <1>22, <1>23
       DEF WorkDoes, at
<1>25. QED
    BY <1>24

-----------------------------------------------------------------------------
(* The parts of the invariant, each kept by every step.                    *)

\* A step of the system, by what it does.
Does ==
    \/ \E r \in Requests, h \in Nat, s \in Steps : AdmitDoes(r, h, s)
    \/ \E r \in Requests, s \in Steps : ContinueDoes(r, s)
    \/ \E r \in Requests : Preempt(r) \/ Finish(r)
    \/ \E k \in shared : Evict(k)
    \/ Output
    \/ \E i, acc \in Nat : WorkDoes(i, acc)
    \/ UNCHANGED vars

\* Every step does one of these; a refusal changes nothing.
LEMMA StepIs ==
    ASSUME IInv, [Next]_vars
    PROVE  Does
<1>1. Typed /\ Standing /\ Sent /\ InOrder /\ Worked /\ Tracked /\ bad = {} /\ raised = FALSE
    BY DEF IInv
<1>2. ASSUME NEW r \in Requests, NEW h \in Hits(r), Admit(r, h)
      PROVE  Does
  <2>1. PICK s : AdmitDoes(r, h, s)
    BY <1>1, <1>2, AdmitIs
  <2>2. s \in Steps /\ h \in Nat
    BY <1>1, <2>1, HitIs DEF AdmitDoes, Grows
  <2>3. QED
    BY <2>1, <2>2 DEF Does
<1>3. ASSUME NEW r \in Requests, NEW h, Refuse(r, h)
      PROVE  Does
  <2>1. policy' = policy
    BY <1>1, <1>3 DEF Refuse, Typed
  <2>2. UNCHANGED vars
    BY <1>3, <2>1 DEF Refuse, vars, requests
  <2>3. QED
    BY <2>2 DEF Does
<1>4. ASSUME NEW r \in Requests, Continue(r)
      PROVE  Does
  <2>1. PICK s : ContinueDoes(r, s)
    BY <1>1, <1>4, ContinueIs
  <2>2. s \in Steps
    BY <2>1 DEF ContinueDoes, Grows
  <2>3. QED
    BY <2>1, <2>2 DEF Does
<1>5. ASSUME BeforeForward
      PROVE  Does
  <2>1. PICK i, acc : WorkDoes(i, acc)
    BY <1>1, <1>5, WorkIs
  <2>2. i \in Nat /\ acc \in Nat
    BY <2>1 DEF WorkDoes, Unseen
  <2>3. QED
    BY <2>1, <2>2 DEF Does
<1>6. QED
    BY <1>2, <1>3, <1>4, <1>5 DEF Next, Does

\* How far blocks are entered stays within the text, and within the window.
LEMMA EnteredIs ==
    ASSUME NEW r \in Requests, NEW p, Fit(r, p), NEW held \in Nat, NEW end \in Nat,
           NEW to \in Nat, to <= Len(Text[r]), end <= to, Least(to, Prompt[r]) <= end,
           Keys(r, held) \subseteq shared, Narrow(r, p, held), held <= Len(Text[r])
    PROVE  LET last == CacheableEnd(p, end)
               entered == Most(held, last)
           IN  /\ last \in Nat /\ last <= Len(Text[r])
               /\ entered \in Nat /\ entered <= Len(Text[r])
               /\ Keys(r, entered) \subseteq shared \cup Keys(r, last)
               /\ Least(to, Exact(r, p)) <= entered
               /\ Narrow(r, p, entered)
<1> DEFINE last == CacheableEnd(p, end)
           entered == Most(held, last)
<1>1. p \in Policies /\ p.cached \in Nat /\ (p.start # None => p.start \in Nat)
    BY PolicyIs DEF Fit
<1>2. /\ last \in Nat /\ last <= end /\ (p.start = None => last = end)
      /\ (p.start # None => last = Least(end, p.start))
    BY <1>1, CacheableIs
<1>3. Prompt[r] \in Nat /\ Len(Text[r]) \in Nat /\ ApproximateEnd(r) \in Nat
      /\ ApproximateEnd(r) < Prompt[r]
    BY PromptIs
<1>4. p.start # None => p.start < Prompt[r]
    BY <1>1, <1>3 DEF Fit, Valid
<1> HIDE DEF last
<1>5. last <= Len(Text[r]) /\ entered \in Nat /\ entered <= Len(Text[r])
    BY <1>2, <1>3 DEF Most
<1>6. Keys(r, entered) \subseteq shared \cup Keys(r, last)
    BY DEF Most
<1>7. Least(to, Exact(r, p)) <= entered
    BY <1>1, <1>2, <1>3, <1>4 DEF Most, Least, Exact
<1>8. Narrow(r, p, entered)
    BY <1>1, <1>2, <1>3 DEF Narrow, Most, Least
<1>9. QED
    BY <1>2, <1>5, <1>6, <1>7, <1>8 DEF last

\* What an admission enters.
LEMMA AdmitEnters ==
    ASSUME Typed, Standing, Entered, NEW r \in Requests, NEW h \in Nat, NEW s \in Steps,
           AdmitDoes(r, h, s)
    PROVE  LET last == CacheableEnd(s.wire, h + s.n) IN
           /\ last \in Nat /\ last <= Len(Text[r]) /\ s.entered <= Len(Text[r])
           /\ Keys(r, s.entered) \subseteq shared \cup Keys(r, last)
           /\ Least(h + s.n, Exact(r, s.wire)) <= s.entered
           /\ Narrow(r, s.wire, s.entered)
           /\ h + s.n <= Len(Text[r])
<1>1. /\ Fit(r, s.wire) /\ s.wire.cached = Least(h, Prompt[r])
      /\ s.entered = Most(h, CacheableEnd(s.wire, h + s.n))
      /\ h \in Hits(r) /\ h + s.n <= known[r]
    BY DEF AdmitDoes
<1>2. s.n \in Nat /\ h + s.n \in Nat /\ Len(Text[r]) \in Nat /\ known[r] \in Nat /\ h <= h + s.n
      /\ known[r] <= Len(Text[r])
  <2>1. s.n \in Nat
    BY DEF Steps
  <2>2. known[r] \in Nat /\ known[r] <= Len(Text[r])
    BY PromptIs DEF Typed, Standing
  <2>3. QED
    BY <2>1, <2>2, PromptIs
<1>3. Keys(r, h) \subseteq shared
    BY <1>1, HitIs
<1>4. Narrow(r, s.wire, h)
  <2>1. s.wire.cached < Prompt[r] => s.wire.cached = h
    BY <1>1, PromptIs DEF Least
  <2>2. s.wire \in Policies
    BY <1>1 DEF Fit
  <2>3. QED
    BY <2>1, <2>2, PolicyIs DEF Narrow, Most
<1>5. Least(h + s.n, Prompt[r]) <= h + s.n
    BY <1>2, PromptIs DEF Least
<1>6. QED
    BY <1>1, <1>2, <1>3, <1>4, <1>5, EnteredIs

\* What a later step enters.
LEMMA ContinueEnters ==
    ASSUME Typed, Standing, Entered, NEW r \in Requests, NEW s \in Steps, ContinueDoes(r, s)
    PROVE  LET last == CacheableEnd(s.wire, Least(s.pos + s.n, known[r])) IN
           /\ last \in Nat /\ last <= Len(Text[r]) /\ s.entered <= Len(Text[r])
           /\ Keys(r, s.entered) \subseteq shared \cup Keys(r, last)
           /\ Least(s.pos + s.n, Exact(r, s.wire)) <= s.entered
           /\ Narrow(r, s.wire, s.entered)
           /\ shared' = shared \cup Keys(r, last)
<1> DEFINE end == Least(s.pos + s.n, known[r])
<1>1. /\ s.wire = policy[r] /\ s.pos + s.n <= Len(Text[r]) /\ status[r] = "running"
      /\ s.entered = Most(upto[r], CacheableEnd(s.wire, end))
      /\ shared' = shared \cup Keys(r, CacheableEnd(s.wire, end))
    BY DEF ContinueDoes
<1>2. s.n \in Nat /\ s.pos + s.n \in Nat /\ known[r] \in Nat /\ upto[r] \in Nat
  <2>1. s.n \in Nat /\ s.pos \in Nat
    BY DEF Steps
  <2>2. known[r] \in Nat /\ upto[r] \in Nat
    BY DEF Typed
  <2>3. QED
    BY <2>1, <2>2
<1>3. known[r] >= Prompt[r] /\ upto[r] <= Len(Text[r])
    BY PromptIs DEF Standing
<1>4. end \in Nat /\ end <= s.pos + s.n /\ Least(s.pos + s.n, Prompt[r]) <= end
    BY <1>2, <1>3, PromptIs DEF Least
<1>5. r \in Running /\ Fit(r, s.wire)
    BY <1>1 DEF Running, Standing
<1>6. Keys(r, upto[r]) \subseteq shared /\ Narrow(r, s.wire, upto[r])
    BY <1>1, <1>5 DEF Entered
<1> HIDE DEF end
<1>7. QED
    BY <1>1, <1>2, <1>3, <1>4, <1>5, <1>6, EnteredIs DEF end

\* Of what the scheduler hears of, it has planned at least what was rejected.
LEMMA OutputIs ==
    ASSUME Typed, Tracked, Sent, Output
    PROVE  LET s == flight[1]
               r == s.req
           IN  /\ Len(flight) \in Nat /\ Len(flight) >= 1 /\ s \in Steps /\ r \in Requests
               /\ s.accepted # 0 /\ s.accepted <= s.n /\ flight' = Tail(flight)
               /\ status[r] = "running" => computed[r] - (s.n - s.accepted) \in Nat
               /\ computed' = IF status[r] = "running"
                              THEN [computed EXCEPT ![r] = @ - (s.n - s.accepted)] ELSE computed
               /\ known' = IF status[r] = "running" /\ s.end >= known[r]
                           THEN [known EXCEPT ![r] = Least(s.end + 1, Len(Text[r]))]
                           ELSE known
<1> DEFINE s == flight[1]
           r == s.req
           L == Len(flight)
<1>1. flight # <<>> /\ Head(flight).accepted > 0 /\ flight' = Tail(flight)
    BY DEF Output
<1>2. L \in Nat /\ L >= 1 /\ s \in Steps /\ s = Head(flight) /\ s.accepted # 0
    BY <1>1, HeardIs DEF Typed
<1>3. r \in Requests /\ s.accepted \in Nat /\ s.n \in Nat
    BY <1>2 DEF Steps
<1>4. s.accepted <= s.n
    BY <1>2 DEF Sent, Sound
<1>5. ASSUME status[r] = "running"
      PROVE  computed[r] - (s.n - s.accepted) \in Nat
  <2>1. Live(r)
    BY <1>5 DEF Live
  <2>2. PICK at \in [0..L -> Nat], plan \in [0..L -> Nat] : Tracks(r, at, plan)
    BY <1>3, <2>1 DEF Tracked
  <2>3. 0 \in 0..L /\ 1 \in 0..L /\ L \in 0..L /\ 1 \in 1..L /\ 1 - 1 = 0 /\ L \in 1..L
    BY <1>2
  <2>4. at[0] \in Nat /\ at[1] \in Nat /\ at[L] \in Nat /\ plan[1] \in Nat /\ plan[L] \in Nat
    BY <2>2, <2>3
  <2>5. at[1] = at[0] + Moved(r, s) /\ plan[1] = plan[0] + Planned(r, s) /\ at[0] = plan[0]
    BY <2>2, <2>3 DEF Tracks, Path
  <2>6. plan[1] - at[1] <= plan[L] - at[L] /\ plan[L] = computed[r]
    BY <1>5, <2>2, <2>3 DEF Tracks, Path
  <2>7. Moved(r, s) = s.accepted /\ Planned(r, s) = s.n
    BY <1>2 DEF Moved, Planned
  <2> HIDE DEF s, r, L
  <2>8. computed[r] >= s.n - s.accepted /\ computed[r] \in Nat
    BY <1>3, <2>4, <2>5, <2>6, <2>7, SMTT(40)
  <2>9. QED
    BY <1>3, <1>4, <2>8
<1>6. QED
    BY <1>1, <1>2, <1>3, <1>4, <1>5 DEF Output

\* Types are kept.
LEMMA TypedKept ==
    ASSUME Typed, Sent, Tracked, Does
    PROVE  Typed'
<1>1. ASSUME NEW r \in Requests, NEW s \in Steps, Grows(r, s)
      PROVE  /\ off' \in SUBSET Requests /\ retired' \in SUBSET Requests
             /\ computed' \in [Requests -> Nat] /\ upto' \in [Requests -> Nat]
             /\ known' \in [Requests -> Nat] /\ flight' \in Seq(Steps)
             /\ told' \in [Requests -> SomePolicy] /\ done' \in [Requests -> Nat]
             /\ owner' \in Requests \cup {None} /\ spec' \in Nat \X Nat
             /\ skipped' \in [Requests -> SUBSET Nat]
  <2>1. s.pos + s.n \in Nat /\ s.entered \in Nat
    BY DEF Steps
  <2>2. flight' \in Seq(Steps)
    BY <1>1, GrownIs DEF Typed, Grows
  <2>3. QED
    BY <1>1, <2>1, <2>2 DEF Typed, Grows, worker
<1>2. ASSUME NEW r \in Requests, NEW h \in Nat, NEW s \in Steps, AdmitDoes(r, h, s)
      PROVE  Typed'
  <2>1. s.wire \in SomePolicy
    BY DEF Steps
  <2>2. /\ status' \in [Requests -> {"waiting", "running", "preempted", "finished"}]
        /\ policy' \in [Requests -> SomePolicy] /\ wire' = policy' /\ Grows(r, s)
    BY <1>2, <2>1 DEF AdmitDoes, Typed
  <2>3. QED
    BY <1>1, <2>2 DEF Typed
<1>3. ASSUME NEW r \in Requests, NEW s \in Steps, ContinueDoes(r, s)
      PROVE  Typed'
  <2>1. /\ status' \in [Requests -> {"waiting", "running", "preempted", "finished"}]
        /\ policy' \in [Requests -> SomePolicy] /\ wire' = policy' /\ Grows(r, s)
    BY <1>3 DEF ContinueDoes, Typed
  <2>2. QED
    BY <1>1, <2>1 DEF Typed
<1>4. ASSUME NEW r \in Requests, Preempt(r)
      PROVE  Typed'
    BY <1>4 DEF Preempt, Typed, worker
<1>5. ASSUME NEW r \in Requests, Finish(r)
      PROVE  Typed'
  <2>1. Prompt[r] \in Nat /\ None \in SomePolicy
    BY PromptIs DEF SomePolicy
  <2>2. QED
    BY <1>5, <2>1 DEF Finish, Typed, worker
<1>6. ASSUME NEW k, Evict(k)
      PROVE  Typed'
    BY <1>6 DEF Evict, Typed, worker, requests
<1>7. ASSUME Output
      PROVE  Typed'
  <2> DEFINE s == flight[1]
             r == s.req
  <2>1. /\ s \in Steps /\ r \in Requests /\ flight' = Tail(flight)
        /\ status[r] = "running" => computed[r] - (s.n - s.accepted) \in Nat
        /\ computed' = IF status[r] = "running"
                       THEN [computed EXCEPT ![r] = @ - (s.n - s.accepted)] ELSE computed
        /\ known' = IF status[r] = "running" /\ s.end >= known[r]
                    THEN [known EXCEPT ![r] = Least(s.end + 1, Len(Text[r]))] ELSE known
    BY <1>7, OutputIs
  <2>2. flight' \in Seq(Steps)
    BY <1>7, HeardIs DEF Output, Typed
  <2>3. Least(s.end + 1, Len(Text[r])) \in Nat
    BY <2>1, PromptIs DEF Least, Steps
  <2>4. computed' \in [Requests -> Nat] /\ known' \in [Requests -> Nat]
    BY <2>1, <2>3 DEF Typed
  <2>5. UNCHANGED <<status, off, policy, wire, upto, retired, worker>>
    BY <1>7 DEF Output
  <2>6. QED
    BY <2>2, <2>4, <2>5 DEF Typed, worker
<1>8. ASSUME NEW i, NEW acc, WorkDoes(i, acc)
      PROVE  Typed'
  <2> DEFINE s == flight[i]
             r == s.req
  <2>1. i \in Unseen /\ acc \in Nat \ {0} /\ Place(i) + acc \in Nat
    BY <1>8 DEF WorkDoes
  <2>2. flight' \in Seq(Steps) /\ s \in Steps
    BY <1>8, <2>1, WorkedIs DEF WorkDoes, Typed
  <2>3. r \in Requests /\ s.wire \in SomePolicy /\ None \in SomePolicy
    BY <2>2 DEF Steps, SomePolicy
  <2>4. told' \in [Requests -> SomePolicy]
    BY <1>8, <2>3 DEF WorkDoes, Typed
  <2>5. done' \in [Requests -> Nat]
    BY <1>8, <2>1 DEF WorkDoes, Typed
  <2>6. Window(r, s.wire, Place(i) + acc) \in SUBSET Nat
    BY DEF Window
  <2>7. skipped' \in [Requests -> SUBSET Nat]
    BY <1>8, <2>6 DEF WorkDoes, Typed
  <2>8. owner' \in Requests \cup {None}
    BY <1>8, <2>3 DEF WorkDoes
  <2>9. Fit(r, s.wire) /\ ApproximateEnd(r) \in Nat
    BY <2>1, <2>3, PromptIs DEF Sent, Sound, Unseen
  <2>10. spec' \in Nat \X Nat
    <3>1. s.wire.start # None => s.wire.start \in Nat
      BY <2>9, PolicyIs DEF Fit
    <3>2. Configured(r, s.wire) \in Nat \X Nat
      BY <2>9, <3>1 DEF Configured, Approximates
    <3>3. QED
      BY <1>8, <3>2 DEF WorkDoes
  <2>11. UNCHANGED <<requests, retired>>
    BY <1>8 DEF WorkDoes
  <2>12. QED
    BY <2>2, <2>4, <2>5, <2>7, <2>8, <2>10, <2>11 DEF Typed, requests
<1>9. ASSUME UNCHANGED vars
      PROVE  Typed'
    BY <1>9 DEF vars, requests, worker, Typed
<1>10. QED
    BY <1>2, <1>3, <1>4, <1>5, <1>6, <1>7, <1>8, <1>9 DEF Does

\* What a request is known by is kept.
LEMMA StandingKept ==
    ASSUME Typed, Standing, Entered, Sent, Tracked, Does
    PROVE  Standing'
<1>1. ASSUME NEW r \in Requests, NEW h \in Nat, NEW s \in Steps, AdmitDoes(r, h, s)
      PROVE  Standing'
  <2>1. /\ Fit(r, s.wire) /\ Grows(r, s)
        /\ status' = [status EXCEPT ![r] = "running"] /\ policy' = [policy EXCEPT ![r] = s.wire]
        /\ s.pos = h
    BY <1>1 DEF AdmitDoes
  <2>2. h + s.n <= Len(Text[r]) /\ s.entered <= Len(Text[r])
    BY <1>1, AdmitEnters
  <2>3. s.wire # None
    BY <2>1, PolicyIs DEF Fit
  <2>4. \A q : InFlight(q)' <=> InFlight(q) \/ q = r
    BY <2>1, GrownIs DEF Grows, Typed
  <2>5. UNCHANGED <<off, known>> /\ computed' = [computed EXCEPT ![r] = h + s.n]
        /\ upto' = [upto EXCEPT ![r] = s.entered]
    BY <2>1 DEF Grows
  <2>6. ASSUME NEW q \in Requests, q # r
        PROVE  status'[q] = status[q] /\ policy'[q] = policy[q] /\ computed'[q] = computed[q]
               /\ upto'[q] = upto[q]
    BY <2>1, <2>5, <2>6 DEF Typed
  <2>7. status'[r] = "running" /\ policy'[r] = s.wire /\ computed'[r] = h + s.n
        /\ upto'[r] = s.entered
    BY <2>1, <2>5 DEF Typed
  <2>8. QED
    BY <2>1, <2>2, <2>3, <2>4, <2>5, <2>6, <2>7 DEF Standing, Fit, Valid
<1>2. ASSUME NEW r \in Requests, NEW s \in Steps, ContinueDoes(r, s)
      PROVE  Standing'
  <2>1. /\ Grows(r, s) /\ status[r] = "running" /\ UNCHANGED <<status, policy>>
        /\ s.pos + s.n <= Len(Text[r])
    BY <1>2 DEF ContinueDoes
  <2>2. s.entered <= Len(Text[r])
    BY <1>2, ContinueEnters
  <2>3. \A q : InFlight(q)' <=> InFlight(q) \/ q = r
    BY <2>1, GrownIs DEF Grows, Typed
  <2>4. UNCHANGED <<off, known>> /\ computed' = [computed EXCEPT ![r] = s.pos + s.n]
        /\ upto' = [upto EXCEPT ![r] = s.entered]
    BY <2>1 DEF Grows
  <2>5. \A q \in Requests : /\ computed'[q] = IF q = r THEN s.pos + s.n ELSE computed[q]
                            /\ upto'[q] = IF q = r THEN s.entered ELSE upto[q]
    BY <2>4 DEF Typed
  <2>6. QED
    BY <2>1, <2>2, <2>3, <2>4, <2>5 DEF Standing, Fit, Valid
<1>3. ASSUME NEW r \in Requests, Preempt(r)
      PROVE  Standing'
  <2>1. /\ ~InFlight(r) /\ status[r] = "running" /\ UNCHANGED <<off, policy, known, flight>>
        /\ \A q \in Requests : /\ status'[q] = IF q = r THEN "preempted" ELSE status[q]
                               /\ computed'[q] = IF q = r THEN 0 ELSE computed[q]
                               /\ upto'[q] = IF q = r THEN 0 ELSE upto[q]
    BY <1>3 DEF Preempt, Typed
  <2>2. Len(Text[r]) >= 0 /\ 0 <= Len(Text[r])
    BY PromptIs
  <2>3. \A q : InFlight(q)' <=> InFlight(q)
    BY <2>1 DEF InFlight
  <2>4. QED
    BY <2>1, <2>2, <2>3 DEF Standing, Fit, Valid
<1>4. ASSUME NEW r \in Requests, Finish(r)
      PROVE  Standing'
  <2>1. /\ UNCHANGED <<off, flight>>
        /\ \A q \in Requests : /\ status'[q] = IF q = r THEN "finished" ELSE status[q]
                               /\ policy'[q] = IF q = r THEN None ELSE policy[q]
                               /\ known'[q] = IF q = r THEN Prompt[q] ELSE known[q]
                               /\ computed'[q] = IF q = r THEN 0 ELSE computed[q]
                               /\ upto'[q] = IF q = r THEN 0 ELSE upto[q]
    BY <1>4 DEF Finish, Typed
  <2>2. 0 <= Len(Text[r]) /\ Prompt[r] \in Prompt[r]..Len(Text[r])
    BY PromptIs
  <2>3. \A q : InFlight(q)' <=> InFlight(q)
    BY <2>1 DEF InFlight
  <2>4. QED
    BY <2>1, <2>2, <2>3 DEF Standing, Fit, Valid
<1>5. ASSUME NEW k, Evict(k)
      PROVE  Standing'
    BY <1>5 DEF Evict, requests, Standing, Fit, Valid, InFlight
<1>6. ASSUME Output
      PROVE  Standing'
  <2> DEFINE s == flight[1]
             r == s.req
  <2>1. /\ s \in Steps /\ r \in Requests /\ flight' = Tail(flight) /\ s.accepted <= s.n
        /\ status[r] = "running" => computed[r] - (s.n - s.accepted) \in Nat
        /\ computed' = IF status[r] = "running"
                       THEN [computed EXCEPT ![r] = @ - (s.n - s.accepted)] ELSE computed
        /\ known' = IF status[r] = "running" /\ s.end >= known[r]
                    THEN [known EXCEPT ![r] = Least(s.end + 1, Len(Text[r]))] ELSE known
    BY <1>6, OutputIs
  <2>2. \A q : InFlight(q)' => InFlight(q)
    BY <1>6, HeardIs DEF Output, Typed
  <2>3. UNCHANGED <<status, off, policy, upto>>
    BY <1>6 DEF Output
  <2>4. ASSUME NEW q \in Requests
        PROVE  computed'[q] <= computed[q] /\ computed'[q] \in Nat
    <3>1. s.n \in Nat /\ s.accepted \in Nat
      BY <2>1 DEF Steps
    <3> HIDE DEF s, r
    <3>2. computed[q] \in Nat /\ computed[r] \in Nat
      BY <2>1 DEF Typed
    <3>3. computed'[q] = IF status[r] = "running" /\ q = r
                         THEN computed[r] - (s.n - s.accepted) ELSE computed[q]
      BY <2>1 DEF Typed
    <3>4. QED
      BY <2>1, <3>1, <3>2, <3>3
  <2>5. ASSUME NEW q \in Requests
        PROVE  known'[q] \in Prompt[q]..Len(Text[q])
    <3>1. known[q] \in Prompt[q]..Len(Text[q]) /\ s.end \in Nat
      BY <2>1 DEF Steps, Standing
    <3>2. CASE status[r] = "running" /\ s.end >= known[r] /\ q = r
      <4>1. known'[q] = Least(s.end + 1, Len(Text[q]))
        BY <2>1, <3>2 DEF Typed
      <4>2. QED
        BY <3>1, <3>2, <4>1, PromptIs, SMTT(40) DEF Least
    <3>3. CASE ~(status[r] = "running" /\ s.end >= known[r] /\ q = r)
      <4>1. known'[q] = known[q]
        BY <2>1, <3>3 DEF Typed
      <4>2. QED
        BY <3>1, <4>1
    <3>4. QED
      BY <3>2, <3>3
  <2>6. ASSUME NEW q \in Requests
        PROVE  computed'[q] <= Len(Text[q])
    BY <2>4, PromptIs, SMTT(40) DEF Standing, Typed
  <2>7. QED
    BY <2>2, <2>3, <2>5, <2>6 DEF Standing, Fit, Valid
<1>7. ASSUME NEW i, NEW acc, WorkDoes(i, acc)
      PROVE  Standing'
  <2> DEFINE e == Place(i) + acc
  <2>1. /\ i \in Unseen /\ acc \in Nat \ {0} /\ e \in Nat
        /\ flight' = [flight EXCEPT ![i].accepted = acc, ![i].end = e]
    BY <1>7 DEF WorkDoes
  <2> HIDE DEF e
  <2>2. \A q : InFlight(q)' <=> InFlight(q)
    BY <2>1, WorkedIs DEF Typed
  <2>3. UNCHANGED requests
    BY <1>7 DEF WorkDoes
  <2>4. QED
    BY <2>2, <2>3 DEF requests, Standing, Fit, Valid
<1>8. ASSUME UNCHANGED vars
      PROVE  Standing'
    BY <1>8 DEF vars, requests, Standing, Fit, Valid, InFlight
<1>9. QED
    BY <1>1, <1>2, <1>3, <1>4, <1>5, <1>6, <1>7, <1>8 DEF Does

\* What the running requests have entered is kept.
LEMMA EnteredKept ==
    ASSUME Typed, Standing, Entered, Sent, Tracked, Does
    PROVE  Entered'
<1>1. ASSUME NEW r \in Requests, NEW h \in Nat, NEW s \in Steps, AdmitDoes(r, h, s)
      PROVE  Entered'
  <2> DEFINE last == CacheableEnd(s.wire, h + s.n)
  <2>1. /\ Running = {} /\ status' = [status EXCEPT ![r] = "running"]
        /\ policy'[r] = s.wire /\ computed'[r] = h + s.n /\ upto'[r] = s.entered
        /\ shared' = shared \cup Keys(r, last)
    BY <1>1 DEF AdmitDoes, Grows, Typed
  <2>2. /\ last \in Nat /\ last <= Len(Text[r])
        /\ Keys(r, s.entered) \subseteq shared \cup Keys(r, last)
        /\ Least(h + s.n, Exact(r, s.wire)) <= s.entered
        /\ Narrow(r, s.wire, s.entered)
    BY <1>1, AdmitEnters
  <2>3. Running' = {r}
    BY <2>1 DEF Running, Typed
  <2>4. shared' \subseteq AllKeys
    BY <2>1, <2>2, KeysIn DEF Entered
  <2>5. QED
    BY <2>1, <2>2, <2>3, <2>4 DEF Entered
<1>2. ASSUME NEW r \in Requests, NEW s \in Steps, ContinueDoes(r, s)
      PROVE  Entered'
  <2> DEFINE last == CacheableEnd(s.wire, Least(s.pos + s.n, known[r]))
  <2>1. /\ Grows(r, s) /\ status' = status /\ policy' = policy /\ s.wire = policy[r]
        /\ shared' = shared \cup Keys(r, last)
        /\ last \in Nat /\ last <= Len(Text[r])
        /\ Keys(r, s.entered) \subseteq shared \cup Keys(r, last)
        /\ Least(s.pos + s.n, Exact(r, s.wire)) <= s.entered
        /\ Narrow(r, s.wire, s.entered)
    BY <1>2, ContinueEnters DEF ContinueDoes
  <2>2. Running' = Running
    BY <2>1 DEF Running
  <2>3. shared' \subseteq AllKeys
    BY <2>1, KeysIn DEF Entered
  <2>4. ASSUME NEW q \in Running
        PROVE  /\ Keys(q, upto'[q]) \subseteq shared'
               /\ Least(computed'[q], Exact(q, policy'[q])) <= upto'[q]
               /\ Narrow(q, policy'[q], upto'[q])
    <3>1. q \in Requests
      BY DEF Running
    <3>2. CASE q = r
      <4>1. upto'[q] = s.entered /\ computed'[q] = s.pos + s.n
        BY <2>1, <3>2 DEF Grows, Typed
      <4>2. QED
        BY <2>1, <3>2, <4>1
    <3>3. CASE q # r
      <4>1. upto'[q] = upto[q] /\ computed'[q] = computed[q]
        BY <2>1, <3>1, <3>3 DEF Grows, Typed
      <4>2. QED
        BY <2>1, <4>1 DEF Entered
    <3>4. QED
      BY <3>2, <3>3
  <2>5. QED
    BY <2>2, <2>3, <2>4 DEF Entered
<1>3. ASSUME NEW r \in Requests, Preempt(r) \/ Finish(r)
      PROVE  Entered'
  <2>1. shared' = shared /\ Running' = Running \ {r}
    BY <1>3 DEF Preempt, Finish, Running, Typed
  <2>2. ASSUME NEW q \in Running'
        PROVE  q \in Running /\ policy'[q] = policy[q] /\ upto'[q] = upto[q]
               /\ computed'[q] = computed[q]
    BY <1>3, <2>1 DEF Preempt, Finish, Running, Typed
  <2>3. QED
    BY <2>1, <2>2 DEF Entered
<1>4. ASSUME NEW k, Evict(k)
      PROVE  Entered'
  <2>1. shared' = shared \ {k} /\ k \notin Held /\ UNCHANGED <<status, policy, upto, computed>>
    BY <1>4 DEF Evict, requests
  <2>2. Running' = Running
    BY <2>1 DEF Running
  <2>3. \A q \in Running : k \notin Keys(q, upto[q])
    BY <2>1 DEF Held
  <2>4. QED
    BY <2>1, <2>2, <2>3 DEF Entered
<1>5. ASSUME Output
      PROVE  Entered'
  <2> DEFINE s == flight[1]
             r == s.req
  <2>1. /\ s \in Steps /\ r \in Requests /\ s.accepted <= s.n
        /\ status[r] = "running" => computed[r] - (s.n - s.accepted) \in Nat
        /\ computed' = IF status[r] = "running"
                       THEN [computed EXCEPT ![r] = @ - (s.n - s.accepted)] ELSE computed
    BY <1>5, OutputIs
  <2>2. UNCHANGED <<status, policy, upto, shared>>
    BY <1>5 DEF Output
  <2>3. Running' = Running
    BY <2>2 DEF Running
  <2>4. ASSUME NEW q \in Running
        PROVE  Least(computed'[q], Exact(q, policy[q])) <= upto[q]
    <3>1. q \in Requests /\ upto[q] \in Nat /\ computed[q] \in Nat
      BY DEF Running, Typed
    <3>2. s.n \in Nat /\ s.accepted \in Nat
      BY <2>1 DEF Steps
    <3>3. computed'[q] \in Nat /\ computed'[q] <= computed[q]
      <4> HIDE DEF s, r
      <4>1. computed'[q] = IF status[r] = "running" /\ q = r
                           THEN computed[r] - (s.n - s.accepted) ELSE computed[q]
        BY <2>1, <3>1 DEF Typed
      <4>2. QED
        BY <2>1, <3>1, <3>2, <4>1
    <3>4. Exact(q, policy[q]) \in Nat
      <4>1. policy[q] \in Policies
        BY <3>1 DEF Standing, Running, Fit
      <4>2. QED
        BY <3>1, <4>1, PolicyIs, PromptIs DEF Exact
    <3>5. Least(computed[q], Exact(q, policy[q])) <= upto[q]
      BY DEF Entered
    <3>6. QED
      BY <3>1, <3>3, <3>4, <3>5 DEF Least
  <2>5. QED
    BY <2>2, <2>3, <2>4 DEF Entered
<1>6. ASSUME NEW i, NEW acc, WorkDoes(i, acc)
      PROVE  Entered'
    BY <1>6 DEF WorkDoes, requests, Entered, Running
<1>7. ASSUME UNCHANGED vars
      PROVE  Entered'
    BY <1>7 DEF vars, requests, Entered, Running
<1>8. QED
    BY <1>1, <1>2, <1>3, <1>4, <1>5, <1>6, <1>7 DEF Does

\* What a step of the worker leaves in flight.
LEMMA SteppedIs ==
    ASSUME Typed, NEW i, NEW acc, WorkDoes(i, acc)
    PROVE  /\ i \in Unseen /\ i \in 1..Len(flight) /\ Len(flight) \in Nat /\ flight[i] \in Steps
           /\ flight[i].req \in Requests /\ flight[i].accepted = 0
           /\ acc \in Nat \ {0} /\ acc <= flight[i].n /\ (~flight[i].draft => acc = flight[i].n)
           /\ flight' \in Seq(Steps) /\ Len(flight') = Len(flight)
           /\ \A j \in 1..Len(flight) : j # i => flight'[j] = flight[j]
           /\ flight'[i].accepted = acc
           /\ \A j \in 1..Len(flight) :
                 /\ flight'[j].req = flight[j].req /\ flight'[j].new = flight[j].new
                 /\ flight'[j].wire = flight[j].wire /\ flight'[j].gone = flight[j].gone
                 /\ flight'[j].pos = flight[j].pos /\ flight'[j].n = flight[j].n
                 /\ flight'[j].draft = flight[j].draft
                 /\ flight'[j].entered = flight[j].entered
                 /\ flight'[j].generated = flight[j].generated
           /\ Unseen' = Unseen \ {i}
           /\ \A q : q # flight[i].req => (Started(q)' <=> Started(q))
<1> DEFINE s == flight[i]
           r == s.req
           e == Place(i) + acc
<1>1. /\ i \in Unseen /\ acc \in Nat \ {0} /\ e \in Nat /\ acc <= s.n
      /\ (~s.draft => acc = s.n)
      /\ flight' = [flight EXCEPT ![i].accepted = acc, ![i].end = e]
    BY DEF WorkDoes
<1> HIDE DEF e
<1>2. /\ flight' \in Seq(Steps) /\ Len(flight) \in Nat /\ Len(flight') = Len(flight)
      /\ i \in 1..Len(flight) /\ flight[i] \in Steps /\ flight[i].accepted = 0
      /\ \A j \in 1..Len(flight) : j # i => flight'[j] = flight[j]
      /\ flight'[i].req = flight[i].req /\ flight'[i].new = flight[i].new
      /\ flight'[i].wire = flight[i].wire /\ flight'[i].gone = flight[i].gone
      /\ flight'[i].pos = flight[i].pos /\ flight'[i].n = flight[i].n
      /\ flight'[i].draft = flight[i].draft /\ flight'[i].entered = flight[i].entered
      /\ flight'[i].generated = flight[i].generated /\ flight'[i].accepted = acc
      /\ Unseen' = Unseen \ {i}
  <2>1. flight \in Seq(Steps)
    BY DEF Typed
  <2> HIDE DEF s, r
  <2>2. QED
    BY <1>1, <2>1, WorkedIs
<1>3. r \in Requests
    BY <1>2 DEF Steps
<1>4. \A j \in 1..Len(flight) :
         /\ flight'[j].req = flight[j].req /\ flight'[j].new = flight[j].new
         /\ flight'[j].wire = flight[j].wire /\ flight'[j].gone = flight[j].gone
         /\ flight'[j].pos = flight[j].pos /\ flight'[j].n = flight[j].n
         /\ flight'[j].draft = flight[j].draft
         /\ flight'[j].entered = flight[j].entered
         /\ flight'[j].generated = flight[j].generated
    BY <1>2, <1>3
<1>5. \A j \in Unseen : j \in 1..Len(flight)
    BY DEF Unseen
<1>6. ASSUME NEW q, q # r
      PROVE  Started(q)' <=> Started(q)
    BY <1>2, <1>4, <1>5, <1>6 DEF Started
<1>7. QED
    BY <1>1, <1>2, <1>3, <1>4, <1>6 DEF e

\* What is in flight goes with what the requests are known by.
LEMMA SentKept ==
    ASSUME Typed, Standing, Entered, Sent, Tracked, Does
    PROVE  Sent'
<1> DEFINE L == Len(flight)
<1>0. /\ L \in Nat /\ \A i \in 1..L : flight[i] \in Steps
      /\ \A i \in 1..L : flight[i].req \in Requests /\ flight[i].gone \subseteq Requests
  <2>1. L \in Nat /\ \A i \in 1..L : flight[i] \in Steps
    BY LenProperties, ElementOfSeq DEF Typed
  <2>2. QED
    BY <2>1 DEF Steps
<1>1. ASSUME NEW r \in Requests, NEW s \in Steps, Grows(r, s), Sound(s), s.wire = policy'[r],
             status[r] # "finished", policy' \in [Requests -> SomePolicy],
             \A i \in 1..L : flight[i].req = r =>
                status[r] = "running" /\ policy'[r] = policy[r],
             \A q \in Requests : q # r => status'[q] = status[q] /\ policy'[q] = policy[q],
             status'[r] = "running"
      PROVE  Sent'
  <2>1. /\ Len(flight') = L + 1 /\ flight'[L + 1] = s
        /\ \A i \in 1..L : flight'[i] = flight[i]
        /\ s.req = r /\ s.gone = retired /\ retired' = {} /\ L < Ahead /\ off' = off
    BY <1>1, GrownIs DEF Grows, Typed
  <2>2. Len(flight') <= Ahead
    BY <1>0, <2>1, ApcAssumption
  <2>3. \A x \in Steps : Sound(x) => Sound(x)'
    BY <2>1 DEF Sound, Fit, Valid, Narrow
  <2>4. \A i \in 1..(L + 1) : flight'[i] \in Steps /\ Sound(flight'[i])
    <3>1. ASSUME NEW i \in 1..(L + 1)
          PROVE  flight'[i] \in Steps /\ Sound(flight'[i])
      <4>1. CASE i = L + 1
        BY <1>1, <2>1, <4>1
      <4>2. CASE i # L + 1
        <5>1. i \in 1..L
          BY <1>0, <4>2
        <5>2. QED
          BY <1>0, <2>1, <5>1 DEF Sent
      <4>3. QED
        BY <4>1, <4>2
    <3>2. QED
      BY <3>1
  <2>5. \A i \in 1..(L + 1) : Sound(flight[i])'
    BY <2>1, <2>4 DEF Sound, Fit, Valid, Narrow
  <2>6. ASSUME NEW i \in 1..(L + 1)
        PROVE  /\ status'[flight'[i].req] = "running" =>
                     flight'[i].wire = policy'[flight'[i].req]
               /\ \A q \in flight'[i].gone : status'[q] = "finished"
    <3>1. CASE i = L + 1
      BY <1>1, <2>1, <3>1 DEF Sent, Typed
    <3>2. CASE i # L + 1
      <4>1. i \in 1..L
        BY <1>0, <3>2
      <4>2. /\ status[flight[i].req] = "running" => flight[i].wire = policy[flight[i].req]
            /\ \A q \in flight[i].gone : status[q] = "finished"
        BY <4>1 DEF Sent
      <4>3. QED
        BY <1>0, <1>1, <2>1, <4>1, <4>2
    <3>3. QED
      BY <3>1, <3>2
  <2>7. QED
    BY <2>1, <2>2, <2>5, <2>6 DEF Sent
<1>2. ASSUME NEW r \in Requests, NEW h \in Nat, NEW s \in Steps, AdmitDoes(r, h, s)
      PROVE  Sent'
  <2>1. /\ Grows(r, s) /\ s.new /\ ~s.draft /\ s.pos = h /\ Fit(r, s.wire)
        /\ s.wire.cached = Least(h, Prompt[r])
        /\ status[r] \in {"waiting", "preempted"}
        /\ status' = [status EXCEPT ![r] = "running"] /\ policy' = [policy EXCEPT ![r] = s.wire]
    BY <1>2 DEF AdmitDoes
  <2>2. h + s.n <= Len(Text[r]) /\ Narrow(r, s.wire, s.entered)
    BY <1>2, AdmitEnters
  <2>3. s.req = r /\ s.accepted = 0 /\ s.wire # None /\ s.n \in Nat
    BY <2>1, PolicyIs DEF Grows, Fit, Steps
  <2>4. Sound(s)
    BY <2>1, <2>2, <2>3 DEF Sound
  <2>5. \A i \in 1..L : flight[i].req # r
    BY <2>1 DEF Standing, InFlight
  <2>6. s.wire \in SomePolicy
    BY DEF Steps
  <2>7. QED
    BY <1>1, <2>1, <2>4, <2>5, <2>6 DEF Typed
<1>3. ASSUME NEW r \in Requests, NEW s \in Steps, ContinueDoes(r, s)
      PROVE  Sent'
  <2>1. /\ Grows(r, s) /\ ~s.new /\ s.pos = computed[r] /\ s.pos + s.n <= Len(Text[r])
        /\ s.wire = policy[r] /\ (s.pos >= Prompt[r] => s.generated)
        /\ (s.draft => s.n <= 1 + Draft)
        /\ status[r] = "running" /\ status' = status /\ policy' = policy
    BY <1>3 DEF ContinueDoes
  <2>2. Narrow(r, s.wire, s.entered)
    BY <1>3, ContinueEnters
  <2>3. s.req = r /\ s.accepted = 0 /\ s.n \in Nat /\ Fit(r, s.wire)
    BY <2>1 DEF Grows, Standing, Steps
  <2>4. s.wire # None
    BY <2>3, PolicyIs DEF Fit
  <2>5. Sound(s)
    BY <2>1, <2>2, <2>3, <2>4, ApcAssumption DEF Sound
  <2>6. QED
    BY <1>1, <2>1, <2>5 DEF Typed
<1>4. ASSUME NEW r \in Requests, Preempt(r) \/ Finish(r)
      PROVE  Sent'
  <2>1. /\ flight' = flight /\ off' = off /\ retired' \subseteq retired \cup {r}
        /\ (r \in retired' => r \in retired \/ status'[r] = "finished")
        /\ status[r] # "finished" /\ status'[r] # "running"
        /\ \A q \in Requests : q # r => status'[q] = status[q] /\ policy'[q] = policy[q]
    BY <1>4 DEF Preempt, Finish, Typed
  <2>2. \A i \in 1..L : Sound(flight[i])'
    BY <2>1 DEF Sent, Sound, Fit, Valid, Narrow
  <2>3. \A q \in retired' : status'[q] = "finished"
    BY <2>1 DEF Sent, Typed
  <2>4. \A i \in 1..L :
           /\ status'[flight[i].req] = "running" => flight[i].wire = policy'[flight[i].req]
           /\ \A q \in flight[i].gone : status'[q] = "finished"
    BY <1>0, <2>1 DEF Sent
  <2>5. QED
    BY <2>1, <2>2, <2>3, <2>4 DEF Sent
<1>5. ASSUME NEW k, Evict(k)
      PROVE  Sent'
    BY <1>5 DEF Evict, requests, Sent, Sound, Fit, Valid, Narrow
<1>6. ASSUME Output
      PROVE  Sent'
  <2>1. /\ L >= 1 /\ Len(flight') = L - 1
        /\ \A i \in 1..(L - 1) : flight'[i] = flight[i + 1]
    BY <1>6, HeardIs DEF Output, Typed
  <2>2. UNCHANGED <<status, off, policy, retired>>
    BY <1>6 DEF Output
  <2>3. Len(flight') <= Ahead
    BY <1>0, <2>1, ApcAssumption DEF Sent
  <2>4. \A i \in 1..(L - 1) : i + 1 \in 1..L
    BY <1>0
  <2>5. \A i \in 1..(L - 1) : Sound(flight[i])'
    BY <2>1, <2>2, <2>4, SMTT(40) DEF Sent, Sound, Fit, Valid, Narrow
  <2>6. QED
    BY <2>1, <2>2, <2>3, <2>4, <2>5 DEF Sent
<1>7. ASSUME NEW i, NEW acc, WorkDoes(i, acc)
      PROVE  Sent'
  <2>1. UNCHANGED <<status, off, policy, retired>>
    BY <1>7 DEF WorkDoes, requests
  <2>2. /\ acc \in Nat \ {0} /\ acc <= flight[i].n /\ (~flight[i].draft => acc = flight[i].n)
        /\ i \in 1..L /\ Len(flight') = L
        /\ \A j \in 1..L : j # i => flight'[j] = flight[j]
        /\ flight'[i].accepted = acc
        /\ \A j \in 1..L :
              /\ flight'[j].req = flight[j].req /\ flight'[j].new = flight[j].new
              /\ flight'[j].wire = flight[j].wire /\ flight'[j].gone = flight[j].gone
              /\ flight'[j].pos = flight[j].pos /\ flight'[j].n = flight[j].n
              /\ flight'[j].draft = flight[j].draft
              /\ flight'[j].entered = flight[j].entered
              /\ flight'[j].generated = flight[j].generated
    BY <1>7, SteppedIs
  <2>3. ASSUME NEW j \in 1..L
        PROVE  Sound(flight[j])'
    <3>1. Sound(flight[j])
      BY DEF Sent
    <3>2. CASE j = i
      BY <2>1, <2>2, <3>1, <3>2 DEF Sound, Fit, Valid, Narrow
    <3>3. CASE j # i
      BY <2>1, <2>2, <3>1, <3>3 DEF Sound, Fit, Valid, Narrow
    <3>4. QED
      BY <3>2, <3>3
  <2>4. QED
    BY <2>1, <2>2, <2>3 DEF Sent
<1>8. ASSUME UNCHANGED vars
      PROVE  Sent'
    BY <1>8 DEF vars, requests, Sent, Sound, Fit, Valid, Narrow
<1>9. QED
    BY <1>2, <1>3, <1>4, <1>5, <1>6, <1>7, <1>8 DEF Does

\* The order of what is in flight is kept.
LEMMA InOrderKept ==
    ASSUME Typed, Standing, Sent, InOrder, Does
    PROVE  InOrder'
<1> DEFINE L == Len(flight)
<1>0. L \in Nat
    BY LenProperties DEF Typed
<1>1. ASSUME NEW r \in Requests, NEW s \in Steps, Grows(r, s), status[r] # "finished",
             \A i \in 1..L : flight[i].req = r => ~s.new /\ flight[i].wire = s.wire
      PROVE  InOrder'
  <2>1. /\ Len(flight') = L + 1 /\ flight'[L + 1] = s
        /\ \A i \in 1..L : flight'[i] = flight[i]
        /\ s.req = r /\ s.gone = retired /\ s.accepted = 0
    BY <1>1, GrownIs DEF Grows, Typed
  <2>2. r \notin retired /\ \A i \in 1..L : r \notin flight[i].gone
    BY <1>1 DEF Sent
  <2>3. ASSUME NEW i \in 1..(L + 1), NEW j \in 1..(L + 1)
        PROVE  /\ i < j /\ flight'[j].accepted # 0 => flight'[i].accepted # 0
               /\ i < j /\ flight'[i].req = flight'[j].req =>
                     ~flight'[j].new /\ flight'[i].wire = flight'[j].wire
               /\ i <= j => flight'[j].req \notin flight'[i].gone
    <3>1. CASE j = L + 1 /\ i = L + 1
      BY <1>0, <2>1, <2>2, <3>1
    <3>2. CASE j = L + 1 /\ i # L + 1
      <4>1. i \in 1..L
        BY <1>0, <3>2
      <4>2. QED
        BY <1>1, <2>1, <2>2, <3>2, <4>1
    <3>3. CASE j # L + 1 /\ i # L + 1
      <4>1. i \in 1..L /\ j \in 1..L
        BY <1>0, <3>3
      <4>2. QED
        BY <2>1, <4>1 DEF InOrder
    <3>4. CASE j # L + 1 /\ i = L + 1
      BY <1>0, <3>4
    <3>5. QED
      BY <3>1, <3>2, <3>3, <3>4
  <2>4. QED
    BY <2>1, <2>3 DEF InOrder
<1>2. ASSUME NEW r \in Requests, NEW h \in Nat, NEW s \in Steps, AdmitDoes(r, h, s)
      PROVE  InOrder'
  <2>1. Grows(r, s) /\ status[r] \in {"waiting", "preempted"}
    BY <1>2 DEF AdmitDoes
  <2>2. \A i \in 1..L : flight[i].req # r
    BY <2>1 DEF Standing, InFlight
  <2>3. QED
    BY <1>1, <2>1, <2>2
<1>3. ASSUME NEW r \in Requests, NEW s \in Steps, ContinueDoes(r, s)
      PROVE  InOrder'
  <2>1. Grows(r, s) /\ status[r] = "running" /\ ~s.new /\ s.wire = policy[r]
    BY <1>3 DEF ContinueDoes
  <2>2. \A i \in 1..L : flight[i].req = r => flight[i].wire = policy[r]
    BY <2>1 DEF Sent
  <2>3. QED
    BY <1>1, <2>1, <2>2
<1>4. ASSUME flight' = flight
      PROVE  InOrder'
    BY <1>4 DEF InOrder
<1>5. ASSUME Output
      PROVE  InOrder'
  <2>1. /\ L >= 1 /\ Len(flight') = L - 1
        /\ \A i \in 1..(L - 1) : flight'[i] = flight[i + 1]
    BY <1>5, HeardIs DEF Output, Typed
  <2>2. ASSUME NEW i \in 1..(L - 1), NEW j \in 1..(L - 1)
        PROVE  /\ i < j /\ flight'[j].accepted # 0 => flight'[i].accepted # 0
               /\ i < j /\ flight'[i].req = flight'[j].req =>
                     ~flight'[j].new /\ flight'[i].wire = flight'[j].wire
               /\ i <= j => flight'[j].req \notin flight'[i].gone
    <3>1. /\ i + 1 \in 1..L /\ j + 1 \in 1..L /\ (i < j <=> i + 1 < j + 1)
          /\ (i <= j <=> i + 1 <= j + 1)
      BY <1>0
    <3>2. QED
      BY <2>1, <3>1, SMTT(40) DEF InOrder
  <2>3. QED
    BY <2>1, <2>2 DEF InOrder
<1>6. ASSUME NEW i, NEW acc, WorkDoes(i, acc)
      PROVE  InOrder'
  <2>1. /\ acc \in Nat \ {0} /\ i \in 1..L /\ Len(flight') = L /\ flight'[i].accepted = acc
        /\ \A j \in 1..L : j # i => flight'[j] = flight[j]
        /\ \A j \in 1..L :
              /\ flight'[j].req = flight[j].req /\ flight'[j].new = flight[j].new
              /\ flight'[j].wire = flight[j].wire /\ flight'[j].gone = flight[j].gone
    BY <1>6, SteppedIs
  <2>2. \A j \in 1..L : j < i => flight[j].accepted # 0
    <3>1. \A j \in Unseen : i <= j
      BY <1>6 DEF WorkDoes
    <3>2. QED
      BY <1>0, <2>1, <3>1 DEF Unseen
  <2>3. ASSUME NEW x \in 1..L, NEW y \in 1..L, x < y, flight'[y].accepted # 0
        PROVE  flight'[x].accepted # 0
    BY <2>1, <2>2, <2>3 DEF InOrder
  <2>4. QED
    BY <2>1, <2>3 DEF InOrder
<1>7. QED
    BY <1>2, <1>3, <1>4, <1>5, <1>6 DEF Does, Preempt, Finish, Evict, vars

\* What the worker knows is kept.
LEMMA WorkedKept ==
    ASSUME Typed, Standing, Sent, InOrder, Worked, Does
    PROVE  Worked'
<1> DEFINE L == Len(flight)
<1>0. L \in Nat /\ (\A i \in 1..L : flight[i] \in Steps) /\ Unseen \subseteq 1..L
    BY LenProperties, ElementOfSeq DEF Typed, Unseen
<1>1. ASSUME UNCHANGED <<off, worker>>,
             \A q \in Requests : status'[q] = "running" /\ Started(q)' =>
                status[q] = "running" /\ Started(q) /\ policy'[q] = policy[q],
             \A i \in Unseen' : Started(flight[i].req)' =>
                told[flight'[i].req] = flight'[i].wire
      PROVE  Worked'
  <2>1. owner' = owner /\ spec' = spec /\ told' = told /\ done' = done /\ skipped' = skipped
    BY <1>1 DEF worker
  <2>2. ASSUME NEW q \in Requests
        PROVE  /\ done'[q] <= Len(Text[q]) /\ skipped'[q] \subseteq 0..(Len(Text[q]) - 1)
               /\ told'[q] # None => /\ Fit(q, told[q])' /\ told'[q].cached <= done'[q]
                                     /\ skipped'[q] = Window(q, told[q], done[q])'
    BY <1>1, <2>1 DEF Worked, Fit, Valid, Window
  <2>3. \A q \in Requests : status'[q] = "running" /\ Started(q)' => told'[q] = policy'[q]
    BY <1>1, <2>1 DEF Worked
  <2>4. owner' # None => spec' = Configured(owner, told[owner])'
    BY <2>1 DEF Worked, Configured, Approximates
  <2>5. QED
    BY <1>1, <2>1, <2>2, <2>3, <2>4 DEF Worked
<1>2. ASSUME NEW r \in Requests, NEW h \in Nat, NEW s \in Steps, AdmitDoes(r, h, s)
      PROVE  Worked'
  <2>1. /\ Grows(r, s) /\ s.new /\ Running = {} /\ status' = [status EXCEPT ![r] = "running"]
    BY <1>2 DEF AdmitDoes
  <2>2. /\ \A i \in 1..L : flight'[i] = flight[i]
        /\ flight'[L + 1] = s /\ Unseen' = Unseen \cup {L + 1} /\ s.req = r
        /\ \A q : Started(q)' <=> Started(q) /\ ~(q = s.req /\ s.new)
        /\ UNCHANGED <<off, worker>>
    BY <2>1, GrownIs DEF Grows, Typed
  <2>3. \A q \in Requests : ~(status'[q] = "running" /\ Started(q)')
    BY <2>1, <2>2 DEF Running, Typed
  <2>4. ASSUME NEW i \in Unseen', Started(flight[i].req)'
        PROVE  told[flight'[i].req] = flight'[i].wire
    <3>1. i # L + 1
      BY <2>1, <2>2, <2>4
    <3>2. i \in Unseen /\ i \in 1..L
      BY <1>0, <2>2, <3>1
    <3>3. QED
      BY <2>2, <2>4, <3>2 DEF Worked
  <2>5. QED
    BY <1>1, <2>2, <2>3, <2>4
<1>3. ASSUME NEW r \in Requests, NEW s \in Steps, ContinueDoes(r, s)
      PROVE  Worked'
  <2>1. /\ Grows(r, s) /\ ~s.new /\ s.wire = policy[r] /\ status[r] = "running"
        /\ status' = status /\ policy' = policy
    BY <1>3 DEF ContinueDoes
  <2>2. /\ \A i \in 1..L : flight'[i] = flight[i]
        /\ flight'[L + 1] = s /\ Unseen' = Unseen \cup {L + 1} /\ s.req = r
        /\ \A q : Started(q)' <=> Started(q) /\ ~(q = s.req /\ s.new)
        /\ UNCHANGED <<off, worker>>
    BY <2>1, GrownIs DEF Grows, Typed
  <2>3. ASSUME NEW i \in Unseen', Started(flight[i].req)'
        PROVE  told[flight'[i].req] = flight'[i].wire
    <3>1. CASE i = L + 1
      BY <2>1, <2>2, <2>3, <3>1 DEF Worked
    <3>2. CASE i # L + 1
      <4>1. i \in Unseen /\ i \in 1..L
        BY <1>0, <2>2, <3>2
      <4>2. QED
        BY <2>2, <2>3, <4>1 DEF Worked
    <3>3. QED
      BY <3>1, <3>2
  <2>4. QED
    BY <1>1, <2>1, <2>2, <2>3
<1>4. ASSUME NEW r \in Requests, Preempt(r) \/ Finish(r)
      PROVE  Worked'
  <2>1. /\ flight' = flight /\ UNCHANGED <<off, worker>> /\ status'[r] # "running"
        /\ \A q \in Requests : q # r => status'[q] = status[q] /\ policy'[q] = policy[q]
    BY <1>4 DEF Preempt, Finish, Typed
  <2>2. Unseen' = Unseen /\ \A q : Started(q)' <=> Started(q)
    BY <2>1 DEF Unseen, Started
  <2>3. QED
    BY <1>1, <2>1, <2>2 DEF Worked
<1>5. ASSUME UNCHANGED <<status, policy, off, worker, flight>>
      PROVE  Worked'
  <2>1. Unseen' = Unseen /\ \A q : Started(q)' <=> Started(q)
    BY <1>5 DEF Unseen, Started
  <2>2. QED
    BY <1>1, <1>5, <2>1 DEF Worked
<1>6. ASSUME Output
      PROVE  Worked'
  <2>1. UNCHANGED <<status, off, policy, worker>>
    BY <1>6 DEF Output
  <2>2. /\ \A i \in 1..(L - 1) : flight'[i] = flight[i + 1]
        /\ \A i \in 1..(L - 1) : i \in Unseen' <=> i + 1 \in Unseen
        /\ \A q : Started(q)' <=> Started(q)
        /\ Len(flight') = L - 1
    BY <1>6, HeardIs DEF Output, Typed
  <2>3. Unseen' \subseteq 1..(L - 1)
    BY <2>2 DEF Unseen
  <2>4. ASSUME NEW i \in Unseen', Started(flight[i].req)'
        PROVE  told[flight'[i].req] = flight'[i].wire
    BY <2>2, <2>3, <2>4 DEF Worked
  <2>5. QED
    BY <1>1, <2>1, <2>2, <2>4
<1>7. ASSUME NEW i, NEW acc, WorkDoes(i, acc)
      PROVE  Worked'
  <2> DEFINE s == flight[i]
             r == s.req
             d == Place(i) + acc
  <2>1. /\ i \in Unseen /\ i \in 1..L /\ s \in Steps /\ r \in Requests
        /\ acc \in Nat \ {0} /\ acc <= s.n
        /\ \A j \in 1..L : flight'[j].req = flight[j].req /\ flight'[j].wire = flight[j].wire
        /\ Unseen' = Unseen \ {i}
        /\ \A q : q # r => (Started(q)' <=> Started(q))
    BY <1>7, SteppedIs
  <2>2. /\ Place(i) \in Nat /\ Place(i) <= s.pos /\ s.wire.cached <= Place(i)
        /\ UNCHANGED <<requests, retired>>
        /\ owner' = r /\ spec' = Configured(r, s.wire) /\ \A j \in Unseen : i <= j
    BY <1>7 DEF WorkDoes
  <2>3. \A q \in Requests :
           /\ told'[q] = IF q = r THEN s.wire ELSE IF q \in s.gone THEN None ELSE told[q]
           /\ done'[q] = IF q = r THEN d ELSE IF q \in s.gone THEN 0 ELSE done[q]
           /\ skipped'[q] = IF q = r THEN Window(r, s.wire, d)
                            ELSE IF q \in s.gone THEN {} ELSE skipped[q]
    BY <1>7 DEF WorkDoes
  <2>4. /\ Fit(r, s.wire) /\ s.pos + s.n <= Len(Text[r])
        /\ status[r] = "running" => s.wire = policy[r]
        /\ \A q \in s.gone : status[q] = "finished"
    BY <2>1 DEF Sent, Sound
  <2>5. s.pos \in Nat /\ s.n \in Nat /\ Len(Text[r]) \in Nat /\ s.wire.cached \in Nat
    BY <2>1, <2>4, PromptIs, PolicyIs DEF Steps, Fit
  <2>6. d \in Nat /\ d <= Len(Text[r]) /\ s.wire.cached <= d
    <3> HIDE DEF s, r
    <3>1. Place(i) + acc <= s.pos + s.n
      BY <2>1, <2>2, <2>5
    <3>2. QED
      BY <2>1, <2>2, <2>4, <2>5, <3>1, SMTT(40)
  <2> HIDE DEF d
  <2>7. Window(r, s.wire, d) \subseteq 0..(Len(Text[r]) - 1)
    BY <2>5, <2>6 DEF Window
  <2>8. off' = off /\ status' = status /\ policy' = policy
    BY <2>2 DEF requests
  <2>9. owner' # None => spec' = Configured(owner, told[owner])'
    <3>1. told'[r] = s.wire
      BY <2>1, <2>3
    <3>2. QED
      BY <2>1, <2>2, <3>1 DEF Configured, Approximates
  <2>10. ASSUME NEW q \in Requests
         PROVE  /\ done'[q] <= Len(Text[q]) /\ skipped'[q] \subseteq 0..(Len(Text[q]) - 1)
                /\ told'[q] # None => /\ Fit(q, told[q])' /\ told'[q].cached <= done'[q]
                                      /\ skipped'[q] = Window(q, told[q], done[q])'
    <3>1. CASE q = r
      <4>1. told'[q] = s.wire /\ done'[q] = d /\ skipped'[q] = Window(r, s.wire, d)
        BY <2>3, <3>1
      <4>2. Fit(q, told[q])'
        BY <2>4, <2>8, <3>1, <4>1 DEF Fit, Valid
      <4>3. Window(q, told[q], done[q])' = Window(r, s.wire, d)
        BY <3>1, <4>1 DEF Window
      <4>4. QED
        BY <2>6, <2>7, <3>1, <4>1, <4>2, <4>3
    <3>2. CASE q # r /\ q \in s.gone
      <4>1. told'[q] = None /\ done'[q] = 0 /\ skipped'[q] = {}
        BY <2>3, <3>2
      <4>2. 0 <= Len(Text[q])
        BY PromptIs
      <4>3. QED
        BY <4>1, <4>2
    <3>3. CASE q # r /\ q \notin s.gone
      <4>1. told'[q] = told[q] /\ done'[q] = done[q] /\ skipped'[q] = skipped[q]
        BY <2>3, <3>3
      <4>2. QED
        BY <2>8, <4>1 DEF Worked, Fit, Valid, Window
    <3>4. QED
      BY <3>1, <3>2, <3>3
  <2>11. ASSUME NEW q \in Requests, status[q] = "running", Started(q)'
         PROVE  told'[q] = policy[q]
    <3>1. CASE q = r
      BY <2>3, <2>4, <2>11, <3>1
    <3>2. CASE q # r
      <4>1. told'[q] = told[q]
        BY <2>3, <2>4, <2>11, <3>2
      <4>2. QED
        BY <2>1, <2>11, <3>2, <4>1 DEF Worked
    <3>3. QED
      BY <3>1, <3>2
  <2>12. ASSUME NEW j \in Unseen', Started(flight[j].req)'
         PROVE  told'[flight'[j].req] = flight'[j].wire
    <3>1. j \in Unseen /\ j # i /\ j \in 1..L /\ i <= j
      BY <1>0, <2>1, <2>2
    <3>2. /\ i < j /\ flight[j].req \notin s.gone
          /\ flight[j].req = r => flight[j].wire = s.wire
      BY <1>0, <2>1, <3>1 DEF InOrder
    <3>3. flight'[j].req = flight[j].req /\ flight'[j].wire = flight[j].wire
          /\ flight[j].req \in Requests
      BY <1>0, <2>1, <3>1 DEF Steps
    <3>4. CASE flight[j].req = r
      BY <2>3, <3>2, <3>3, <3>4
    <3>5. CASE flight[j].req # r
      <4>1. told'[flight[j].req] = told[flight[j].req] /\ Started(flight[j].req)
        BY <2>1, <2>3, <2>12, <3>2, <3>3, <3>5
      <4>2. QED
        BY <3>1, <3>3, <4>1 DEF Worked
    <3>6. QED
      BY <3>4, <3>5
  <2>13. QED
    BY <2>8, <2>9, <2>10, <2>11, <2>12 DEF Worked
<1>8. QED
    BY <1>2, <1>3, <1>4, <1>5, <1>6, <1>7 DEF Does, Evict, requests, vars

\* Nothing becomes bad, and no check fails.
LEMMA QuietKept ==
    ASSUME bad = {}, raised = FALSE, Does
    PROVE  bad' = {} /\ raised' = FALSE
<1>1. ASSUME NEW r \in Requests, NEW s \in Steps, Grows(r, s)
      PROVE  bad' = {} /\ raised' = FALSE
    BY <1>1 DEF Grows
<1>2. ASSUME NEW r \in Requests, Preempt(r) \/ Finish(r)
      PROVE  bad' = {} /\ raised' = FALSE
    BY <1>2 DEF Preempt, Finish
<1>3. ASSUME NEW k, Evict(k)
      PROVE  bad' = {} /\ raised' = FALSE
    BY <1>3 DEF Evict
<1>4. ASSUME Output
      PROVE  bad' = {} /\ raised' = FALSE
    BY <1>4 DEF Output
<1>5. ASSUME NEW i, NEW acc, WorkDoes(i, acc)
      PROVE  bad' = {} /\ raised' = FALSE
    BY <1>5 DEF WorkDoes
<1>6. ASSUME UNCHANGED vars
      PROVE  bad' = {} /\ raised' = FALSE
    BY <1>6 DEF vars
<1>7. QED
    BY <1>1, <1>2, <1>3, <1>4, <1>5, <1>6, ZenonT(40) DEF Does, AdmitDoes, ContinueDoes

-----------------------------------------------------------------------------
(* Where a request is, and where the scheduler takes it to be.             *)

\* How far a step takes a request.
LEMMA MovedIs ==
    ASSUME NEW r, NEW s \in Steps
    PROVE  /\ Moved(r, s) \in Nat /\ Planned(r, s) \in Nat
           /\ s.accepted = 0 => Moved(r, s) = Planned(r, s)
           /\ s.req # r => Moved(r, s) = 0 /\ Planned(r, s) = 0
           /\ s.req = r => Planned(r, s) = s.n
           /\ s.req = r /\ s.accepted # 0 => Moved(r, s) = s.accepted
  BY DEF Moved, Planned, Steps

\* A request no step is about stays where it is.
LEMMA PathStill ==
    ASSUME NEW r \in Requests, NEW fl \in Seq(Steps), NEW h \in Nat,
           \A i \in 1..Len(fl) : fl[i].req # r
    PROVE  \E at, plan \in [0..Len(fl) -> Nat] :
              Path(r, fl, at, plan) /\ at[Len(fl)] = h /\ plan[Len(fl)] = h
<1> DEFINE at == [i \in 0..Len(fl) |-> h]
<1>1. Len(fl) \in Nat /\ \A i \in 1..Len(fl) : fl[i] \in Steps
    BY LenProperties, ElementOfSeq
<1>2. at \in [0..Len(fl) -> Nat] /\ at[Len(fl)] = h /\ at[0] = h
    BY <1>1
<1>3. \A i \in 1..Len(fl) : /\ at[i] = at[i - 1] + Moved(r, fl[i])
                            /\ at[i] = at[i - 1] + Planned(r, fl[i])
  <2>1. ASSUME NEW i \in 1..Len(fl)
        PROVE  at[i] = h /\ at[i - 1] = h /\ Moved(r, fl[i]) = 0 /\ Planned(r, fl[i]) = 0
    BY <1>1, MovedIs
  <2>2. QED
    BY <2>1
<1>4. \A i \in 0..Len(fl) : at[i] = h
    OBVIOUS
<1> HIDE DEF at
<1>5. Path(r, fl, at, at)
    BY <1>1, <1>2, <1>3, <1>4 DEF Path
<1>6. QED
    BY <1>2, <1>5

\* A path goes on through one step more.
LEMMA PathOn ==
    ASSUME NEW r \in Requests, NEW fl \in Seq(Steps), NEW s \in Steps, s.accepted = 0,
           NEW fs \in Seq(Steps), Len(fs) = Len(fl) + 1, fs[Len(fl) + 1] = s,
           \A i \in 1..Len(fl) : fs[i] = fl[i],
           NEW at \in [0..Len(fl) -> Nat], NEW plan \in [0..Len(fl) -> Nat],
           Path(r, fl, at, plan),
           s.req = r => /\ plan[Len(fl)] = s.pos
                        /\ s.new => at[Len(fl)] = s.pos
                        /\ s.draft => at[Len(fl)] >= Prompt[r]
    PROVE  \E f, g \in [0..Len(fs) -> Nat] :
              /\ Path(r, fs, f, g)
              /\ \A i \in 0..Len(fl) : f[i] = at[i]
              /\ g[Len(fl) + 1] = plan[Len(fl)] + Planned(r, s)
<1> DEFINE L == Len(fl)
           m == Planned(r, s)
           f == [i \in 0..(L + 1) |-> IF i <= L THEN at[i] ELSE at[L] + m]
           g == [i \in 0..(L + 1) |-> IF i <= L THEN plan[i] ELSE plan[L] + m]
<1>1. /\ L \in Nat /\ Len(fs) = L + 1 /\ fs[L + 1] = s
      /\ \A i \in 1..L : fs[i] = fl[i]
    BY LenProperties
<1>2. m \in Nat /\ Moved(r, s) = m
    BY MovedIs
<1>3. L \in 0..L /\ 0 \in 0..L /\ at[L] \in Nat /\ plan[L] \in Nat
    BY <1>1
<1> HIDE DEF m, L
<1>4. f \in [0..(L + 1) -> Nat] /\ g \in [0..(L + 1) -> Nat]
  <2>1. \A i \in 0..(L + 1) : i <= L => i \in 0..L
    BY <1>1
  <2>2. at \in [0..L -> Nat] /\ plan \in [0..L -> Nat]
    BY DEF L
  <2>3. QED
    BY <1>2, <1>3, <2>1, <2>2
<1>5. /\ \A i \in 0..L : f[i] = at[i] /\ g[i] = plan[i]
      /\ f[L + 1] = at[L] + m /\ g[L + 1] = plan[L] + m
    BY <1>1
<1> HIDE DEF f, g
<1>6. /\ at[0] = plan[0] /\ at[L] <= plan[L]
      /\ at[L] # plan[L] => at[L] >= Prompt[r] /\ Draft > 0
      /\ \A i \in 0..L : /\ at[i] \in Nat /\ plan[i] \in Nat
                         /\ at[i] <= at[L] /\ plan[i] - at[i] <= plan[L] - at[L]
    BY <1>1, <1>3 DEF Path, L
<1>7. ASSUME NEW i \in 1..(L + 1)
      PROVE  /\ f[i] = f[i - 1] + Moved(r, fs[i]) /\ g[i] = g[i - 1] + Planned(r, fs[i])
             /\ fs[i].req = r =>
                   /\ g[i - 1] <= fs[i].pos
                   /\ g[i - 1] # fs[i].pos => f[0] >= Prompt[r] /\ Draft > 0
                   /\ fs[i].new => f[i - 1] = fs[i].pos
                   /\ fs[i].draft => f[i - 1] >= Prompt[r]
  <2>1. CASE i = L + 1
    <3>1. i - 1 = L /\ fs[i] = s /\ f[i - 1] = at[L] /\ g[i - 1] = plan[L]
      BY <1>1, <1>3, <1>5, <2>1
    <3>2. s.req = r => plan[L] = s.pos /\ (s.new => at[L] = s.pos)
                       /\ (s.draft => at[L] >= Prompt[r])
      BY DEF L
    <3>3. QED
      BY <1>2, <1>3, <1>5, <2>1, <3>1, <3>2 DEF m
  <2>2. CASE i # L + 1
    <3>1. i \in 1..L /\ i \in 0..L /\ i - 1 \in 0..L
      BY <1>1, <2>2
    <3>2. fs[i] = fl[i] /\ f[i] = at[i] /\ f[i - 1] = at[i - 1] /\ f[0] = at[0]
          /\ g[i] = plan[i] /\ g[i - 1] = plan[i - 1]
      BY <1>1, <1>3, <1>5, <3>1
    <3>3. QED
      BY <3>1, <3>2 DEF Path, L
  <2>3. QED
    BY <2>1, <2>2
<1>8. ASSUME NEW i \in 0..(L + 1)
      PROVE  f[i] <= g[i] /\ (f[i] # g[i] => f[i] >= Prompt[r] /\ Draft > 0)
  <2>1. CASE i = L + 1
    BY <1>2, <1>3, <1>5, <1>6, <2>1, PromptIs, SMTT(40)
  <2>2. CASE i # L + 1
    <3>1. i \in 0..L
      BY <1>1, <2>2
    <3>2. QED
      BY <1>5, <3>1 DEF Path, L
  <2>3. QED
    BY <2>1, <2>2
<1>9. ASSUME NEW i \in 0..(L + 1), NEW j \in 0..(L + 1), i <= j
      PROVE  f[i] <= f[j] /\ g[i] - f[i] <= g[j] - f[j]
  <2>1. CASE i = L + 1
    <3>1. j = i
      BY <1>1, <1>9, <2>1
    <3>2. f[i] \in Nat /\ g[i] \in Nat
      BY <1>4
    <3>3. QED
      BY <3>1, <3>2
  <2>2. CASE i # L + 1 /\ j = L + 1
    <3>1. i \in 0..L
      BY <1>1, <2>2
    <3>2. f[i] = at[i] /\ g[i] = plan[i] /\ f[j] = at[L] + m /\ g[j] = plan[L] + m
      BY <1>5, <2>2, <3>1
    <3>3. /\ at[i] \in Nat /\ plan[i] \in Nat
          /\ at[i] <= at[L] /\ plan[i] - at[i] <= plan[L] - at[L]
      BY <1>6, <3>1
    <3>4. QED
      BY <1>2, <1>3, <3>2, <3>3, SMTT(40)
  <2>3. CASE i # L + 1 /\ j # L + 1
    <3>1. i \in 0..L /\ j \in 0..L
      BY <1>1, <2>3
    <3>2. QED
      BY <1>5, <1>9, <3>1 DEF Path, L
  <2>4. QED
    BY <2>1, <2>2, <2>3
<1>10. f[0] = g[0]
    BY <1>3, <1>5, <1>6
<1>11. Path(r, fs, f, g)
    BY <1>1, <1>7, <1>8, <1>9, <1>10 DEF Path
<1>12. f \in [0..Len(fs) -> Nat] /\ g \in [0..Len(fs) -> Nat]
    BY <1>1, <1>4
<1>13. QED
    BY <1>5, <1>11, <1>12 DEF m, L

\* What the scheduler hears of, it leaves behind: the drafts rejected are no longer planned.
LEMMA PathTail ==
    ASSUME NEW r \in Requests, NEW fl \in Seq(Steps), Len(fl) >= 1, fl[1].accepted # 0,
           NEW at \in [0..Len(fl) -> Nat], NEW plan \in [0..Len(fl) -> Nat],
           Path(r, fl, at, plan)
    PROVE  \E f, g \in [0..Len(Tail(fl)) -> Nat] :
              /\ Path(r, Tail(fl), f, g)
              /\ \A i \in 0..(Len(fl) - 1) : f[i] = at[i + 1]
              /\ g[Len(fl) - 1] = plan[Len(fl)] - (Planned(r, fl[1]) - Moved(r, fl[1]))
<1> DEFINE L == Len(fl)
           fs == Tail(fl)
           c == plan[1] - at[1]
           f == [i \in 0..(L - 1) |-> at[i + 1]]
           g == [i \in 0..(L - 1) |-> plan[i + 1] - c]
<1>1. /\ L \in Nat /\ L >= 1 /\ Len(fs) = L - 1
      /\ \A i \in 1..(L - 1) : fs[i] = fl[i + 1]
      /\ fl[1] \in Steps
    BY HeadTailProperties, EmptySeq, LenProperties, ElementOfSeq
<1>2. /\ Moved(r, fl[1]) \in Nat /\ Planned(r, fl[1]) \in Nat
    BY <1>1, MovedIs
<1>3. 0 \in 0..L /\ 1 \in 0..L /\ 1 \in 1..L /\ 1 - 1 = 0 /\ L \in 0..L
    BY <1>1
<1>4. \A i \in 0..L : at[i] \in Nat /\ plan[i] \in Nat
    OBVIOUS
<1> HIDE DEF fs, L
<1>5. /\ at[0] = plan[0] /\ at[1] = at[0] + Moved(r, fl[1])
      /\ plan[1] = plan[0] + Planned(r, fl[1]) /\ at[1] <= plan[1]
      /\ at[1] # plan[1] => at[1] >= Prompt[r] /\ Draft > 0
      /\ at[0] <= at[1]
    BY <1>1, <1>3 DEF Path, L
<1>6. c \in Nat /\ c = Planned(r, fl[1]) - Moved(r, fl[1])
      /\ (c # 0 => at[1] >= Prompt[r] /\ Draft > 0) /\ (c = 0 <=> at[1] = plan[1])
    BY <1>2, <1>3, <1>4, <1>5
<1>7. \A i \in 1..L : c <= plan[i] - at[i] /\ plan[i] \in Nat /\ at[i] \in Nat
    BY <1>1, <1>3, <1>4 DEF Path, L
<1> HIDE DEF c
<1>8. f \in [0..(L - 1) -> Nat] /\ g \in [0..(L - 1) -> Nat]
  <2>1. ASSUME NEW i \in 0..(L - 1)
        PROVE  at[i + 1] \in Nat /\ plan[i + 1] - c \in Nat
    <3>1. i + 1 \in 1..L
      BY <1>1
    <3>2. at[i + 1] \in Nat /\ plan[i + 1] \in Nat /\ c <= plan[i + 1] - at[i + 1]
      BY <1>7, <3>1
    <3>3. QED
      BY <1>6, <3>2
  <2>2. QED
    BY <2>1
<1>9. \A i \in 0..(L - 1) : f[i] = at[i + 1] /\ g[i] = plan[i + 1] - c
    OBVIOUS
<1> HIDE DEF f, g
<1>10. ASSUME NEW i \in 1..(L - 1)
       PROVE  /\ f[i] = f[i - 1] + Moved(r, fs[i]) /\ g[i] = g[i - 1] + Planned(r, fs[i])
              /\ fs[i].req = r =>
                    /\ g[i - 1] <= fs[i].pos
                    /\ g[i - 1] # fs[i].pos => f[0] >= Prompt[r] /\ Draft > 0
                    /\ fs[i].new => f[i - 1] = fs[i].pos
                    /\ fs[i].draft => f[i - 1] >= Prompt[r]
  <2>1. /\ i + 1 \in 1..L /\ i + 1 \in 0..L /\ i \in 1..L /\ i \in 0..L /\ (i + 1) - 1 = i
        /\ i \in 0..(L - 1) /\ i - 1 \in 0..(L - 1) /\ (i - 1) + 1 = i /\ 0 \in 0..(L - 1)
    BY <1>1
  <2>2. /\ f[i] = at[i + 1] /\ g[i] = plan[i + 1] - c
        /\ f[i - 1] = at[i] /\ g[i - 1] = plan[i] - c /\ f[0] = at[1] /\ fs[i] = fl[i + 1]
    BY <1>1, <1>9, <2>1
  <2>3. /\ at[i + 1] = at[i] + Moved(r, fl[i + 1])
        /\ plan[i + 1] = plan[i] + Planned(r, fl[i + 1])
        /\ fl[i + 1].req = r =>
              /\ plan[i] <= fl[i + 1].pos
              /\ plan[i] # fl[i + 1].pos => at[0] >= Prompt[r] /\ Draft > 0
              /\ fl[i + 1].new => at[i] = fl[i + 1].pos
              /\ fl[i + 1].draft => at[i] >= Prompt[r]
    BY <2>1 DEF Path, L
  <2>4. /\ at[i] \in Nat /\ plan[i] \in Nat /\ at[i + 1] \in Nat /\ plan[i + 1] \in Nat
        /\ at[0] \in Nat /\ at[1] \in Nat
    BY <1>3, <1>4, <2>1
  <2>5. fl[i + 1] \in Steps
    BY <2>1, ElementOfSeq DEF L
  <2>6. fl[i + 1].pos \in Nat /\ Planned(r, fl[i + 1]) \in Nat /\ Moved(r, fl[i + 1]) \in Nat
    BY <2>5, MovedIs DEF Steps
  <2>7. g[i] = g[i - 1] + Planned(r, fs[i])
    BY <1>6, <2>2, <2>3, <2>4, <2>6, SMTT(40)
  <2>8. ASSUME fs[i].req = r, g[i - 1] # fs[i].pos
        PROVE  f[0] >= Prompt[r] /\ Draft > 0
    <3>1. CASE c = 0
      <4>1. plan[i] # fl[i + 1].pos
        BY <2>2, <2>4, <2>8, <3>1
      <4>2. at[0] >= Prompt[r] /\ Draft > 0
        BY <2>2, <2>3, <2>8, <4>1
      <4>3. QED
        BY <1>5, <2>2, <2>4, <4>2, PromptIs
    <3>2. CASE c # 0
      BY <1>6, <2>2, <3>2
    <3>3. QED
      BY <3>1, <3>2
  <2>9. ASSUME fs[i].req = r
        PROVE  g[i - 1] <= fs[i].pos
    <3>1. plan[i] <= fl[i + 1].pos
      BY <2>2, <2>3, <2>9
    <3>2. c \in Nat
      BY <1>6
    <3> HIDE DEF c
    <3>3. plan[i] - c <= fl[i + 1].pos
      BY <2>4, <2>6, <3>1, <3>2, SMTT(40)
    <3>4. QED
      BY <2>2, <3>3
  <2>10. QED
    BY <2>2, <2>3, <2>7, <2>8, <2>9
<1>11. ASSUME NEW i \in 0..(L - 1)
       PROVE  f[i] <= g[i] /\ (f[i] # g[i] => f[i] >= Prompt[r] /\ Draft > 0)
  <2>1. i + 1 \in 1..L /\ i + 1 \in 0..L
    BY <1>1
  <2>2. f[i] = at[i + 1] /\ g[i] = plan[i + 1] - c
    BY <1>9
  <2>3. at[i + 1] # plan[i + 1] => at[i + 1] >= Prompt[r] /\ Draft > 0
    BY <2>1 DEF Path, L
  <2>4. at[i + 1] \in Nat /\ plan[i + 1] \in Nat /\ c <= plan[i + 1] - at[i + 1]
    BY <1>7, <2>1
  <2>5. QED
    BY <1>6, <2>2, <2>3, <2>4
<1>12. ASSUME NEW i \in 0..(L - 1), NEW j \in 0..(L - 1), i <= j
       PROVE  f[i] <= f[j] /\ g[i] - f[i] <= g[j] - f[j]
  <2>1. i + 1 \in 0..L /\ j + 1 \in 0..L /\ i + 1 <= j + 1
    BY <1>1, <1>12
  <2>2. /\ f[i] = at[i + 1] /\ g[i] = plan[i + 1] - c
        /\ f[j] = at[j + 1] /\ g[j] = plan[j + 1] - c
    BY <1>9
  <2>3. /\ at[i + 1] <= at[j + 1]
        /\ plan[i + 1] - at[i + 1] <= plan[j + 1] - at[j + 1]
    BY <2>1 DEF Path, L
  <2>4. /\ at[i + 1] \in Nat /\ plan[i + 1] \in Nat /\ at[j + 1] \in Nat /\ plan[j + 1] \in Nat
    BY <1>4, <2>1
  <2>5. QED
    BY <1>6, <2>2, <2>3, <2>4, SMTT(40)
<1>13. f[0] = g[0]
  <2>1. 0 \in 0..(L - 1) /\ 0 + 1 = 1
    BY <1>1
  <2>2. QED
    BY <1>3, <1>4, <1>9, <2>1 DEF c
<1>14. Path(r, fs, f, g)
    BY <1>1, <1>10, <1>11, <1>12, <1>13 DEF Path
<1>15. f \in [0..Len(fs) -> Nat] /\ g \in [0..Len(fs) -> Nat]
    BY <1>1, <1>8
<1>16. g[L - 1] = plan[L] - (Planned(r, fl[1]) - Moved(r, fl[1]))
    BY <1>1, <1>6, <1>9
<1>17. QED
    BY <1>9, <1>14, <1>15, <1>16 DEF fs, L

\* A step that is worked on as far as acc moves all that follow back by what was rejected.
LEMMA PathBack ==
    ASSUME NEW r \in Requests, NEW fl \in Seq(Steps), NEW fs \in Seq(Steps),
           Len(fs) = Len(fl), NEW k \in 1..Len(fl), fl[k].accepted = 0,
           NEW acc \in Nat \ {0}, acc <= fl[k].n, ~fl[k].draft => acc = fl[k].n,
           fl[k].draft /\ fl[k].n > 1 => Draft > 0,
           fs[k].accepted = acc,
           \A j \in 1..Len(fl) : j # k => fs[j] = fl[j],
           fs[k].req = fl[k].req /\ fs[k].new = fl[k].new /\ fs[k].pos = fl[k].pos
              /\ fs[k].n = fl[k].n /\ fs[k].draft = fl[k].draft,
           \A j \in 1..Len(fl) : k < j /\ fl[j].req = fl[k].req => ~fl[j].new,
           NEW at \in [0..Len(fl) -> Nat], NEW plan \in [0..Len(fl) -> Nat],
           Path(r, fl, at, plan)
    PROVE  \E f \in [0..Len(fs) -> Nat] :
              /\ Path(r, fs, f, plan)
              /\ f[k] = at[k - 1] + Moved(r, fs[k])
<1> DEFINE L == Len(fl)
           c == IF fl[k].req = r THEN fl[k].n - acc ELSE 0
           f == [i \in 0..L |-> IF i >= k THEN at[i] - c ELSE at[i]]
<1>1. /\ L \in Nat /\ Len(fs) = L /\ k \in 1..L /\ k \in 0..L /\ k - 1 \in 0..L /\ 0 \in 0..L
      /\ (\A i \in 1..L : fl[i] \in Steps /\ fs[i] \in Steps)
    BY LenProperties, ElementOfSeq
<1>2. \A i \in 0..L : at[i] \in Nat /\ plan[i] \in Nat
    OBVIOUS
<1>3. fl[k].n \in Nat /\ fl[k].n # 0
    BY <1>1 DEF Steps
<1>4. c \in Nat /\ (c # 0 => fl[k].req = r /\ fl[k].draft /\ Draft > 0)
    BY <1>3
<1>5. /\ Moved(r, fl[k]) = Planned(r, fl[k]) /\ Moved(r, fl[k]) \in Nat
      /\ Moved(r, fs[k]) = Moved(r, fl[k]) - c
      /\ Moved(r, fs[k]) \in Nat /\ Planned(r, fs[k]) = Planned(r, fl[k])
    BY <1>1, <1>3, MovedIs DEF Moved, Planned
<1> HIDE DEF c, L
<1>6. /\ at[k] = at[k - 1] + Moved(r, fl[k])
      /\ (c # 0 => at[k - 1] >= Prompt[r])
      /\ (\A i \in 0..L : k <= i => at[k] <= at[i])
      /\ (\A i \in 0..L : i < k => at[i] <= at[k - 1])
  <2>1. at[k] = at[k - 1] + Moved(r, fl[k])
    BY <1>1 DEF Path, L
  <2>2. c # 0 => at[k - 1] >= Prompt[r]
    BY <1>1, <1>4 DEF Path, L
  <2>3. \A i \in 0..L : k <= i => at[k] <= at[i]
    BY <1>1 DEF Path, L
  <2>4. \A i \in 0..L : i < k => i <= k - 1
    BY <1>1
  <2>5. \A i \in 0..L : i < k => at[i] <= at[k - 1]
    BY <1>1, <2>4 DEF Path, L
  <2>6. QED
    BY <2>1, <2>2, <2>3, <2>5
<1>7. \A i \in 0..L : k <= i => at[i] - c >= at[k - 1] + Moved(r, fs[k]) /\ at[i] - c \in Nat
  <2>1. ASSUME NEW i \in 0..L, k <= i
        PROVE  at[i] - c >= at[k - 1] + Moved(r, fs[k]) /\ at[i] - c \in Nat
    <3>1. at[i] \in Nat /\ at[k] \in Nat /\ at[k - 1] \in Nat /\ at[k] <= at[i]
      BY <1>1, <1>2, <1>6, <2>1
    <3>2. QED
      BY <1>4, <1>5, <1>6, <3>1, SMTT(40)
  <2>2. QED
    BY <2>1
<1>8. f \in [0..L -> Nat]
  <2>1. \A i \in 0..L : i >= k <=> k <= i
    BY <1>1
  <2>2. QED
    BY <1>2, <1>7, <2>1
<1>9. /\ \A i \in 0..L : k <= i => f[i] = at[i] - c
      /\ \A i \in 0..L : i < k => f[i] = at[i]
      /\ f[0] = at[0]
    BY <1>1
<1> HIDE DEF f
<1>10. f[k] = at[k - 1] + Moved(r, fs[k])
    BY <1>1, <1>2, <1>4, <1>5, <1>6, <1>9, SMTT(40)
<1>11. ASSUME NEW i \in 1..L
       PROVE  /\ f[i] = f[i - 1] + Moved(r, fs[i]) /\ plan[i] = plan[i - 1] + Planned(r, fs[i])
              /\ fs[i].req = r =>
                    /\ plan[i - 1] <= fs[i].pos
                    /\ plan[i - 1] # fs[i].pos => f[0] >= Prompt[r] /\ Draft > 0
                    /\ fs[i].new => f[i - 1] = fs[i].pos
                    /\ fs[i].draft => f[i - 1] >= Prompt[r]
  <2>1. i \in 0..L /\ i - 1 \in 0..L
    BY <1>1
  <2>2. /\ at[i] = at[i - 1] + Moved(r, fl[i])
        /\ plan[i] = plan[i - 1] + Planned(r, fl[i])
        /\ fl[i].req = r =>
              /\ plan[i - 1] <= fl[i].pos
              /\ plan[i - 1] # fl[i].pos => at[0] >= Prompt[r] /\ Draft > 0
              /\ fl[i].new => at[i - 1] = fl[i].pos
              /\ fl[i].draft => at[i - 1] >= Prompt[r]
    BY DEF Path, L
  <2>3. CASE i = k
    <3>1. i - 1 < k
      BY <1>1, <2>3
    <3>2. f[i - 1] = at[i - 1]
      BY <1>9, <2>1, <3>1
    <3>3. QED
      BY <1>5, <1>9, <1>10, <2>2, <2>3, <3>2
  <2>4. CASE i < k
    <3>1. i - 1 < k /\ i # k
      BY <1>1, <2>4
    <3>2. f[i - 1] = at[i - 1] /\ f[i] = at[i]
      BY <1>9, <2>1, <2>4, <3>1
    <3>3. fs[i] = fl[i]
      BY <3>1 DEF L
    <3>4. QED
      BY <1>9, <2>2, <3>2, <3>3
  <2>5. CASE k < i
    <3>1. k <= i - 1 /\ k <= i /\ fs[i] = fl[i]
      <4>1. k <= i - 1 /\ k <= i /\ i # k
        BY <1>1, <2>5
      <4>2. fs[i] = fl[i]
        BY <4>1 DEF L
      <4>3. QED
        BY <4>1, <4>2
    <3>2. f[i - 1] = at[i - 1] - c /\ f[i] = at[i] - c
      BY <1>9, <2>1, <3>1
    <3>3. at[i - 1] \in Nat /\ at[i] \in Nat /\ Moved(r, fl[i]) \in Nat
      BY <1>1, <1>2, <2>1, MovedIs
    <3>4. f[i] = f[i - 1] + Moved(r, fs[i])
      BY <1>4, <2>2, <3>1, <3>2, <3>3
    <3>5. CASE c = 0
      BY <1>9, <2>2, <3>1, <3>2, <3>3, <3>4, <3>5
    <3>6. CASE c # 0
      <4>1. fl[i].req = r => ~fl[i].new
        BY <1>4, <2>5, <3>6 DEF L
      <4>2. at[i - 1] - c >= at[k - 1] + Moved(r, fs[k]) /\ at[k - 1] >= Prompt[r]
            /\ at[k - 1] \in Nat
        BY <1>1, <1>2, <1>6, <1>7, <2>1, <3>1, <3>6
      <4>3. f[i - 1] >= Prompt[r]
        <5>1. c \in Nat /\ Moved(r, fs[k]) \in Nat /\ Prompt[r] \in Nat
          BY <1>4, <1>5, PromptIs
        <5>2. \A a, b, d, m, n \in Nat : a - d >= b + m /\ b >= n => a - d >= n
          OBVIOUS
        <5> HIDE DEF c, f
        <5>3. at[i - 1] - c >= Prompt[r]
          BY <3>3, <4>2, <5>1, <5>2
        <5>4. QED
          BY <3>2, <5>3
      <4>4. QED
        BY <1>9, <2>2, <3>1, <3>4, <4>1, <4>3
    <3>7. QED
      BY <3>5, <3>6
  <2>6. QED
    BY <1>1, <2>3, <2>4, <2>5
<1>12. ASSUME NEW i \in 0..L
       PROVE  f[i] <= plan[i] /\ (f[i] # plan[i] => f[i] >= Prompt[r] /\ Draft > 0)
  <2>1. /\ at[i] <= plan[i] /\ (at[i] # plan[i] => at[i] >= Prompt[r] /\ Draft > 0)
        /\ at[i] \in Nat /\ plan[i] \in Nat
    BY <1>2 DEF Path, L
  <2>2. CASE i < k
    BY <1>9, <2>1, <2>2
  <2>3. CASE k <= i
    <3>1. f[i] = at[i] - c /\ at[i] - c >= at[k - 1] + Moved(r, fs[k])
      BY <1>7, <1>9, <2>3
    <3>2. CASE c = 0
      BY <2>1, <3>1, <3>2
    <3>3. CASE c # 0
      <4>1. at[k - 1] >= Prompt[r] /\ at[k - 1] \in Nat /\ Draft > 0
        BY <1>1, <1>2, <1>4, <1>6, <3>3
      <4>2. c \in Nat /\ Moved(r, fs[k]) \in Nat /\ Prompt[r] \in Nat
        BY <1>4, <1>5, PromptIs
      <4>3. f[i] <= plan[i] /\ f[i] >= Prompt[r]
        BY <2>1, <3>1, <4>1, <4>2, SMTT(40)
      <4>4. QED
        BY <4>1, <4>3
    <3>4. QED
      BY <3>2, <3>3
  <2>4. QED
    BY <1>1, <2>2, <2>3
<1>13. ASSUME NEW i \in 0..L, NEW j \in 0..L, i <= j
       PROVE  f[i] <= f[j] /\ plan[i] - f[i] <= plan[j] - f[j]
  <2>1. /\ at[i] <= at[j] /\ plan[i] - at[i] <= plan[j] - at[j]
        /\ at[i] \in Nat /\ plan[i] \in Nat /\ at[j] \in Nat /\ plan[j] \in Nat
    BY <1>2, <1>13 DEF Path, L
  <2>2. CASE k <= i
    <3>1. k <= j
      BY <1>1, <1>13, <2>2
    <3>2. f[i] = at[i] - c /\ f[j] = at[j] - c
      BY <1>9, <2>2, <3>1
    <3>3. c \in Nat
      BY <1>4
    <3>4. QED
      BY <2>1, <3>2, <3>3, SMTT(40)
  <2>3. CASE i < k /\ k <= j
    <3>1. f[i] = at[i] /\ f[j] = at[j] - c
      BY <1>9, <2>3
    <3>2. at[i] <= at[k - 1] /\ at[j] - c >= at[k - 1] + Moved(r, fs[k]) /\ at[k - 1] \in Nat
      BY <1>1, <1>2, <1>6, <1>7, <2>3
    <3>3. c \in Nat /\ Moved(r, fs[k]) \in Nat
      BY <1>4, <1>5
    <3>4. at[i] <= at[j] - c
      BY <2>1, <3>2, <3>3, SMTT(40)
    <3>5. plan[i] - at[i] <= plan[j] - (at[j] - c)
      BY <2>1, <3>3, SMTT(40)
    <3>6. QED
      BY <3>1, <3>4, <3>5
  <2>4. CASE i < k /\ j < k
    BY <1>9, <2>1, <2>4
  <2>5. QED
    BY <1>1, <2>2, <2>3, <2>4
<1>14. f[0] = plan[0]
    BY <1>9 DEF Path
<1>15. Path(r, fs, f, plan)
    BY <1>1, <1>11, <1>12, <1>13, <1>14 DEF Path
<1>16. QED
    BY <1>1, <1>8, <1>10, <1>15

\* A path goes on through a step that is sent.
LEMMA TracksOn ==
    ASSUME Typed, NEW r \in Requests, NEW s \in Steps, Grows(r, s), NEW q \in Requests,
           NEW at \in [0..Len(flight) -> Nat], NEW plan \in [0..Len(flight) -> Nat],
           Path(q, flight, at, plan),
           \A i \in 0..Len(flight) :
              Started(q) /\ Split(i) /\ ~(q = r /\ s.new) => at[i] = done[q],
           q = r => /\ plan[Len(flight)] = s.pos
                    /\ s.new => at[Len(flight)] = s.pos
                    /\ s.draft => at[Len(flight)] >= Prompt[q],
           q # r /\ status'[q] = "running" => plan[Len(flight)] = computed[q]
    PROVE  \E f, g \in [0..Len(flight') -> Nat] : Tracks(q, f, g)'
<1> DEFINE L == Len(flight)
<1>1. /\ s.req = r /\ s.accepted = 0 /\ flight' = Append(flight, s) /\ done' = done
      /\ computed' = [computed EXCEPT ![r] = s.pos + s.n] /\ flight \in Seq(Steps)
    BY DEF Grows, worker, Typed
<1>2. /\ flight' \in Seq(Steps) /\ L \in Nat /\ Len(flight') = L + 1 /\ flight'[L + 1] = s
      /\ \A i \in 1..L : flight'[i] = flight[i]
      /\ Started(q)' <=> Started(q) /\ ~(q = r /\ s.new)
    BY <1>1, GrownIs
<1>3. PICK f \in [0..Len(flight') -> Nat], g \in [0..Len(flight') -> Nat] :
         /\ Path(q, flight', f, g)
         /\ \A i \in 0..L : f[i] = at[i]
         /\ g[L + 1] = plan[L] + Planned(q, s)
  <2>0. /\ s.accepted = 0 /\ flight \in Seq(Steps) /\ flight' \in Seq(Steps)
        /\ Len(flight') = Len(flight) + 1 /\ flight'[Len(flight) + 1] = s
        /\ \A i \in 1..Len(flight) : flight'[i] = flight[i]
    BY <1>1, <1>2
  <2>1. s.req = q => /\ plan[Len(flight)] = s.pos
                     /\ s.new => at[Len(flight)] = s.pos
                     /\ s.draft => at[Len(flight)] >= Prompt[q]
    BY <1>1
  <2>2. \E f, g \in [0..Len(flight') -> Nat] :
           /\ Path(q, flight', f, g)
           /\ \A i \in 0..Len(flight) : f[i] = at[i]
           /\ g[Len(flight) + 1] = plan[Len(flight)] + Planned(q, s)
    BY <2>0, <2>1, PathOn
  <2>3. QED
    BY <2>2
<1>4. ASSUME NEW i \in 0..(L + 1), Split(i)', Started(q)'
      PROVE  f[i] = done'[q]
  <2>1. i # L + 1
    BY <1>1, <1>2, <1>4 DEF Split
  <2>2. i \in 0..L
    BY <1>2, <2>1
  <2>3. Split(i)
    <3>1. \A j \in 1..i : j \in 1..L /\ j \in 1..(L + 1)
      BY <1>2, <2>2
    <3>2. \A j \in (i + 1)..L : j \in 1..L /\ j \in (i + 1)..(L + 1)
      BY <1>2, <2>2
    <3>3. QED
      BY <1>2, <1>4, <3>1, <3>2 DEF Split
  <2>4. QED
    BY <1>1, <1>2, <1>3, <1>4, <2>2, <2>3
<1>5. ASSUME status'[q] = "running"
      PROVE  g[L + 1] = computed'[q]
  <2>1. CASE q = r
    BY <1>1, <1>3, <2>1, MovedIs DEF Typed
  <2>2. CASE q # r
    <3>1. computed'[q] = computed[q] /\ plan[L] = computed[q] /\ Planned(q, s) = 0
      BY <1>1, <1>5, <2>2, MovedIs DEF Typed
    <3>2. computed[q] \in Nat
      BY DEF Typed
    <3>3. QED
      BY <1>3, <3>1, <3>2
  <2>3. QED
    BY <2>1, <2>2
<1>6. Tracks(q, f, g)'
    BY <1>2, <1>3, <1>4, <1>5 DEF Tracks
<1>7. QED
    BY <1>3, <1>6

\* Where every request is, and is taken to be, is kept.
LEMMA TrackedKept ==
    ASSUME Typed, Standing, Sent, InOrder, Worked, Tracked, Does
    PROVE  Tracked'
<1> DEFINE L == Len(flight)
<1>0. L \in Nat /\ (\A i \in 1..L : flight[i] \in Steps) /\ Unseen \subseteq 1..L
    BY LenProperties, ElementOfSeq DEF Typed, Unseen
<1>1. ASSUME NEW r \in Requests, NEW h \in Nat, NEW s \in Steps, AdmitDoes(r, h, s)
      PROVE  Tracked'
  <2>1. /\ Grows(r, s) /\ s.pos = h /\ s.new /\ ~s.draft /\ Running = {}
        /\ status[r] \in {"waiting", "preempted"} /\ s.req = r
        /\ status' = [status EXCEPT ![r] = "running"]
    BY <1>1 DEF AdmitDoes, Grows
  <2>2. /\ \A i \in 1..L : flight'[i] = flight[i]
        /\ flight'[L + 1] = s /\ Unseen' = Unseen \cup {L + 1}
    BY <2>1, GrownIs DEF Grows, Typed
  <2>3. ASSUME NEW q \in Requests, Live(q)'
        PROVE  \E f, g \in [0..Len(flight') -> Nat] : Tracks(q, f, g)'
    <3>1. CASE q = r
      <4>1. \A i \in 1..L : flight[i].req # r
        BY <2>1 DEF Standing, InFlight
      <4>2. PICK at \in [0..L -> Nat], plan \in [0..L -> Nat] :
               Path(r, flight, at, plan) /\ at[L] = h /\ plan[L] = h
        BY <4>1, PathStill DEF Typed
      <4>3. QED
        BY <2>1, <3>1, <4>2, TracksOn
    <3>2. CASE q # r
      <4>1. status'[q] # "running"
        BY <2>1, <3>2 DEF Running, Typed
      <4>2. PICK i \in Unseen' : flight'[i].req = q
        BY <2>3, <4>1 DEF Live
      <4>3. i \in Unseen /\ i \in 1..L
        BY <1>0, <2>1, <2>2, <3>2, <4>2
      <4>4. Live(q)
        BY <2>2, <4>2, <4>3 DEF Live
      <4>5. PICK at \in [0..L -> Nat], plan \in [0..L -> Nat] : Tracks(q, at, plan)
        BY <4>4 DEF Tracked
      <4>6. Path(q, flight, at, plan)
            /\ \A j \in 0..L : Started(q) /\ Split(j) => at[j] = done[q]
        BY <4>5 DEF Tracks
      <4>7. QED
        BY <2>1, <3>2, <4>1, <4>6, TracksOn
    <3>3. QED
      BY <3>1, <3>2
  <2>4. QED
    BY <2>3 DEF Tracked
<1>2. ASSUME NEW r \in Requests, NEW s \in Steps, ContinueDoes(r, s)
      PROVE  Tracked'
  <2>1. /\ Grows(r, s) /\ s.pos = computed[r] /\ ~s.new /\ s.req = r
        /\ (s.draft => s.pos >= Prompt[r]) /\ status[r] = "running" /\ status' = status
    BY <1>2 DEF ContinueDoes, Grows
  <2>2. /\ \A i \in 1..L : flight'[i] = flight[i]
        /\ flight'[L + 1] = s /\ Unseen' = Unseen \cup {L + 1}
    BY <2>1, GrownIs DEF Grows, Typed
  <2>3. ASSUME NEW q \in Requests, Live(q)'
        PROVE  \E f, g \in [0..Len(flight') -> Nat] : Tracks(q, f, g)'
    <3>1. Live(q)
      <4>1. CASE status[q] = "running"
        BY <4>1 DEF Live
      <4>2. CASE status[q] # "running"
        <5>1. PICK i \in Unseen' : flight'[i].req = q
          BY <2>1, <2>3, <4>2 DEF Live
        <5>2. i \in Unseen /\ i \in 1..L
          BY <1>0, <2>1, <2>2, <4>2, <5>1
        <5>3. QED
          BY <2>2, <5>1, <5>2 DEF Live
      <4>3. QED
        BY <4>1, <4>2
    <3>2. PICK at \in [0..L -> Nat], plan \in [0..L -> Nat] : Tracks(q, at, plan)
      BY <3>1 DEF Tracked
    <3>3. /\ Path(q, flight, at, plan)
          /\ \A j \in 0..L : Started(q) /\ Split(j) => at[j] = done[q]
          /\ status[q] = "running" => plan[L] = computed[q]
      BY <3>2 DEF Tracks
    <3>4. s.draft /\ q = r => at[L] >= Prompt[q]
      <4>1. L \in 0..L /\ at[L] \in Nat /\ plan[L] \in Nat /\ Prompt[q] \in Nat
        BY <1>0, PromptIs
      <4>2. at[L] # plan[L] => at[L] >= Prompt[q]
        BY <3>3, <4>1 DEF Path
      <4>3. QED
        BY <2>1, <3>3, <4>1, <4>2
    <3>5. QED
      BY <2>1, <3>3, <3>4, TracksOn, SMTT(40)
  <2>4. QED
    BY <2>3 DEF Tracked
<1>3. ASSUME flight' = flight, done' = done,
             \A q \in Requests : status'[q] = "running" =>
                status[q] = "running" /\ computed'[q] = computed[q]
      PROVE  Tracked'
  <2>1. Unseen' = Unseen /\ (\A q : Started(q)' <=> Started(q))
        /\ (\A i : Split(i)' <=> Split(i))
    BY <1>3 DEF Unseen, Started, Split
  <2>2. ASSUME NEW q \in Requests, Live(q)'
        PROVE  \E f, g \in [0..Len(flight') -> Nat] : Tracks(q, f, g)'
    <3>1. Live(q)
      BY <1>3, <2>1, <2>2 DEF Live
    <3>2. PICK at \in [0..L -> Nat], plan \in [0..L -> Nat] : Tracks(q, at, plan)
      BY <3>1 DEF Tracked
    <3>3. Tracks(q, at, plan)'
      BY <1>3, <2>1, <3>2 DEF Tracks
    <3>4. QED
      BY <1>3, <3>3
  <2>3. QED
    BY <2>2 DEF Tracked
<1>4. ASSUME NEW r \in Requests, Preempt(r) \/ Finish(r)
      PROVE  Tracked'
  <2>1. /\ flight' = flight /\ done' = done /\ status'[r] # "running"
        /\ \A q \in Requests : q # r => status'[q] = status[q] /\ computed'[q] = computed[q]
    BY <1>4 DEF Preempt, Finish, worker, Typed
  <2>2. QED
    BY <1>3, <2>1
<1>5. ASSUME Output
      PROVE  Tracked'
  <2> DEFINE s == flight[1]
             c == s.n - s.accepted
  <2>1. /\ L >= 1 /\ s \in Steps /\ s.req \in Requests /\ s.accepted # 0
        /\ flight' = Tail(flight)
        /\ computed' = IF status[s.req] = "running"
                       THEN [computed EXCEPT ![s.req] = @ - (s.n - s.accepted)] ELSE computed
    BY <1>5, OutputIs
  <2>2. /\ Len(flight') = L - 1
        /\ \A i \in 1..(L - 1) : flight'[i] = flight[i + 1]
        /\ \A i \in 1..(L - 1) : i \in Unseen' <=> i + 1 \in Unseen
        /\ \A q : Started(q)' <=> Started(q)
    BY <1>5, HeardIs DEF Output, Typed
  <2>3. done' = done /\ status' = status
    BY <1>5 DEF Output, worker
  <2>4. Unseen' \subseteq 1..(L - 1)
    BY <2>2 DEF Unseen
  <2>5. ASSUME NEW i \in 0..(L - 1), Split(i)'
        PROVE  Split(i + 1) /\ i + 1 \in 0..L
    <3>1. i + 1 \in 0..L
      BY <1>0
    <3>2. ASSUME NEW j \in 1..(i + 1)
          PROVE  flight[j].accepted # 0
      <4>1. CASE j = 1
        BY <2>1, <4>1
      <4>2. CASE j # 1
        <5>1. j - 1 \in 1..i /\ j - 1 \in 1..(L - 1) /\ (j - 1) + 1 = j
          BY <1>0, <4>2
        <5>2. flight'[j - 1] = flight[j]
          BY <2>2, <5>1
        <5>3. QED
          BY <2>5, <5>1, <5>2 DEF Split
      <4>3. QED
        BY <4>1, <4>2
    <3>3. ASSUME NEW j \in ((i + 1) + 1)..L
          PROVE  flight[j].accepted = 0
      <4>1. j - 1 \in (i + 1)..(L - 1) /\ j - 1 \in 1..(L - 1) /\ (j - 1) + 1 = j
        BY <1>0
      <4>2. flight'[j - 1] = flight[j]
        BY <2>2, <4>1
      <4>3. QED
        BY <2>2, <2>5, <4>1, <4>2 DEF Split
    <3>4. QED
      BY <3>1, <3>2, <3>3 DEF Split
  <2> HIDE DEF s
  <2>6. ASSUME NEW q \in Requests, Live(q)'
        PROVE  \E f, g \in [0..Len(flight') -> Nat] : Tracks(q, f, g)'
    <3>1. Live(q)
      BY <2>2, <2>3, <2>4, <2>6 DEF Live
    <3>2. PICK at \in [0..L -> Nat], plan \in [0..L -> Nat] : Tracks(q, at, plan)
      BY <3>1 DEF Tracked
    <3>3. Path(q, flight, at, plan)
      BY <3>2 DEF Tracks
    <3>4. PICK f \in [0..Len(flight') -> Nat], g \in [0..Len(flight') -> Nat] :
             /\ Path(q, flight', f, g)
             /\ \A i \in 0..(L - 1) : f[i] = at[i + 1]
             /\ g[L - 1] = plan[L] - (Planned(q, s) - Moved(q, s))
      BY <2>1, <3>3, PathTail DEF Typed, s
    <3>5. ASSUME NEW i \in 0..(L - 1), Split(i)', Started(q)'
          PROVE  f[i] = done'[q]
      BY <2>2, <2>3, <2>5, <3>2, <3>4, <3>5 DEF Tracks
    <3>6. ASSUME status[q] = "running"
          PROVE  g[L - 1] = computed'[q]
      <4>1. plan[L] = computed[q] /\ computed[q] \in Nat
        BY <3>2, <3>6 DEF Tracks, Typed
      <4>2. s.n \in Nat /\ s.accepted \in Nat
        BY <2>1 DEF Steps
      <4>3. CASE s.req = q
        <5>1. computed'[q] = computed[q] - (s.n - s.accepted)
          BY <2>1, <3>6, <4>3 DEF Typed
        <5>2. Planned(q, s) = s.n /\ Moved(q, s) = s.accepted
          BY <2>1, <4>3, MovedIs
        <5>3. QED
          BY <3>4, <4>1, <5>1, <5>2
      <4>4. CASE s.req # q
        <5>1. computed'[q] = computed[q]
          BY <2>1, <4>4 DEF Typed
        <5>2. Planned(q, s) = 0 /\ Moved(q, s) = 0
          BY <2>1, <4>4, MovedIs
        <5>3. QED
          BY <3>4, <4>1, <5>1, <5>2
      <4>5. QED
        BY <4>3, <4>4
    <3>7. Tracks(q, f, g)'
      BY <2>2, <2>3, <3>4, <3>5, <3>6 DEF Tracks
    <3>8. QED
      BY <3>4, <3>7
  <2>7. QED
    BY <2>6 DEF Tracked
<1>6. ASSUME NEW k, NEW acc, WorkDoes(k, acc)
      PROVE  Tracked'
  <2> DEFINE s == flight[k]
             r == s.req
  <2>1. /\ k \in Unseen /\ k \in 1..L /\ s \in Steps /\ r \in Requests /\ s.accepted = 0
        /\ acc \in Nat \ {0} /\ acc <= s.n /\ (~s.draft => acc = s.n)
        /\ flight' \in Seq(Steps) /\ Len(flight') = L
        /\ \A j \in 1..L : j # k => flight'[j] = flight[j]
        /\ flight'[k].accepted = acc
        /\ \A j \in 1..L :
              /\ flight'[j].req = flight[j].req /\ flight'[j].new = flight[j].new
              /\ flight'[j].pos = flight[j].pos /\ flight'[j].n = flight[j].n
              /\ flight'[j].draft = flight[j].draft
        /\ Unseen' = Unseen \ {k}
        /\ \A q : q # r => (Started(q)' <=> Started(q))
    BY <1>6, SteppedIs
  <2>2. /\ \A j \in Unseen : k <= j
        /\ status' = status /\ computed' = computed
        /\ \A q \in Requests : done'[q] = IF q = r THEN Place(k) + acc
                                          ELSE IF q \in s.gone THEN 0 ELSE done[q]
    BY <1>6 DEF WorkDoes, requests
  <2>3. Split(k - 1) /\ (~s.new => Started(r))
    BY <2>1, <2>2, FrontIs
  <2>4. s.draft /\ s.n > 1 => Draft > 0
    BY <2>1 DEF Sent, Sound
  <2>5. \A j \in 1..L : k < j /\ flight[j].req = r => ~flight[j].new
    BY <2>1 DEF InOrder
  <2>6. ASSUME NEW i \in 0..L, Split(i)'
        PROVE  i = k
    <3>1. CASE i < k
      <4>1. k \in (i + 1)..L
        BY <1>0, <2>1, <3>1
      <4>2. QED
        BY <2>1, <2>6, <4>1 DEF Split
    <3>2. CASE k < i
      <4>1. i \in 1..i /\ i \in 1..L /\ i # k /\ i \in ((k - 1) + 1)..L
        BY <1>0, <2>1, <3>2
      <4>2. flight'[i].accepted # 0 /\ flight'[i] = flight[i] /\ flight[i].accepted = 0
        BY <2>1, <2>3, <2>6, <4>1 DEF Split
      <4>3. QED
        BY <4>2
    <3>3. QED
      BY <1>0, <2>1, <3>1, <3>2
  <2>7. ASSUME NEW q \in Requests, Live(q)'
        PROVE  \E f, g \in [0..Len(flight') -> Nat] : Tracks(q, f, g)'
    <3>1. Live(q)
      BY <1>0, <2>1, <2>2, <2>7 DEF Live
    <3>2. PICK at \in [0..L -> Nat], plan \in [0..L -> Nat] : Tracks(q, at, plan)
      BY <3>1 DEF Tracked
    <3>3. Path(q, flight, at, plan) /\ (status[q] = "running" => plan[L] = computed[q])
      BY <3>2 DEF Tracks
    <3>4. PICK f \in [0..L -> Nat] :
             Path(q, flight', f, plan) /\ f[k] = at[k - 1] + Moved(q, flight'[k])
      <4>1. flight \in Seq(Steps)
        BY DEF Typed
      <4>2. QED
        BY <2>1, <2>4, <2>5, <3>3, <4>1, PathBack
    <3>5. k - 1 \in 0..L
      BY <1>0, <2>1
    <3>6. Started(q)' => f[k] = done'[q]
      <4>1. CASE q = r
        <5>1. at[k - 1] = Place(k)
          <6>1. CASE s.new
            BY <2>1, <3>3, <4>1, <6>1 DEF Path, Place
          <6>2. CASE ~s.new
            BY <2>3, <3>2, <3>5, <4>1, <6>2 DEF Tracks, Place
          <6>3. QED
            BY <6>1, <6>2
        <5>2. Moved(q, flight'[k]) = acc
          BY <2>1, <4>1 DEF Moved
        <5>3. QED
          BY <2>2, <3>4, <4>1, <5>1, <5>2
      <4>2. CASE q # r
        <5>1. q \notin s.gone
          <6>1. CASE status[q] = "running"
            BY <2>1, <6>1 DEF Sent
          <6>2. CASE status[q] # "running"
            <7>1. PICK j \in Unseen : flight[j].req = q
              BY <3>1, <6>2 DEF Live
            <7>2. j \in 1..L /\ k <= j
              BY <1>0, <2>2
            <7>3. QED
              BY <2>1, <7>1, <7>2 DEF InOrder
          <6>3. QED
            BY <6>1, <6>2
        <5>2. done'[q] = done[q]
          BY <2>2, <4>2, <5>1
        <5>3. Started(q)' => at[k - 1] = done[q]
          BY <2>1, <2>3, <3>2, <3>5, <4>2 DEF Tracks
        <5>4. Moved(q, flight'[k]) = 0
          BY <2>1, <4>2 DEF Moved
        <5>5. done[q] \in Nat
          BY DEF Typed
        <5>6. QED
          BY <3>4, <5>2, <5>3, <5>4, <5>5
      <4>3. QED
        BY <4>1, <4>2
    <3>7. Tracks(q, f, plan)'
      BY <2>1, <2>2, <2>6, <3>3, <3>4, <3>6 DEF Tracks
    <3>8. QED
      BY <2>1, <3>7
  <2>8. QED
    BY <2>7 DEF Tracked
<1>7. QED
    BY <1>1, <1>2, <1>3, <1>4, <1>5, <1>6 DEF Does, Evict, requests, vars, worker

-----------------------------------------------------------------------------
(* The theorems.                                                           *)

\* The invariant holds at the start: nothing is in flight, and nothing is known.
LEMMA InitInv ==
    Init => IInv
<1> SUFFICES ASSUME Init PROVE IInv
    OBVIOUS
<1>1. \A r \in Requests : /\ policy[r] = None /\ told[r] = None /\ status[r] = "waiting"
                          /\ computed[r] = 0 /\ upto[r] = 0 /\ done[r] = 0
                          /\ known[r] = Prompt[r] /\ skipped[r] = {}
    BY DEF Init
<1>2. flight = <<>> /\ Len(flight) = 0 /\ 1..Len(flight) = {} /\ Unseen = {}
    BY DEF Init, Unseen
<1>3. Typed
  <2>1. None \in SomePolicy
    BY DEF SomePolicy
  <2>2. Prompt \in [Requests -> Nat]
    BY ApcAssumption
  <2>3. flight \in Seq(Steps)
    BY <1>2, EmptySeq
  <2>4. QED
    BY <2>1, <2>2, <2>3 DEF Init, Typed
<1>4. Standing
  <2>1. \A r \in Requests : ~InFlight(r) /\ 0 <= Len(Text[r])
                            /\ Prompt[r] \in Prompt[r]..Len(Text[r])
    BY <1>2, PromptIs DEF InFlight
  <2>2. QED
    BY <1>1, <2>1 DEF Standing
<1>5. Running = {}
    BY <1>1 DEF Running
<1>6. Entered
    BY <1>5 DEF Entered, Init
<1>7. Sent
    BY <1>2, ApcAssumption DEF Sent, Init
<1>8. InOrder
    BY <1>2 DEF InOrder
<1>9. Worked
  <2>1. \A r \in Requests : 0 <= Len(Text[r])
    BY PromptIs
  <2>2. owner = None
    BY DEF Init
  <2>3. QED
    BY <1>1, <1>2, <2>1, <2>2 DEF Worked
<1>10. Tracked
    BY <1>1, <1>2 DEF Tracked, Live
<1>11. bad = {} /\ raised = FALSE
    BY DEF Init
<1>12. QED
    BY <1>3, <1>4, <1>6, <1>7, <1>8, <1>9, <1>10, <1>11 DEF IInv

\* Every step keeps the invariant.
LEMMA StepInv ==
    IInv /\ [Next]_vars => IInv'
<1> SUFFICES ASSUME IInv, [Next]_vars PROVE IInv'
    OBVIOUS
<1>1. /\ Typed /\ Standing /\ Entered /\ Sent /\ InOrder /\ Worked /\ Tracked
      /\ bad = {} /\ raised = FALSE
    BY DEF IInv
<1>2. Does
    BY StepIs
<1>3. QED
    BY <1>1, <1>2, TypedKept, StandingKept, EnteredKept, SentKept, InOrderKept, WorkedKept,
       TrackedKept, QuietKept DEF IInv

\* The invariant is inductive: however the scheduler runs ahead of the worker, each knows of a
\* request what the other does, up to the drafts not yet heard of.
THEOREM Inductive == Spec => []IInv
<1>1. QED
    BY InitInv, StepInv, PTL DEF Spec

\* Where a request has begun, the scheduler has planned all the worker has done.
LEMMA DoneIsPlanned ==
    ASSUME IInv, NEW r \in Running, Started(r)
    PROVE  done[r] \in Nat /\ computed[r] \in Nat /\ done[r] <= computed[r]
<1>1. Typed /\ InOrder /\ Tracked /\ r \in Requests /\ status[r] = "running"
    BY DEF IInv, Running
<1>2. PICK at \in [0..Len(flight) -> Nat], plan \in [0..Len(flight) -> Nat] :
         Tracks(r, at, plan)
    BY <1>1 DEF Tracked, Live
<1>3. Len(flight) \in Nat /\ Len(flight) \in 0..Len(flight)
    BY <1>1, LenProperties DEF Typed
<1>4. \E k \in 0..Len(flight) : Split(k)
  <2>1. CASE Unseen = {}
    <3>1. Split(Len(flight))
      BY <1>3, <2>1 DEF Split, Unseen
    <3>2. QED
      BY <1>3, <3>1
  <2>2. CASE Unseen # {}
    <3>1. Unseen \in SUBSET Nat
      BY <1>3 DEF Unseen
    <3>2. PICK i \in Unseen : \A j \in Unseen : i <= j
      BY <2>2, <3>1, LeastOf
    <3>3. i \in 1..Len(flight) /\ Split(i - 1)
      BY <1>1, <3>2, FrontIs
    <3>4. QED
      BY <1>3, <3>3
  <2>3. QED
    BY <2>1, <2>2
<1>5. PICK k \in 0..Len(flight) : Split(k)
    BY <1>4
<1>6. at[k] = done[r] /\ plan[Len(flight)] = computed[r]
    BY <1>1, <1>2, <1>5 DEF Tracks
<1>7. at[k] <= at[Len(flight)] /\ at[Len(flight)] <= plan[Len(flight)]
    BY <1>2, <1>3, <1>5 DEF Tracks, Path
<1>8. at[k] \in Nat /\ at[Len(flight)] \in Nat /\ plan[Len(flight)] \in Nat
    BY <1>3
<1>9. QED
    BY <1>6, <1>7, <1>8

\* The type invariant.
LEMMA InvTypes ==
    IInv => TypeOK
<1> SUFFICES ASSUME IInv PROVE TypeOK
    OBVIOUS
<1>1. /\ Typed /\ Standing /\ Entered /\ Sent /\ Worked /\ bad = {} /\ raised = FALSE
    BY DEF IInv
<1>2. \A r \in Requests :
         /\ policy[r] # None => Fit(r, policy[r])
         /\ told[r] # None => Fit(r, told[r])
         /\ wire[r] = policy[r]
    BY <1>1 DEF Standing, Worked, Typed
<1>3. \A f \in {policy, wire, told} : \A r \in Requests :
          f[r] # None => f[r] \in Policies /\ f[r].cached <= Prompt[r] /\ Valid(r, f[r])
    BY <1>1, <1>2 DEF Fit, Typed
<1>4. ASSUME NEW r \in Requests
      PROVE  /\ computed[r] \in 0..Len(Text[r]) /\ known[r] \in 0..Len(Text[r])
             /\ upto[r] \in 0..Len(Text[r]) /\ done[r] \in 0..Len(Text[r])
  <2>1. /\ computed[r] \in Nat /\ known[r] \in Nat /\ upto[r] \in Nat /\ done[r] \in Nat
    BY <1>1 DEF Typed
  <2>2. /\ computed[r] <= Len(Text[r]) /\ known[r] \in Prompt[r]..Len(Text[r])
        /\ upto[r] <= Len(Text[r]) /\ done[r] <= Len(Text[r])
    BY <1>1 DEF Standing, Worked
  <2>3. QED
    BY <2>1, <2>2, PromptIs
<1>5. \A f \in {computed, known, upto, done} : \A r \in Requests : f[r] \in 0..Len(Text[r])
    BY <1>4
<1>6. \A r \in Requests : skipped[r] \subseteq 0..(Len(Text[r]) - 1)
    BY <1>1 DEF Worked
<1>7. /\ status \in [Requests -> {"waiting", "running", "preempted", "finished"}]
      /\ off \in SUBSET Requests /\ retired \in SUBSET Requests
      /\ owner \in Requests \cup {None} /\ spec \in Nat \X Nat
    BY <1>1 DEF Typed
<1>8. shared \subseteq AllKeys /\ bad \subseteq shared /\ Len(flight) <= Ahead
    BY <1>1 DEF Entered, Sent
<1>9. raised \in BOOLEAN
    BY <1>1
<1>10. QED
    BY <1>3, <1>5, <1>6, <1>7, <1>8, <1>9 DEF TypeOK

\* Every variable keeps its type.
THEOREM TypeCorrect == Spec => []TypeOK
<1>1. QED
    BY Inductive, InvTypes, PTL

\* No block a later request can restore depends on an approximated position.
THEOREM SharedStaysExact == Spec => []SharedIsExact
<1>1. IInv => SharedIsExact
    BY DEF IInv, SharedIsExact
<1>2. QED
    BY <1>1, Inductive, PTL

\* The worker approximates the window the scheduler admitted, and no check of either fails.
LEMMA InvWindow ==
    IInv => WindowOnly
<1> SUFFICES ASSUME IInv PROVE WindowOnly
    OBVIOUS
<1>1. Typed /\ Standing /\ Worked /\ raised = FALSE
    BY DEF IInv
<1>2. ASSUME NEW r \in Running, Started(r)
      PROVE  skipped[r] = Window(r, policy[r], done[r])
  <2>1. r \in Requests /\ status[r] = "running"
    BY DEF Running
  <2>2. policy[r] # None /\ told[r] = policy[r]
    BY <1>1, <1>2, <2>1 DEF Standing, Worked
  <2>3. QED
    BY <1>1, <2>1, <2>2 DEF Worked
<1>3. QED
    BY <1>1, <1>2 DEF WindowOnly, Window

\* At every moment, for every request that has begun.
THEOREM OnlyItsWindow == Spec => []WindowOnly
<1>1. QED
    BY Inductive, InvWindow, PTL

\* The keys of what has been computed exactly are in the table.
LEMMA InvShared ==
    IInv => ExactIsShared
<1> SUFFICES ASSUME IInv, NEW r \in Running, Started(r)
             PROVE  Keys(r, Least(done[r], Exact(r, policy[r]))) \subseteq shared
    BY DEF ExactIsShared, Exact
<1>1. Typed /\ Standing /\ Entered /\ r \in Requests
    BY DEF IInv, Running
<1>2. done[r] \in Nat /\ computed[r] \in Nat /\ done[r] <= computed[r] /\ upto[r] \in Nat
    BY <1>1, DoneIsPlanned DEF Typed
<1>3. Exact(r, policy[r]) \in Nat
  <2>1. policy[r] \in Policies
    BY <1>1 DEF Standing, Running, Fit
  <2>2. QED
    BY <1>1, <2>1, PolicyIs, PromptIs DEF Exact
<1>4. Least(computed[r], Exact(r, policy[r])) <= upto[r] /\ Keys(r, upto[r]) \subseteq shared
    BY <1>1 DEF Entered
<1>5. Least(done[r], Exact(r, policy[r])) <= upto[r]
      /\ Least(done[r], Exact(r, policy[r])) \in Nat
    BY <1>2, <1>3, <1>4 DEF Least
<1>6. Keys(r, Least(done[r], Exact(r, policy[r]))) \subseteq Keys(r, upto[r])
    BY <1>2, <1>5, KeysGrow
<1>7. QED
    BY <1>4, <1>6

\* At every moment, what has been computed exactly can be restored.
THEOREM ExactStaysShared == Spec => []ExactIsShared
<1>1. QED
    BY Inductive, InvShared, PTL

\* What WindowKept asks of one step.
KeepsWindow ==
    \A r \in Requests :
       IF policy[r] # None
       THEN status'[r] # "finished" =>
               policy'[r] # None /\ policy'[r].start = policy[r].start
       ELSE policy'[r] # None =>
               /\ status'[r] = "running"
               /\ policy'[r].start \in {None, flight'[Len(flight')].pos}

\* No step moves a window, and a window begins at the hit of the admission.
LEMMA StepWindow ==
    IInv /\ [Next]_vars => [KeepsWindow]_vars
<1> SUFFICES ASSUME IInv, [Next]_vars PROVE KeepsWindow
    OBVIOUS
<1>1. Typed /\ Standing /\ Does
    BY StepIs DEF IInv
<1>2. ASSUME NEW r \in Requests, NEW h \in Nat, NEW s \in Steps, AdmitDoes(r, h, s)
      PROVE  KeepsWindow
  <2>1. /\ Grows(r, s) /\ s.pos = h /\ Fit(r, s.wire)
        /\ status' = [status EXCEPT ![r] = "running"] /\ policy' = [policy EXCEPT ![r] = s.wire]
        /\ policy[r] # None => s.wire.start = policy[r].start
        /\ policy[r] = None => s.wire.start \in {None, h}
    BY <1>2 DEF AdmitDoes
  <2>2. s.wire # None
    BY <2>1, PolicyIs DEF Fit
  <2>3. flight'[Len(flight')] = s
    BY <1>1, <2>1, GrownIs DEF Grows, Typed
  <2>4. /\ status'[r] = "running" /\ policy'[r] = s.wire
        /\ \A q \in Requests : q # r => policy'[q] = policy[q] /\ status'[q] = status[q]
    BY <1>1, <2>1 DEF Typed
  <2>5. QED
    BY <2>1, <2>2, <2>3, <2>4 DEF KeepsWindow
<1>3. ASSUME policy' = policy
      PROVE  KeepsWindow
    BY <1>3 DEF KeepsWindow
<1>4. ASSUME NEW r \in Requests, Finish(r)
      PROVE  KeepsWindow
  <2>1. /\ status'[r] = "finished" /\ policy'[r] = None
        /\ \A q \in Requests : q # r => policy'[q] = policy[q] /\ status'[q] = status[q]
    BY <1>1, <1>4 DEF Finish, Typed
  <2>2. QED
    BY <2>1 DEF KeepsWindow
<1>5. QED
    BY <1>1, <1>2, <1>3, <1>4 DEF Does, ContinueDoes, Preempt, Evict, Output, WorkDoes, requests,
       vars

\* A request's window is chosen once.
THEOREM WindowIsChosenOnce == Spec => WindowKept
<1>1. IInv /\ [Next]_vars => [KeepsWindow]_vars
    BY StepWindow
<1>2. Spec => [][KeepsWindow]_vars
    BY <1>1, Inductive, PTL DEF Spec
<1>3. QED
    BY <1>2 DEF WindowKept, KeepsWindow
=============================================================================
