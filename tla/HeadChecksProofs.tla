--------------------------- MODULE HeadChecksProofs ---------------------------
(***************************************************************************)
(* What is asked of a running head: its checks (HeadChecks), for any       *)
(* programs, launches, tasks and settings, and the evaluations on it       *)
(* (Evaluate), for any drivers, arguments, questions and attempts.         *)
(***************************************************************************)
EXTENDS MCHeadChecks, FiniteSetTheorems, SequenceTheorems, WellFoundedInduction, TLAPS

-----------------------------------------------------------------------------
(* The checks.                                                             *)

Pcs == {"start", "refused", "report", "lock", "size", "run", "ask", "canary", "after", "judge",
        "reset", "unlock", "write", "done"}
Idle == {"start", "refused", "write", "done"}
\* Where a check is under the lock.
Inside(p) ==
    pc[p] \in {"size", "run", "ask", "canary", "after", "judge", "reset"}
        \/ (pc[p] = "unlock" /\ kind[p] # "capacity")
\* What an answer is told of, and what of it is held against a check.
Words == {"right", "failed", "wrong", "broken", "short", "foreign"}
Facts == (Words \ {"right"}) \cup {"misread", "slip", "miss", "evicted", "moved"}
Pairs == {<<>>} \cup (Nat \X Nat)
Requests == [answer : {"unsent", "sent", "right", "wrong", "failed"}, hit : BOOLEAN,
             bad : BOOLEAN]

CheckType ==
    /\ kind \in [Programs -> Kinds]
    /\ head \in [no : 1..Launches, up : BOOLEAN]
    /\ quality \in [1..Launches -> {"sound", "garbled", "draftless"}]
    /\ drafts \in Nat \X Nat \X Nat
    /\ lock \in Programs \cup {"none"}
    /\ pc \in [Programs -> Pcs]
    /\ seen \in [Programs -> 0..Launches]
    /\ facts \in [Programs -> SUBSET Facts]
    /\ cache \in [Programs -> [there : BOOLEAN, bad : SUBSET Tasks]]
    /\ asked \in [Programs -> [Tasks -> Requests]]
    /\ counts \in [Programs -> [before : Pairs, answer : Words \cup {"none"}, after : Pairs]]
    /\ rows = [p \in Programs |-> rows[p]]
    /\ size = [p \in Programs |-> size[p]]
    /\ result = [p \in Programs |-> result[p]]

\* A check goes its own way, under the lock, and knows the launch while it runs.
Order(p) ==
    /\ Inside(p) => lock = p
    /\ pc[p] \in {"canary", "after", "reset"} => kind[p] = "warmup"
    /\ pc[p] = "lock" => kind[p] # "capacity"
    /\ pc[p] = "size" => kind[p] \in {"warmup", "prefix-gate"}
    /\ pc[p] = "ask" => kind[p] = "prefix-gate"
    /\ pc[p] = "run" => kind[p] \notin {"prefix-gate", "capacity"}
    /\ pc[p] = "judge" => kind[p] \in {"warmup", "prefix-gate"}
    /\ pc[p] = "unlock" => kind[p] # "ask"
    /\ pc[p] = "report" => kind[p] = "capacity"
    /\ pc[p] \notin Idle /\ "moved" \notin facts[p] => head.up /\ head.no = seen[p]
    /\ pc[p] # "ask" => asked[p] = Unsent

\* The record of a check that is no gate says of each request what was held against it.
Record(p) ==
    kind[p] # "prefix-gate" =>
        /\ rows[p] \in Seq(Words)
        /\ facts[p] \cap {"misread", "slip", "miss", "evicted"} = {}
        /\ \A x \in Words \ {"right"} :
              x \in facts[p] <=> \/ \E i \in 1..Len(rows[p]) : rows[p][i] = x
                                 \/ pc[p] = "after" /\ counts[p].answer = x
        /\ kind[p] # "warmup" => \A i \in 1..Len(rows[p]) : rows[p][i] # "wrong"
        /\ kind[p] = "warmup" =>
              /\ \A i \in 1..Len(rows[p]) :
                    /\ rows[p][i] \in {"right", "failed", "wrong"}
                    /\ rows[p][i] = "wrong" =>
                          i = Len(rows[p]) /\ pc[p] \in {"judge", "reset", "unlock"}
              /\ pc[p] = "after" => counts[p].answer \in {"right", "wrong", "failed"}
              /\ pc[p] \in {"judge", "reset", "unlock"} => rows[p] # <<>>

\* While a canary is counted, the counters say how the launch decodes.
Counting(p) ==
    pc[p] \in {"canary", "after"} /\ "moved" \notin facts[p] /\ counts[p].before # <<>> =>
        LET b == counts[p].before
        IN  /\ b[1] <= drafts[1] /\ b[2] <= drafts[2]
            /\ drafts[2] = b[2] => drafts[3] >= drafts[1] - b[1]
            /\ quality[seen[p]] = "draftless" \/ ~profile.mtp => drafts[2] = b[2]
            /\ ~profile.mtp => drafts[1] = b[1]
Counted(p) ==
    /\ pc[p] \notin {"judge", "reset", "unlock"} => counts[p].after = <<>>
    /\ pc[p] \in {"judge", "reset", "unlock"} /\ kind[p] = "warmup" /\ "moved" \notin facts[p] =>
          LET b == counts[p].before
              a == counts[p].after
          IN  b # <<>> /\ a # <<>> =>
              /\ quality[seen[p]] = "sound" => a[1] - b[1] < MinDrafts \/ a[2] > b[2]
              /\ quality[seen[p]] = "draftless" \/ ~profile.mtp => a[2] = b[2]
              /\ ~profile.mtp => a[1] = b[1]
Garbled(p) ==
    /\ pc[p] = "after" /\ "moved" \notin facts[p] /\ quality[seen[p]] = "garbled" =>
          counts[p].answer # "right"
    /\ /\ pc[p] \in {"judge", "reset", "unlock"} /\ kind[p] = "warmup"
       /\ "moved" \notin facts[p] /\ quality[seen[p]] = "garbled"
       => rows[p][Len(rows[p])] \in {"wrong", "failed"}

\* What a gate was answered, in either phase, and what it holds against the answers.
Recorded(p) ==
    (IF Len(rows[p]) >= 1 THEN {rows[p][1][t] : t \in Tasks} ELSE {})
        \cup (IF Len(rows[p]) = 2 THEN {rows[p][2][t].answer : t \in Tasks} ELSE {})
Answered(p) == {asked[p][t].answer : t \in Tasks} \cup Recorded(p)
Phases(p) ==
    kind[p] = "prefix-gate" =>
        /\ \/ rows[p] = <<>>
           \/ \E cold \in [Tasks -> {"right", "wrong", "failed"}] :
                 \/ rows[p] = <<cold>>
                 \/ \E warm \in [Tasks -> Requests] :
                       /\ rows[p] = <<cold, warm>>
                       /\ \A t \in Tasks : warm[t].answer \in {"right", "wrong", "failed"}
        /\ pc[p] \notin {"ask", "judge", "unlock"} => rows[p] = <<>>
        /\ pc[p] = "ask" => Len(rows[p]) < 2
        /\ pc[p] \in {"judge", "unlock"} => Len(rows[p]) = 2
        /\ facts[p] \cap {"wrong", "broken", "short", "foreign"} = {}
        /\ pc[p] \notin {"ask", "judge", "unlock"} => facts[p] \subseteq {"moved"}
        /\ "failed" \in facts[p] <=> "failed" \in Answered(p)
        /\ "wrong" \in Answered(p) => facts[p] \cap {"misread", "slip"} # {}
        /\ facts[p] \cap {"misread", "slip"} # {} => Answered(p) \cap {"wrong", "failed"} # {}
        /\ "miss" \in facts[p] =>
              \/ Len(rows[p]) = 1 /\ \E t \in Tasks :
                    asked[p][t].answer \notin {"unsent", "sent"} /\ ~asked[p][t].hit
              \/ Len(rows[p]) = 2 /\ \E t \in Tasks : ~rows[p][2][t].hit
\* What was answered once is kept, and what is asked then is read from it.
Kept(p) ==
    kind[p] = "prefix-gate" /\ facts[p] \cap {"evicted", "failed", "moved"} = {} =>
        /\ pc[p] = "ask" /\ rows[p] # <<>> /\ Tasks # {} => cache[p].there
        /\ pc[p] = "ask" => \A t \in Tasks :
              /\ asked[p][t].hit \/ asked[p][t].answer \notin {"unsent", "sent"} => cache[p].there
              /\ rows[p] # <<>> /\ asked[p][t].answer # "unsent" => asked[p][t].hit
        /\ Len(rows[p]) = 2 => \A t \in Tasks : rows[p][2][t].hit

\* The verdict is the one of the record.
Verdict(p) ==
    /\ kind[p] # "capacity" /\ pc[p] \notin {"reset", "unlock"} => result[p] = Fresh.result
    /\ pc[p] \in {"reset", "unlock"} =>
          /\ kind[p] = "warmup" => result[p] = WarmupResult(p)
          /\ kind[p] = "prefix-gate" => result[p] = GateResult(p)
          /\ kind[p] = "mojibake" => result[p] = MojibakeResult(p)
          /\ kind[p] = "agreement" => result[p] = AgreementResult(p)

Sound == head.up /\ quality[head.no] = "sound" => drafts[3] < MinDrafts

Canary(p) == Counting(p) /\ Counted(p) /\ Garbled(p)
Gate(p) == Phases(p) /\ Kept(p)
Check(p) == Order(p) /\ Record(p) /\ Canary(p) /\ Gate(p) /\ Verdict(p)
CheckInv == CheckType /\ Sound /\ \A p \in Programs : Check(p)


\* A program that finished, or did not start, has a fresh slate.
LEMMA CheckInit == Init => CheckInv
<1> SUFFICES ASSUME Init PROVE CheckInv
  OBVIOUS
<1>1. \A t \in Tasks : Unsent[t] \in Requests /\ Unsent[t].answer = "unsent"
                       /\ ~Unsent[t].hit
  BY DEF Unsent, Requests
<1>2. CheckType /\ Sound
  BY <1>1, HeadChecksAssumption
     DEF Init, CheckType, Sound, Unsent, Fresh, NoPrefix, Pcs, Pairs, Facts
<1>3. ASSUME NEW p \in Programs PROVE Check(p)
  <2>1. /\ pc[p] = "start" /\ rows[p] = <<>> /\ asked[p] = Unsent /\ facts[p] = {}
        /\ result[p] = Fresh.result /\ counts[p].after = <<>>
    BY <1>3 DEF Init, Fresh
  <2>2. Order(p) /\ Counting(p) /\ Counted(p) /\ Garbled(p) /\ Kept(p)
    BY <2>1 DEF Order, Counting, Counted, Garbled, Kept, Inside, Idle
  <2>3. Record(p)
    BY <2>1 DEF Record
  <2>4. Phases(p)
    BY <1>1, <2>1 DEF Phases, Answered, Recorded
  <2>5. Verdict(p)
    BY <2>1 DEF Verdict
  <2>6. QED
    BY <2>2, <2>3, <2>4, <2>5 DEF Check, Canary, Gate
<1>4. QED
  BY <1>2, <1>3 DEF CheckInv

\* What a program itself reads and writes.
Same(p) == /\ pc'[p] = pc[p] /\ seen'[p] = seen[p] /\ rows'[p] = rows[p]
           /\ asked'[p] = asked[p] /\ counts'[p] = counts[p] /\ result'[p] = result[p]
           /\ facts'[p] = facts[p]
Drafting == drafts' = drafts \/ (head.up /\ \E n \in Nat : Draft(n))

\* Drafts are counted, and a sound launch does not miss too many in a row.
LEMMA DraftsType ==
  ASSUME CheckInv, Drafting, UNCHANGED <<fixed, head>>
  PROVE  drafts' \in Nat \X Nat \X Nat /\ Sound'
<1> USE DEF CheckInv, CheckType, fixed
<1>1. CASE drafts' = drafts
  BY <1>1 DEF Sound
<1>2. CASE head.up /\ \E n \in Nat : Draft(n)
  <2>1. PICK n \in Nat : Draft(n)
    BY <1>2
  <2>2. CASE ~profile.mtp
    BY <2>1, <2>2 DEF Draft, Sound
  <2>3. CASE profile.mtp
    <3>1. PICK accepted \in 0..n : \E missed \in 0..(n - accepted) :
              /\ drafts' = <<drafts[1] + n, drafts[2] + accepted,
                             IF accepted = 0 THEN drafts[3] + n ELSE missed>>
              /\ quality[head.no] = "sound" => drafts'[3] < MinDrafts
      BY <2>1, <2>3 DEF Draft
    <3>2. drafts' \in Nat \X Nat \X Nat
      BY <3>1, SMTT(40)
    <3>3. QED
      BY <3>1, <3>2 DEF Sound
  <2>4. QED
    BY <2>2, <2>3
<1>3. QED
  BY <1>1, <1>2 DEF Drafting

\* What the counters say of a canary stays true as more is drafted.
LEMMA DraftsCount ==
  ASSUME CheckInv, Drafting, UNCHANGED <<fixed, head>>, NEW p \in Programs,
         pc'[p] \in {"canary", "after"} => pc[p] \in {"canary", "after"},
         counts'[p].before = counts[p].before, seen'[p] = seen[p],
         "moved" \in facts[p] => "moved" \in facts'[p]
  PROVE  Counting(p)'
<1> DEFINE b == counts[p].before
           Body == /\ b[1] <= drafts'[1] /\ b[2] <= drafts'[2]
                   /\ drafts'[2] = b[2] => drafts'[3] >= drafts'[1] - b[1]
                   /\ quality[seen[p]] = "draftless" \/ ~profile.mtp => drafts'[2] = b[2]
                   /\ ~profile.mtp => drafts'[1] = b[1]
<1> SUFFICES ASSUME pc[p] \in {"canary", "after"}, "moved" \notin facts[p], b # <<>>
             PROVE  Body
  BY DEF Counting, fixed
<1>1. /\ b[1] <= drafts[1] /\ b[2] <= drafts[2]
      /\ drafts[2] = b[2] => drafts[3] >= drafts[1] - b[1]
      /\ quality[seen[p]] = "draftless" \/ ~profile.mtp => drafts[2] = b[2]
      /\ ~profile.mtp => drafts[1] = b[1]
  BY DEF Counting, CheckInv, Check, Canary
<1>2. b[1] \in Nat /\ b[2] \in Nat
  BY DEF Pairs, CheckInv, CheckType
<1>3. head.no = seen[p]
  BY DEF Order, Idle, CheckInv, Check
<1>4. drafts[1] \in Nat /\ drafts[2] \in Nat /\ drafts[3] \in Nat
  BY DEF CheckInv, CheckType
<1> HIDE DEF b
<1>5. CASE drafts' = drafts
  BY <1>1, <1>5
<1>6. CASE head.up /\ \E n \in Nat : Draft(n)
  <2>1. PICK n \in Nat : Draft(n)
    BY <1>6
  <2>2. CASE ~profile.mtp
    BY <1>1, <2>1, <2>2 DEF Draft
  <2>3. CASE profile.mtp
    <3>1. PICK accepted \in 0..n : \E missed \in 0..(n - accepted) :
              /\ drafts' = <<drafts[1] + n, drafts[2] + accepted,
                             IF accepted = 0 THEN drafts[3] + n ELSE missed>>
              /\ quality[head.no] = "draftless" => accepted = 0
      BY <2>1, <2>3 DEF Draft
    <3>2. /\ drafts'[1] = drafts[1] + n /\ drafts'[2] = drafts[2] + accepted
          /\ accepted = 0 => drafts'[3] = drafts[3] + n
      BY <3>1
    <3>3. b[1] <= drafts'[1] /\ b[2] <= drafts'[2]
      BY <1>1, <1>2, <1>4, <3>2
    <3>4. drafts'[2] = b[2] => accepted = 0 /\ drafts[2] = b[2]
      BY <1>1, <1>2, <1>4, <3>2
    <3>5. drafts'[2] = b[2] => drafts'[3] >= drafts'[1] - b[1]
      BY <1>1, <1>2, <1>4, <3>2, <3>4
    <3>6. quality[seen[p]] = "draftless" => drafts'[2] = b[2]
      BY <1>1, <1>3, <1>4, <3>1, <3>2
    <3>7. QED
      BY <2>3, <3>3, <3>5, <3>6
  <2>4. QED
    BY <2>2, <2>3
<1>7. QED
  BY <1>5, <1>6 DEF Drafting

\* The checks of the others go on as they were.
LEMMA Others ==
  ASSUME CheckInv, Drafting, UNCHANGED <<fixed, head>>, NEW p \in Programs,
         Same(p), Inside(p) => lock' = lock, pc[p] = "ask" => cache'[p] = cache[p]
  PROVE  Check(p)'
<1> USE DEF Same, fixed
<1>1. Check(p)
  BY DEF CheckInv
<1>2. Counting(p)'
  BY DraftsCount
<1>3. Order(p)'
  BY <1>1 DEF Check, Order, Inside
<1>4. Record(p)'
  BY <1>1 DEF Check, Record
<1>5. Counted(p)' /\ Garbled(p)'
  BY <1>1 DEF Check, Canary, Counted, Garbled
<1>6. Answered(p)' = Answered(p)
  BY DEF Answered, Recorded
<1>7. Phases(p)'
  BY <1>1, <1>6 DEF Check, Gate, Phases
<1>8. Kept(p)'
  BY <1>1 DEF Check, Gate, Kept
<1>9. Verdict(p)'
  <2>1. WarmupResult(p)' = WarmupResult(p)
    BY DEF WarmupResult, Degenerate, Accepts, Last
  <2>2. GateResult(p)' = GateResult(p)
    BY DEF GateResult, Judge, Missed
  <2>3. MojibakeResult(p)' = MojibakeResult(p)
    BY DEF MojibakeResult, JudgeText
  <2>4. AgreementResult(p)' = AgreementResult(p)
    BY DEF AgreementResult, Errors, SelfChecks
  <2>5. QED
    BY <1>1, <2>1, <2>2, <2>3, <2>4 DEF Check, Verdict
<1>10. QED
  BY <1>2, <1>3, <1>4, <1>5, <1>7, <1>8, <1>9 DEF Check, Canary, Gate

\* A check that only goes on in its program, or leaves the lock's side of it to others.
LEMMA Goes ==
  ASSUME CheckInv, CheckType', NEW p \in Programs, NEW l \in Pcs, pc' = [pc EXCEPT ![p] = l],
         UNCHANGED <<fixed, head, drafts, rows, asked, counts, facts>>,
         pc[p] \notin {"ask", "canary", "after"}, l \notin {"canary", "after"},
         kind[p] \in {"warmup", "prefix-gate"} =>
             (l \in {"judge", "reset", "unlock"} <=> pc[p] \in {"judge", "reset", "unlock"}),
         \A q \in Programs \ {p} :
             /\ seen'[q] = seen[q] /\ result'[q] = result[q]
             /\ Inside(q) => lock' = lock
             /\ pc[q] = "ask" => cache'[q] = cache[q],
         pc[p] \in {"judge", "reset", "unlock"} =>
             l \in {"judge", "reset", "unlock"} /\ seen'[p] = seen[p],
         Order(p)', Verdict(p)'
  PROVE  CheckInv'
<1>1. Check(p)
  BY DEF CheckInv
<1>2. ASSUME NEW q \in Programs \ {p} PROVE Check(q)'
  BY Others DEF CheckInv, CheckType, Same, Drafting
<1>3. pc'[p] = l
  BY DEF CheckInv, CheckType
<1>4. Record(p)'
  BY <1>1, <1>3 DEF Check, Record, fixed
<1>5. Canary(p)'
  BY <1>1, <1>3 DEF Check, Canary, Counting, Counted, Garbled, fixed
<1>6. Phases(p)'
  <2>1. Answered(p)' = Answered(p)
    BY DEF Answered, Recorded, fixed
  <2>2. QED
    BY <1>1, <1>3, <2>1 DEF Check, Order, Gate, Phases, fixed
<1>7. Kept(p)'
  <2>1. asked[p] = Unsent
    BY <1>1 DEF Check, Order
  <2>2. \A t \in Tasks : Unsent[t].answer = "unsent" /\ ~Unsent[t].hit
    BY DEF Unsent
  <2>3. pc'[p] = "ask" => rows'[p] = <<>> \/ kind[p] # "prefix-gate"
    BY <1>1, <1>3 DEF Check, Gate, Phases
  <2>4. QED
    BY <1>1, <1>3, <2>1, <2>2, <2>3 DEF Check, Gate, Kept, fixed
<1>8. Sound'
  BY DEF CheckInv, Sound, fixed
<1>9. QED
  BY <1>1, <1>2, <1>4, <1>5, <1>6, <1>7, <1>8 DEF CheckInv, Check, Gate

\* A request of a check that is no gate is recorded with what is held against it.
LEMMA RequestTold ==
  ASSUME CheckInv, NEW p \in Programs, NEW x \in Words \ {"wrong"},
         pc[p] \in {"run", "size"}, pc' = [pc EXCEPT ![p] = "run"],
         kind[p] \notin {"prefix-gate", "capacity"},
         kind[p] = "warmup" => x \in {"right", "failed"},
         Row(p, x), Note(p, {x} \ {"right"}), size' = [q \in Programs |-> size'[q]],
         UNCHANGED <<fixed, engine, lock, seen, asked, counts, result>>
  PROVE  CheckInv'
<1> USE DEF fixed, engine
<1>1. Check(p) /\ CheckType
  BY DEF CheckInv
<1>2. /\ rows' = [rows EXCEPT ![p] = Append(@, x)]
      /\ facts' = [facts EXCEPT ![p] = @ \cup ({x} \ {"right"})]
  BY DEF Row, Note
<1>3. CheckType' /\ Sound'
  <2>1. pc' \in [Programs -> Pcs]
    BY <1>1 DEF CheckType, Pcs
  <2>2. facts' \in [Programs -> SUBSET Facts]
    BY <1>1, <1>2 DEF CheckType, Facts
  <2>3. rows' = [q \in Programs |-> rows'[q]]
    BY <1>1, <1>2 DEF CheckType
  <2>4. QED
    BY <2>1, <2>2, <2>3 DEF CheckInv, CheckType, Sound
<1>4. ASSUME NEW q \in Programs \ {p} PROVE Check(q)'
  BY <1>1, <1>2, Others DEF CheckType, Same, Drafting
<1>5. /\ pc'[p] = "run" /\ rows'[p] = Append(rows[p], x)
      /\ facts'[p] = facts[p] \cup ({x} \ {"right"})
  BY <1>1, <1>2 DEF CheckType
<1>6. Order(p)'
  BY <1>1, <1>5, HeadChecksAssumption DEF Check, CheckType, Order, Inside, Idle, Words
<1>7. Record(p)'
  <2>1. rows[p] \in Seq(Words) /\ rows'[p] \in Seq(Words)
    BY <1>1, <1>5 DEF Check, Record
  <2>2. /\ Len(rows'[p]) = Len(rows[p]) + 1 /\ rows'[p][Len(rows[p]) + 1] = x
        /\ \A i \in 1..Len(rows[p]) : rows'[p][i] = rows[p][i]
    BY <1>5, <2>1
  <2>3. ASSUME NEW y \in Words \ {"right"}
        PROVE  y \in facts'[p] <=> \E i \in 1..Len(rows'[p]) : rows'[p][i] = y
    <3>1. y \in facts[p] <=> \E i \in 1..Len(rows[p]) : rows[p][i] = y
      BY <1>1 DEF Check, Record
    <3>2. Len(rows[p]) \in Nat
      BY <2>1
    <3>3. QED
      BY <1>5, <2>2, <3>1, <3>2
  <2>4. facts'[p] \cap {"misread", "slip", "miss", "evicted"} = {}
    BY <1>1, <1>5 DEF Check, Record, Words
  <2>5. \A i \in 1..Len(rows[p]) : rows[p][i] # "wrong"
    BY <1>1 DEF Check, Record
  <2>6. \A i \in 1..Len(rows'[p]) : rows'[p][i] # "wrong"
    BY <2>1, <2>2, <2>5
  <2>7. kind[p] = "warmup" => \A i \in 1..Len(rows'[p]) : rows'[p][i] \in {"right", "failed", "wrong"}
    <3>1. kind[p] = "warmup" => \A i \in 1..Len(rows[p]) : rows[p][i] \in {"right", "failed", "wrong"}
      BY <1>1 DEF Check, Record
    <3>2. QED
      BY <2>1, <2>2, <3>1
  <2>8. QED
    BY <1>5, <2>1, <2>3, <2>4, <2>6, <2>7 DEF Record
<1>8. Canary(p)' /\ Gate(p)'
  BY <1>1, <1>5 DEF Check, Canary, Counting, Counted, Garbled, Gate, Phases, Kept
<1>9. Verdict(p)'
  BY <1>1, <1>5 DEF Check, Verdict
<1>10. QED
  BY <1>3, <1>4, <1>6, <1>7, <1>8, <1>9 DEF CheckInv, Check

\* A check that is over has a fresh slate, and leaves the lock if it held it.
LEMMA Leaves ==
  ASSUME CheckInv, NEW p \in Programs, NEW l \in {"write", "done"}, Leave(p, l)
  PROVE  CheckInv'
<1>1. Check(p) /\ CheckType
  BY DEF CheckInv
<1>2. \A t \in Tasks : Unsent[t] \in Requests /\ Unsent[t].answer = "unsent"
                       /\ ~Unsent[t].hit
  BY DEF Unsent, Requests
<1>3. CheckType' /\ Sound'
  <2>1. pc' \in [Programs -> Pcs] /\ seen' \in [Programs -> 0..Launches]
        /\ facts' \in [Programs -> SUBSET Facts]
    BY <1>1, HeadChecksAssumption DEF CheckType, Pcs, Leave, Goto
  <2>2. lock' \in Programs \cup {"none"}
    BY <1>1 DEF CheckType, Leave, Goto
  <2>3. cache' \in [Programs -> [there : BOOLEAN, bad : SUBSET Tasks]]
    BY <1>1 DEF CheckType, NoPrefix, Leave
  <2>4. asked' \in [Programs -> [Tasks -> Requests]]
    BY <1>1, <1>2 DEF CheckType, Unsent, Leave
  <2>5. counts' \in [Programs -> [before : Pairs, answer : Words \cup {"none"}, after : Pairs]]
    BY <1>1 DEF CheckType, Fresh, Pairs, Leave
  <2>6. /\ rows' = [q \in Programs |-> rows'[q]] /\ size' = [q \in Programs |-> size'[q]]
        /\ result' = [q \in Programs |-> result'[q]]
    BY <1>1 DEF CheckType, Leave, Goto
  <2>7. QED
    BY <1>1, <2>1, <2>2, <2>3, <2>4, <2>5, <2>6 DEF CheckInv, CheckType, Sound, Leave, fixed
<1>4. ASSUME NEW q \in Programs \ {p} PROVE Check(q)'
  <2>1. Inside(q) => lock' = lock
    BY DEF CheckInv, Check, Order, Leave
  <2>2. QED
    BY <1>1, <2>1, Others DEF CheckType, Same, Drafting, Leave, Goto, fixed
<1>5. /\ pc'[p] = l /\ rows'[p] = <<>> /\ asked'[p] = Unsent /\ facts'[p] = {}
      /\ result'[p] = Fresh.result /\ counts'[p].after = <<>>
  BY <1>1 DEF CheckType, Leave, Goto, Fresh
<1>6. Order(p)' /\ Verdict(p)'
  BY <1>5 DEF Order, Inside, Idle, Verdict
<1>7. Record(p)'
  BY <1>5 DEF Record
<1>8. Canary(p)'
  BY <1>5 DEF Canary, Counting, Counted, Garbled
<1>9. Gate(p)'
  BY <1>2, <1>5 DEF Gate, Phases, Kept, Answered, Recorded
<1>10. Check(p)'
  BY <1>6, <1>7, <1>8, <1>9 DEF Check
<1>11. QED
  BY <1>3, <1>4, <1>10 DEF CheckInv

\* A check that read the head runs under its launch.
LEMMA CheckReadHead == ASSUME CheckInv, NEW p \in Programs, ReadHead(p) PROVE CheckInv'
<1>1. Check(p) /\ CheckType
  BY DEF CheckInv
<1>2. PICK l \in {"refused", "report", "lock"}, n \in 0..Launches :
          /\ pc[p] = "start"
          /\ pc' = [pc EXCEPT ![p] = l] /\ seen' = [seen EXCEPT ![p] = n]
          /\ l # "refused" => head.up /\ n = head.no
          /\ l = "report" => kind[p] = "capacity"
          /\ l = "lock" => kind[p] # "capacity"
  <2>1. CASE Unfit(p) \/ ~head.up
    BY <1>1, <2>1 DEF ReadHead, Goto, CheckType
  <2>2. CASE ~(Unfit(p) \/ ~head.up)
    BY <1>1, <2>2 DEF ReadHead, Goto, CheckType
  <2>3. QED
    BY <2>1, <2>2
<1>3. UNCHANGED <<fixed, engine, lock, size, rows, asked, counts, result, facts>>
  BY DEF ReadHead
<1>4. CheckType'
  BY <1>1, <1>2, <1>3 DEF CheckType, Pcs, fixed, engine
<1>5. pc'[p] = l /\ seen'[p] = n
  BY <1>1, <1>2 DEF CheckType
<1>6. Order(p)' /\ Verdict(p)'
  BY <1>1, <1>2, <1>3, <1>5 DEF Check, Order, Inside, Idle, Verdict, fixed, engine
<1>7. \A q \in Programs \ {p} : seen'[q] = seen[q]
  BY <1>1, <1>2 DEF CheckType
<1>8. QED
  BY <1>2, <1>3, <1>4, <1>6, <1>7, Goes DEF Pcs, engine

\* Only one check is inside the lock.
LEMMA CheckTakeLock == ASSUME CheckInv, NEW p \in Programs, TakeLock(p) PROVE CheckInv'
<1>1. Check(p) /\ CheckType
  BY DEF CheckInv
<1>2. PICK l \in {"refused", "size", "run"} :
          /\ pc[p] = "lock" /\ pc' = [pc EXCEPT ![p] = l]
          /\ l = "size" => kind[p] = "prefix-gate"
          /\ l = "run" => kind[p] # "prefix-gate"
          /\ IF l = "refused" THEN UNCHANGED <<lock, size>> ELSE lock = "none" /\ lock' = p
  BY DEF TakeLock, Goto
<1>3. UNCHANGED <<fixed, engine, seen, rows, asked, counts, result, facts>>
  BY DEF TakeLock
<1>4. size' = [q \in Programs |-> size'[q]]
  BY <1>1 DEF TakeLock, CheckType
<1>5. CheckType'
  BY <1>1, <1>2, <1>3, <1>4 DEF CheckType, Pcs, fixed, engine
<1>6. Order(p)' /\ Verdict(p)'
  BY <1>1, <1>2, <1>3 DEF Check, CheckType, Order, Inside, Idle, Verdict, fixed, engine
<1>7. \A q \in Programs \ {p} : Inside(q) => lock' = lock
  BY <1>2, HeadChecksAssumption DEF CheckInv, Check, Order
<1>8. QED
  BY <1>2, <1>3, <1>5, <1>6, <1>7, Goes DEF Pcs, engine

\* A text being sized, or started to be.
LEMMA Sizing ==
  ASSUME CheckInv, NEW p \in Programs, NEW l \in {"size", "run", "ask"},
         pc[p] \in {"size", "run"}, pc' = [pc EXCEPT ![p] = l],
         kind[p] \in {"warmup", "prefix-gate"}, l = "run" => kind[p] = "warmup",
         l = "ask" => kind[p] = "prefix-gate", size' = [q \in Programs |-> size'[q]],
         UNCHANGED <<fixed, engine, lock, seen, rows, asked, counts, result, facts>>
  PROVE  CheckInv'
<1>1. Check(p) /\ CheckType
  BY DEF CheckInv
<1>2. CheckType'
  BY <1>1 DEF CheckType, Pcs, fixed, engine
<1>3. Order(p)' /\ Verdict(p)'
  BY <1>1 DEF Check, CheckType, Order, Inside, Idle, Verdict, fixed, engine
<1>4. QED
  BY <1>2, <1>3, Goes DEF Pcs, engine

\* A count of a text asks nothing; a text that cannot be sized fails the long rung.
LEMMA CheckProbe == ASSUME CheckInv, NEW p \in Programs, Probe(p) PROVE CheckInv'
<1>1. Check(p) /\ CheckType
  BY DEF CheckInv
<1>2. UNCHANGED <<fixed, engine, lock, seen, asked, counts, result>> /\ pc[p] = "size"
  BY DEF Probe
<1>3. /\ size' = [q \in Programs |-> size'[q]]
      /\ \/ /\ UNCHANGED <<rows, facts>>
            /\ \E l \in {"size", "run", "ask"} :
                  /\ pc' = [pc EXCEPT ![p] = l]
                  /\ l = "run" => kind[p] = "warmup"
                  /\ l = "ask" => kind[p] # "warmup"
         \/ /\ kind[p] = "warmup" /\ pc' = [pc EXCEPT ![p] = "run"]
            /\ Row(p, "failed") /\ Note(p, {"failed"})
  <2> DEFINE next == IF kind[p] = "warmup" THEN LongNext(size[p], Tokenizers[tok][size[p].n])
                     ELSE FitNext(size[p], Tokenizers[tok][size[p].n])
  <2>1. \/ /\ head.up /\ next.at # "too_short"
           /\ size' = [size EXCEPT ![p] = next]
           /\ Goto(p, IF next.at # "sized" THEN "size"
                      ELSE IF kind[p] = "warmup" THEN "run" ELSE "ask")
           /\ UNCHANGED <<rows, facts>>
        \/ /\ kind[p] = "warmup" /\ Row(p, "failed") /\ Note(p, {"failed"})
           /\ Goto(p, "run") /\ UNCHANGED size
    BY DEF Probe
  <2> HIDE DEF next
  <2>2. size' = [q \in Programs |-> size'[q]]
    BY <1>1, <2>1 DEF CheckType
  <2>3. QED
    BY <2>1, <2>2 DEF Goto
<1>4. kind[p] \in {"warmup", "prefix-gate"}
  BY <1>1, <1>2 DEF Check, Order
<1>5. CASE /\ UNCHANGED <<rows, facts>>
           /\ \E l \in {"size", "run", "ask"} :
                 /\ pc' = [pc EXCEPT ![p] = l]
                 /\ l = "run" => kind[p] = "warmup"
                 /\ l = "ask" => kind[p] # "warmup"
  BY <1>2, <1>3, <1>4, <1>5, Sizing
<1>6. CASE kind[p] = "warmup" /\ pc' = [pc EXCEPT ![p] = "run"] /\ Row(p, "failed")
           /\ Note(p, {"failed"})
  <2>1. {"failed"} \ {"right"} = {"failed"} /\ "failed" \in Words \ {"wrong"}
    BY DEF Words
  <2>2. QED
    BY <1>2, <1>3, <1>6, <2>1, RequestTold
<1>7. QED
  BY <1>3, <1>5, <1>6

\* A long text is sized, or cannot fit and fails its rung.
LEMMA CheckSizeLong == ASSUME CheckInv, NEW p \in Programs, SizeLong(p) PROVE CheckInv'
<1>1. Check(p) /\ CheckType
  BY DEF CheckInv
<1>2. /\ pc[p] = "run" /\ kind[p] = "warmup"
      /\ UNCHANGED <<fixed, engine, lock, seen, asked, counts, result>>
      /\ \/ Row(p, "failed") /\ Note(p, {"failed"}) /\ UNCHANGED <<pc, size>>
         \/ /\ size' = [size EXCEPT ![p] = [at |-> "sample", tries |-> 0, n |-> SampleLines]]
            /\ Goto(p, "size") /\ UNCHANGED <<rows, facts>>
  BY DEF SizeLong, Rung
<1>3. size' = [q \in Programs |-> size'[q]]
  BY <1>1, <1>2 DEF CheckType
<1>4. CASE Row(p, "failed") /\ Note(p, {"failed"}) /\ UNCHANGED <<pc, size>>
  <2>1. {"failed"} \ {"right"} = {"failed"} /\ "failed" \in Words \ {"wrong"}
    BY DEF Words
  <2>2. pc' = [pc EXCEPT ![p] = "run"]
    BY <1>1, <1>2, <1>4 DEF CheckType
  <2>3. QED
    BY <1>2, <1>3, <1>4, <2>1, <2>2, RequestTold
<1>5. CASE Goto(p, "size") /\ UNCHANGED <<rows, facts>>
  BY <1>2, <1>3, <1>5, Sizing DEF Goto
<1>6. QED
  BY <1>2, <1>4, <1>5

\* Requests of the warmup, of ask, of the mojibake and the agreement check.
LEMMA CheckAsk ==
  ASSUME CheckInv, NEW p \in Programs, AskRung(p) \/ AskNext(p) PROVE CheckInv'
<1>1. Check(p) /\ CheckType
  BY DEF CheckInv
<1>2. PICK x \in Words \ {"wrong"} :
          /\ pc[p] = "run" /\ Row(p, x) /\ Note(p, {x} \ {"right"})
          /\ kind[p] \notin {"prefix-gate", "capacity"}
          /\ kind[p] = "warmup" => x \in {"right", "failed"}
  BY DEF AskRung, AskNext, Rung, Answers, Words
<1>3. UNCHANGED <<fixed, engine, lock, pc, seen, size, asked, counts, result>>
  BY DEF AskRung, AskNext
<1>4. /\ pc' = [pc EXCEPT ![p] = "run"] /\ size' = [q \in Programs |-> size'[q]]
  BY <1>1, <1>2, <1>3 DEF CheckType
<1>5. QED
  BY <1>2, <1>3, <1>4, RequestTold

\* The end of a check that raised, was killed, or has its verdict to write.
LEMMA CheckLeave ==
  ASSUME CheckInv, NEW p \in Programs, ProbeFails(p) \/ Unlock(p) \/ Kill(p) PROVE CheckInv'
BY Leaves DEF ProbeFails, Unlock, Kill

\* The record is written, the verdict is not touched.
LEMMA CheckWrite == ASSUME CheckInv, NEW p \in Programs, Write(p) PROVE CheckInv'
<1>1. Check(p) /\ CheckType
  BY DEF CheckInv
<1>2. CheckType'
  BY <1>1 DEF CheckType, Pcs, Write, Goto, fixed, engine
<1>3. Order(p)' /\ Verdict(p)'
  BY <1>1 DEF Check, CheckType, Order, Inside, Idle, Verdict, Write, Goto, fixed, engine
<1>4. QED
  BY <1>2, <1>3, Goes DEF Pcs, Write, Goto, engine

\* The verdict is the one of the record, and stays it.
LEMMA CheckDecide == ASSUME CheckInv, NEW p \in Programs, Decide(p) PROVE CheckInv'
<1>1. Check(p) /\ CheckType
  BY DEF CheckInv
<1>2. /\ pc[p] = "judge" \/ (pc[p] = "run" /\ kind[p] \notin {"warmup", "ask"})
      /\ UNCHANGED <<fixed, engine, lock, seen, size, rows, asked, counts, facts>>
  BY DEF Decide
<1>3. /\ kind[p] \in {"warmup", "prefix-gate", "mojibake", "agreement"}
      /\ pc[p] = "run" => kind[p] \in {"mojibake", "agreement"}
  BY <1>1, <1>2 DEF Check, Order, CheckType, Kinds
<1>4. PICK l \in {"reset", "unlock"} :
          pc' = [pc EXCEPT ![p] = l] /\ (l = "reset" => kind[p] = "warmup")
  BY DEF Decide, Goto
<1>5. /\ \A q \in Programs \ {p} : result'[q] = result[q]
      /\ result' = [q \in Programs |-> result'[q]]
  <2> DEFINE v == CASE kind[p] = "warmup" -> WarmupResult(p)
                    [] kind[p] = "prefix-gate" -> GateResult(p)
                    [] kind[p] = "mojibake" -> MojibakeResult(p)
                    [] kind[p] = "agreement" -> AgreementResult(p)
  <2>1. result' = [result EXCEPT ![p] = v]
    BY DEF Decide
  <2> HIDE DEF v
  <2>2. QED
    BY <1>1, <2>1 DEF CheckType
<1>6. /\ kind[p] = "warmup" => result'[p] = WarmupResult(p)
      /\ kind[p] = "prefix-gate" => result'[p] = GateResult(p)
      /\ kind[p] = "mojibake" => result'[p] = MojibakeResult(p)
      /\ kind[p] = "agreement" => result'[p] = AgreementResult(p)
  BY <1>1, <1>3 DEF Decide, CheckType
<1>7. CheckType'
  BY <1>1, <1>2, <1>4, <1>5 DEF CheckType, Pcs, fixed, engine
<1>8. Order(p)'
  BY <1>1, <1>2, <1>3, <1>4 DEF Check, CheckType, Order, Inside, Idle, fixed, engine
<1>9. Verdict(p)'
  <2>1. WarmupResult(p)' = WarmupResult(p)
    BY <1>2 DEF WarmupResult, Degenerate, Accepts, Last, fixed
  <2>2. GateResult(p)' = GateResult(p)
    BY <1>2 DEF GateResult, Judge, Missed
  <2>3. MojibakeResult(p)' = MojibakeResult(p)
    BY <1>2 DEF MojibakeResult, JudgeText
  <2>4. AgreementResult(p)' = AgreementResult(p)
    BY <1>2 DEF AgreementResult, Errors, SelfChecks
  <2>5. pc'[p] = l /\ kind' = kind
    BY <1>1, <1>2, <1>4 DEF CheckType, fixed
  <2>6. QED
    BY <1>6, <2>1, <2>2, <2>3, <2>4, <2>5 DEF Verdict
<1>10. QED
  BY <1>2, <1>3, <1>4, <1>5, <1>7, <1>8, <1>9, Goes DEF Pcs, engine

\* capacity has a result of its own; another check's cache is dropped under the lock only.
LEMMA CheckReport ==
  ASSUME CheckInv, NEW p \in Programs, Report(p) \/ ResetCache(p) PROVE CheckInv'
<1>1. Check(p) /\ CheckType
  BY DEF CheckInv
<1>2. CASE Report(p)
  <2>1. /\ pc[p] = "report" /\ kind[p] = "capacity"
        /\ UNCHANGED <<fixed, engine, lock, seen, size, rows, asked, counts, facts>>
    BY <1>1, <1>2 DEF Report, Check, Order
  <2>2. PICK l \in {"unlock", "done"} : pc' = [pc EXCEPT ![p] = l]
    BY <1>2 DEF Report, Goto
  <2>3. /\ \A q \in Programs \ {p} : result'[q] = result[q]
        /\ result' = [q \in Programs |-> result'[q]]
    BY <1>1, <1>2 DEF Report, CheckType
  <2>4. CheckType'
    BY <1>1, <2>1, <2>2, <2>3 DEF CheckType, Pcs, fixed, engine
  <2>5. Order(p)' /\ Verdict(p)'
    BY <1>1, <2>1, <2>2 DEF Check, CheckType, Order, Inside, Idle, Verdict, fixed, engine
  <2>6. QED
    BY <2>1, <2>2, <2>3, <2>4, <2>5, Goes DEF Pcs, engine
<1>3. CASE ResetCache(p)
  <2>1. /\ pc[p] = "reset" /\ pc' = [pc EXCEPT ![p] = "unlock"]
        /\ UNCHANGED <<fixed, head, drafts, lock, seen, size, rows, asked, counts, result, facts>>
        /\ cache' \in {cache, [q \in Programs |-> NoPrefix]}
    BY <1>3 DEF ResetCache, Goto
  <2>2. lock = p /\ kind[p] = "warmup"
    BY <1>1, <2>1 DEF Check, Order, Inside
  <2>3. \A q \in Programs \ {p} : pc[q] # "ask"
    BY <2>2 DEF CheckInv, Check, Order, Inside
  <2>4. cache' \in [Programs -> [there : BOOLEAN, bad : SUBSET Tasks]]
    <3>1. NoPrefix \in [there : BOOLEAN, bad : SUBSET Tasks]
      BY DEF NoPrefix
    <3>2. QED
      BY <1>1, <2>1, <3>1 DEF CheckType
  <2>5. CheckType'
    BY <1>1, <2>1, <2>4 DEF CheckType, Pcs, fixed
  <2>6. Order(p)'
    BY <1>1, <2>1, <2>2 DEF Check, CheckType, Order, Inside, Idle, fixed
  <2>7. Verdict(p)'
    <3>1. WarmupResult(p)' = WarmupResult(p)
      BY <2>1 DEF WarmupResult, Degenerate, Accepts, Last, fixed
    <3>2. QED
      BY <1>1, <2>1, <2>2, <3>1 DEF Check, CheckType, Verdict, fixed
  <2>8. QED
    BY <2>1, <2>2, <2>3, <2>5, <2>6, <2>7, Goes DEF Pcs
<1>4. QED
  BY <1>2, <1>3

\* The counters are read before the canary, at nothing it drafted.
LEMMA CheckCountsBefore ==
  ASSUME CheckInv, NEW p \in Programs, ReadCounts(p), pc[p] = "run" PROVE CheckInv'
<1>1. Check(p) /\ CheckType
  BY DEF CheckInv
<1>2. PICK c \in {<<>>} \cup {<<drafts[1], drafts[2]>>} :
          /\ kind[p] = "warmup" /\ pc' = [pc EXCEPT ![p] = "canary"]
          /\ counts' = [counts EXCEPT ![p].before = c]
  BY DEF ReadCounts, Goto, Rung
<1>3. UNCHANGED <<fixed, engine, lock, seen, size, rows, asked, result, facts>>
  BY DEF ReadCounts
<1>4. c \in Pairs
  BY <1>1 DEF CheckType, Pairs
<1>5. counts' \in [Programs -> [before : Pairs, answer : Words \cup {"none"}, after : Pairs]]
  <2> DEFINE C == [before : Pairs, answer : Words \cup {"none"}, after : Pairs]
             n == [counts[p] EXCEPT !.before = c]
  <2>1. n \in C
    <3>1. counts \in [Programs -> C]
      BY <1>1 DEF CheckType
    <3>2. QED
      BY <1>4, <3>1
  <2>2. counts' = [counts EXCEPT ![p] = n]
    BY <1>1, <1>2 DEF CheckType
  <2> HIDE DEF C, n
  <2>3. QED
    BY <1>1, <2>1, <2>2 DEF CheckType, C
<1>6. CheckType' /\ Sound'
  BY <1>1, <1>2, <1>3, <1>5 DEF CheckInv, CheckType, Pcs, Sound, fixed, engine
<1>7. ASSUME NEW q \in Programs \ {p} PROVE Check(q)'
  BY <1>1, <1>2, <1>3, Others DEF CheckType, Same, Drafting, engine
<1>8. /\ pc'[p] = "canary" /\ counts'[p].before = c
      /\ counts'[p].answer = counts[p].answer /\ counts'[p].after = counts[p].after
  BY <1>1, <1>2 DEF CheckType
<1>9. Order(p)' /\ Record(p)'
  BY <1>1, <1>2, <1>3, <1>8 DEF Check, Order, Inside, Idle, Record, fixed, engine
<1>10. Canary(p)'
  <2>1. Counting(p)'
    BY <1>1, <1>2, <1>3, <1>8 DEF CheckType, Counting, fixed, engine
  <2>2. Counted(p)' /\ Garbled(p)'
    BY <1>1, <1>8 DEF Check, Canary, Counted, Garbled
  <2>3. QED
    BY <2>1, <2>2 DEF Canary
<1>11. Gate(p)' /\ Verdict(p)'
  BY <1>1, <1>2, <1>3, <1>8 DEF Check, Gate, Phases, Kept, Verdict, fixed
<1>12. QED
  BY <1>6, <1>7, <1>9, <1>10, <1>11 DEF CheckInv, Check

\* What is read after the canary tells how the launch decodes, where both were read.
LEMMA CheckCountsAfter ==
  ASSUME CheckInv, NEW p \in Programs, ReadCounts(p), pc[p] = "after" PROVE CheckInv'
<1>1. Check(p) /\ CheckType
  BY DEF CheckInv
<1>2. PICK c \in {<<>>} \cup {<<drafts[1], drafts[2]>>} :
          /\ pc' = [pc EXCEPT ![p] = "judge"] /\ counts' = [counts EXCEPT ![p].after = c]
          /\ rows' = [rows EXCEPT ![p] = Append(@, counts[p].answer)]
  BY DEF ReadCounts, Goto, Row
<1>3. UNCHANGED <<fixed, engine, lock, seen, size, asked, result, facts>>
  BY DEF ReadCounts
<1>4. c \in Pairs
  BY <1>1 DEF CheckType, Pairs
<1>5. counts' \in [Programs -> [before : Pairs, answer : Words \cup {"none"}, after : Pairs]]
  <2> DEFINE C == [before : Pairs, answer : Words \cup {"none"}, after : Pairs]
             n == [counts[p] EXCEPT !.after = c]
  <2>1. n \in C
    <3>1. counts \in [Programs -> C]
      BY <1>1 DEF CheckType
    <3>2. QED
      BY <1>4, <3>1
  <2>2. counts' = [counts EXCEPT ![p] = n]
    BY <1>1, <1>2 DEF CheckType
  <2> HIDE DEF C, n
  <2>3. QED
    BY <1>1, <2>1, <2>2 DEF CheckType, C
<1>6. CheckType' /\ Sound'
  <2>1. rows' = [q \in Programs |-> rows'[q]]
    BY <1>1, <1>2 DEF CheckType
  <2>2. QED
    BY <1>1, <1>2, <1>3, <1>5, <2>1 DEF CheckInv, CheckType, Pcs, Sound, fixed, engine
<1>7. ASSUME NEW q \in Programs \ {p} PROVE Check(q)'
  BY <1>1, <1>2, <1>3, Others DEF CheckType, Same, Drafting, engine
<1>8. /\ pc'[p] = "judge" /\ counts'[p].after = c /\ counts'[p].before = counts[p].before
      /\ rows'[p] = Append(rows[p], counts[p].answer)
  BY <1>1, <1>2 DEF CheckType
<1>9. kind[p] = "warmup" /\ counts[p].answer \in {"right", "wrong", "failed"} /\ rows[p] \in Seq(Words)
  BY <1>1 DEF Check, Order, Record
<1>10. Order(p)' /\ Verdict(p)' /\ Gate(p)'
  BY <1>1, <1>3, <1>8, <1>9
     DEF Check, Order, Inside, Idle, Verdict, Gate, Phases, Kept, fixed, engine
<1>11. /\ rows'[p] \in Seq(Words) /\ Len(rows'[p]) = Len(rows[p]) + 1 /\ Len(rows[p]) \in Nat
       /\ rows'[p][Len(rows[p]) + 1] = counts[p].answer
       /\ \A i \in 1..Len(rows[p]) : rows'[p][i] = rows[p][i]
  BY <1>8, <1>9 DEF Words
<1>12. Record(p)'
  <2>1. ASSUME NEW x \in Words \ {"right"}
        PROVE  x \in facts'[p] <=> \E i \in 1..Len(rows'[p]) : rows'[p][i] = x
    <3>1. x \in facts[p] <=> \/ \E i \in 1..Len(rows[p]) : rows[p][i] = x
                             \/ counts[p].answer = x
      BY <1>1, <1>9 DEF Check, Record
    <3> DEFINE row == rows[p]
               new == rows'[p]
               last == counts[p].answer
    <3>2. /\ Len(new) = Len(row) + 1 /\ Len(row) \in Nat /\ new[Len(row) + 1] = last
          /\ \A i \in 1..Len(row) : new[i] = row[i]
      BY <1>11
    <3>3. facts'[p] = facts[p]
      BY <1>3
    <3> HIDE DEF row, new, last
    <3>4. (\E i \in 1..Len(new) : new[i] = x) <=> (\E i \in 1..Len(row) : row[i] = x) \/ last = x
      <4>1. ASSUME NEW i \in 1..Len(new), new[i] = x
            PROVE  (\E k \in 1..Len(row) : row[k] = x) \/ last = x
        <5>1. i \in 1..Len(row) \/ i = Len(row) + 1
          BY <3>2
        <5> QED BY <3>2, <4>1, <5>1
      <4>2. ASSUME NEW k \in 1..Len(row), row[k] = x PROVE \E i \in 1..Len(new) : new[i] = x
        <5>1. k \in 1..Len(new) /\ new[k] = x
          BY <3>2, <4>2
        <5> QED BY <5>1
      <4>3. Len(row) + 1 \in 1..Len(new)
        BY <3>2
      <4>4. ASSUME last = x PROVE \E i \in 1..Len(new) : new[i] = x
        BY <3>2, <4>3, <4>4
      <4> QED BY Zenon, <4>1, <4>2, <4>4
    <3>5. x \in facts[p] <=> (\E i \in 1..Len(row) : row[i] = x) \/ last = x
      BY <3>1 DEF row, last
    <3>6. x \in facts'[p] <=> \E i \in 1..Len(new) : new[i] = x
      BY <3>3, <3>4, <3>5
    <3>7. QED
      BY <3>6 DEF new
  <2>2. \A i \in 1..Len(rows[p]) : rows[p][i] \in {"right", "failed"}
    BY <1>1, <1>9 DEF Check, Record
  <2>3. \A i \in 1..Len(rows'[p]) : /\ rows'[p][i] \in {"right", "failed", "wrong"}
                                    /\ rows'[p][i] = "wrong" => i = Len(rows'[p])
    BY SMTT(20), <1>9, <1>11, <2>2
  <2>4. rows'[p] # <<>>
    BY <1>11
  <2>5. facts'[p] \cap {"misread", "slip", "miss", "evicted"} = {}
    BY <1>1, <1>3, <1>9 DEF Check, Record
  <2>6. QED
    BY <1>3, <1>8, <1>9, <1>11, <2>1, <2>3, <2>4, <2>5 DEF Record, fixed
<1>13. Counted(p)'
  <2> DEFINE b == counts[p].before
  <2> SUFFICES ASSUME "moved" \notin facts[p], b # <<>>, c # <<>>
               PROVE  /\ quality[seen[p]] = "sound" => c[1] - b[1] < MinDrafts \/ c[2] > b[2]
                      /\ quality[seen[p]] = "draftless" \/ ~profile.mtp => c[2] = b[2]
                      /\ ~profile.mtp => c[1] = b[1]
    BY <1>3, <1>8 DEF Counted, fixed
  <2>1. /\ b[1] <= drafts[1] /\ b[2] <= drafts[2]
        /\ drafts[2] = b[2] => drafts[3] >= drafts[1] - b[1]
        /\ quality[seen[p]] = "draftless" \/ ~profile.mtp => drafts[2] = b[2]
        /\ ~profile.mtp => drafts[1] = b[1]
    BY <1>1 DEF Check, Canary, Counting
  <2>2. head.up /\ head.no = seen[p]
    BY <1>1 DEF Check, Order, Idle
  <2>3. quality[seen[p]] = "sound" => drafts[3] < MinDrafts
    BY <2>2 DEF CheckInv, Sound
  <2>4. c[1] = drafts[1] /\ c[2] = drafts[2] /\ drafts[1] \in Nat /\ drafts[2] \in Nat
        /\ drafts[3] \in Nat /\ b[1] \in Nat /\ b[2] \in Nat
    BY <1>1, <1>2 DEF CheckType, Pairs
  <2> HIDE DEF b
  <2>5. QED
    BY <2>1, <2>3, <2>4, HeadChecksAssumption
<1>14. Counting(p)' /\ Garbled(p)'
  BY <1>1, <1>3, <1>8, <1>9, <1>11 DEF Check, Canary, Counting, Garbled, fixed
<1>15. QED
  BY <1>6, <1>7, <1>10, <1>12, <1>13, <1>14 DEF CheckInv, Check, Canary

\* A canary that got no answer ends the ladder, and leaves nothing to count.
LEMMA CheckCanaryFails ==
  ASSUME CheckInv, NEW p \in Programs, pc[p] = "canary",
         Row(p, "failed"), Note(p, {"failed"}), Goto(p, "judge"), UNCHANGED <<drafts, counts>>,
         UNCHANGED <<fixed, head, cache, lock, seen, size, asked, result>>
  PROVE  CheckInv'
<1>1. Check(p) /\ CheckType
  BY DEF CheckInv
<1>2. /\ rows' = [rows EXCEPT ![p] = Append(@, "failed")]
      /\ facts' = [facts EXCEPT ![p] = @ \cup {"failed"}]
      /\ pc' = [pc EXCEPT ![p] = "judge"]
  BY DEF Row, Note, Goto
<1>3. CheckType' /\ Sound'
  <2>1. rows' = [q \in Programs |-> rows'[q]]
    BY <1>1, <1>2 DEF CheckType
  <2>2. facts' \in [Programs -> SUBSET Facts]
    BY <1>1, <1>2 DEF CheckType, Facts, Words
  <2>3. QED
    BY <1>1, <1>2, <2>1, <2>2 DEF CheckInv, CheckType, Pcs, Sound, fixed
<1>4. ASSUME NEW q \in Programs \ {p} PROVE Check(q)'
  BY <1>1, <1>2, Others DEF CheckType, Same, Drafting
<1>5. /\ pc'[p] = "judge" /\ rows'[p] = Append(rows[p], "failed")
      /\ facts'[p] = facts[p] \cup {"failed"}
  BY <1>1, <1>2 DEF CheckType
<1>6. kind[p] = "warmup" /\ rows[p] \in Seq(Words) /\ counts[p].after = <<>>
  BY <1>1 DEF Check, Order, Record, Canary, Counted
<1>7. Order(p)' /\ Verdict(p)' /\ Canary(p)' /\ Gate(p)'
  <2>1. Order(p)' /\ Verdict(p)' /\ Gate(p)'
    BY <1>1, <1>5, <1>6 DEF Check, Order, Inside, Idle, Verdict, Gate, Phases, Kept, fixed
  <2>2. rows'[p][Len(rows'[p])] = "failed"
    BY <1>5, <1>6
  <2>3. Canary(p)'
    BY <1>5, <1>6, <2>2 DEF Canary, Counting, Counted, Garbled
  <2>4. QED
    BY <2>1, <2>3
<1>8. Record(p)'
  <2>1. /\ rows'[p] \in Seq(Words) /\ Len(rows'[p]) = Len(rows[p]) + 1 /\ Len(rows[p]) \in Nat
        /\ rows'[p][Len(rows[p]) + 1] = "failed"
        /\ \A i \in 1..Len(rows[p]) : rows'[p][i] = rows[p][i]
    BY <1>5, <1>6 DEF Words
  <2>2. ASSUME NEW x \in Words \ {"right"}
        PROVE  x \in facts'[p] <=> \E i \in 1..Len(rows'[p]) : rows'[p][i] = x
    <3>1. x \in facts[p] <=> \E i \in 1..Len(rows[p]) : rows[p][i] = x
      BY <1>1, <1>6 DEF Check, Record
    <3>2. QED
      BY <1>5, <2>1, <3>1
  <2>3. \A i \in 1..Len(rows[p]) : rows[p][i] \in {"right", "failed"}
    BY <1>1, <1>6 DEF Check, Record
  <2>4. \A i \in 1..Len(rows'[p]) : rows'[p][i] \in {"right", "failed"}
    BY <2>1, <2>3
  <2>5. rows'[p] # <<>> /\ facts'[p] \cap {"misread", "slip", "miss", "evicted"} = {}
    BY <1>1, <1>5, <1>6, <2>1 DEF Check, Record
  <2>6. QED
    BY <1>5, <1>6, <2>1, <2>2, <2>4, <2>5 DEF Record, fixed
<1>9. QED
  BY <1>3, <1>4, <1>7, <1>8 DEF CheckInv, Check

\* The canary is answered, and drafts as any request of the launch does.
LEMMA CheckCanary == ASSUME CheckInv, NEW p \in Programs, AskCanary(p) PROVE CheckInv'
<1>1. Check(p) /\ CheckType
  BY DEF CheckInv
<1>2. pc[p] = "canary" /\ UNCHANGED <<fixed, head, cache, lock, seen, size, asked, result>>
  BY DEF AskCanary
<1>3. CASE Row(p, "failed") /\ Note(p, {"failed"}) /\ Goto(p, "judge")
           /\ UNCHANGED <<drafts, counts>>
  BY <1>2, <1>3, CheckCanaryFails
<1>4. CASE /\ head.up /\ Goto(p, "after") /\ \E n \in {0, 1, MinDrafts} : Draft(n)
           /\ \E answer \in {"right", "wrong", "failed"} :
                 /\ quality[head.no] = "garbled" => answer # "right"
                 /\ counts' = [counts EXCEPT ![p].answer = answer]
                 /\ Note(p, {answer} \ {"right"})
           /\ UNCHANGED rows
  <2>1. PICK answer \in {"right", "wrong", "failed"} :
            /\ quality[head.no] = "garbled" => answer # "right"
            /\ counts' = [counts EXCEPT ![p].answer = answer]
            /\ facts' = [facts EXCEPT ![p] = @ \cup ({answer} \ {"right"})]
    BY <1>4 DEF Note
  <2>2. pc' = [pc EXCEPT ![p] = "after"] /\ UNCHANGED rows
    BY <1>4 DEF Goto
  <2>3. Drafting
    BY <1>4, HeadChecksAssumption DEF Drafting
  <2>4. drafts' \in Nat \X Nat \X Nat /\ Sound'
    BY <1>2, <2>3, DraftsType
  <2>5. counts' \in [Programs -> [before : Pairs, answer : Words \cup {"none"}, after : Pairs]]
    <3> DEFINE C == [before : Pairs, answer : Words \cup {"none"}, after : Pairs]
               n == [counts[p] EXCEPT !.answer = answer]
    <3>1. counts \in [Programs -> C] /\ answer \in Words
      BY <1>1 DEF CheckType, Words
    <3>2. n \in C
      BY <3>1
    <3>3. counts' = [counts EXCEPT ![p] = n]
      BY <2>1, <3>1
    <3> HIDE DEF C, n
    <3>4. QED
      BY <3>1, <3>2, <3>3 DEF C
  <2>6. facts' \in [Programs -> SUBSET Facts]
    BY <1>1, <2>1 DEF CheckType, Facts, Words
  <2>7. CheckType'
    BY <1>1, <1>2, <2>2, <2>4, <2>5, <2>6 DEF CheckType, Pcs, fixed
  <2>8. ASSUME NEW q \in Programs \ {p} PROVE Check(q)'
    BY <1>1, <1>2, <2>1, <2>2, <2>3, Others DEF CheckType, Same
  <2>9. /\ pc'[p] = "after" /\ rows'[p] = rows[p] /\ counts'[p].answer = answer
        /\ counts'[p].before = counts[p].before /\ counts'[p].after = counts[p].after
        /\ facts'[p] = facts[p] \cup ({answer} \ {"right"})
    BY <1>1, <2>1, <2>2 DEF CheckType
  <2>10. kind[p] = "warmup" /\ rows[p] \in Seq(Words)
    BY <1>1, <1>2 DEF Check, Order, Record
  <2>11. Order(p)' /\ Verdict(p)' /\ Gate(p)'
    BY <1>1, <1>2, <2>9, <2>10
       DEF Check, Order, Inside, Idle, Verdict, Gate, Phases, Kept, fixed
  <2>12. Record(p)'
    BY <1>1, <1>2, <2>9, <2>10 DEF Check, Record, Words, fixed
  <2>13. Counting(p)'
    BY <1>2, <2>3, <2>9, DraftsCount
  <2>14. Counted(p)'
    BY <1>1, <1>2, <2>9 DEF Check, Canary, Counted
  <2>15. Garbled(p)'
    <3>1. "moved" \notin facts'[p] => head.no = seen[p]
      BY <1>1, <1>2, <2>9 DEF Check, Order, Idle
    <3>2. QED
      BY <1>2, <2>1, <2>9, <3>1 DEF Garbled, fixed
  <2>16. QED
    BY <2>4, <2>7, <2>8, <2>11, <2>12, <2>13, <2>14, <2>15 DEF CheckInv, Check, Canary
<1>5. QED
  BY <1>2, <1>3, <1>4 DEF AskCanary

\* Other clients draft, and take no answer of a check.
LEMMA CheckOtherClient == ASSUME CheckInv, OtherClient PROVE CheckInv'
<1>1. Drafting /\ UNCHANGED <<fixed, head, cache, lock, own, facts>>
  BY HeadChecksAssumption DEF OtherClient, Drafting
<1>2. drafts' \in Nat \X Nat \X Nat /\ Sound'
  BY <1>1, DraftsType
<1>3. CheckType'
  BY <1>1, <1>2 DEF CheckInv, CheckType, own, fixed
<1>4. ASSUME NEW p \in Programs PROVE Check(p)'
  BY <1>1, Others DEF Same, own
<1>5. QED
  BY <1>2, <1>3, <1>4 DEF CheckInv

\* Another launch moves every check that runs, none that is over.
LEMMA CheckReplace == ASSUME CheckInv, Replace PROVE CheckInv'
<1>1. CheckType
  BY DEF CheckInv
<1>2. /\ facts' = [p \in Programs |-> facts[p] \cup IF p \in Busy THEN {"moved"} ELSE {}]
      /\ drafts' = <<0, 0, 0>> /\ cache' = [p \in Programs |-> NoPrefix]
      /\ UNCHANGED <<fixed, lock, own>>
  BY DEF Replace
<1>3. head' \in [no : 1..Launches, up : BOOLEAN]
  <2>1. CASE head.up
    BY <1>1, <2>1 DEF CheckType, Replace
  <2>2. CASE ~head.up
    BY <1>1, <2>2, HeadChecksAssumption DEF CheckType, Replace
  <2>3. QED
    BY <2>1, <2>2
<1>4. Sound'
  BY <1>2, HeadChecksAssumption DEF Sound
<1>5. CheckType'
  <2>1. facts' \in [Programs -> SUBSET Facts]
    BY <1>1, <1>2 DEF CheckType, Facts
  <2>2. cache' \in [Programs -> [there : BOOLEAN, bad : SUBSET Tasks]]
    BY <1>2 DEF NoPrefix
  <2>3. QED
    BY <1>1, <1>2, <1>3, <2>1, <2>2 DEF CheckType, own, fixed
<1>6. ASSUME NEW p \in Programs PROVE Check(p)'
  <2>1. Check(p)
    BY DEF CheckInv
  <2>2. /\ facts[p] \subseteq facts'[p] /\ facts'[p] \subseteq facts[p] \cup {"moved"}
        /\ pc[p] \notin Idle => "moved" \in facts'[p]
    BY <1>2 DEF Busy, Idle
  <2>3. Order(p)' /\ Verdict(p)'
    <3>1. Order(p)'
      BY <1>2, <2>1, <2>2 DEF Check, Order, Inside, fixed, own
    <3>2. /\ WarmupResult(p)' = WarmupResult(p) /\ GateResult(p)' = GateResult(p)
      <4>1. WarmupResult(p)' = WarmupResult(p)
        BY <1>2 DEF WarmupResult, Degenerate, Accepts, Last, fixed, own
      <4>2. GateResult(p)' = GateResult(p)
        BY <1>2 DEF GateResult, Judge, Missed, own
      <4>3. QED
        BY <4>1, <4>2
    <3>3. MojibakeResult(p)' = MojibakeResult(p)
      BY <1>2 DEF MojibakeResult, JudgeText, own
    <3>4. AgreementResult(p)' = AgreementResult(p)
      BY <1>2 DEF AgreementResult, Errors, SelfChecks, own
    <3>5. QED
      BY <1>2, <2>1, <3>1, <3>2, <3>3, <3>4 DEF Check, Verdict, fixed, own
  <2>4. Record(p)'
    BY <1>2, <2>1, <2>2 DEF Check, Record, Words, fixed, own
  <2>5. Canary(p)'
    BY <1>2, <2>1, <2>2 DEF Check, Canary, Counting, Counted, Garbled, Idle, fixed, own
  <2>6. Phases(p)'
    <3>1. Answered(p)' = Answered(p)
      BY <1>2 DEF Answered, Recorded, own
    <3>2. facts'[p] \cap (Facts \ {"moved"}) = facts[p] \cap (Facts \ {"moved"})
      BY <2>2
    <3>3. QED
      BY <1>2, <2>1, <2>2, <3>1, <3>2 DEF Check, Gate, Phases, Facts, Words, fixed, own
  <2>7. Kept(p)'
    BY <1>2, <2>1, <2>2 DEF Check, Gate, Phases, Kept, Idle, fixed, own
  <2>8. QED
    BY <2>3, <2>4, <2>5, <2>6, <2>7 DEF Check, Gate
<1>7. QED
  BY <1>4, <1>5, <1>6 DEF CheckInv

\* While it asks, a gate has recorded nothing, or its cold phase.
LEMMA GateRows ==
  ASSUME NEW p \in Programs, Phases(p), kind[p] = "prefix-gate", pc[p] = "ask"
  PROVE  \/ rows[p] = <<>> /\ Len(rows[p]) = 0
         \/ \E cold \in [Tasks -> {"right", "wrong", "failed"}] :
               rows[p] = <<cold>> /\ Len(rows[p]) = 1 /\ rows[p] # <<>>
<1>1. Len(rows[p]) < 2
  BY DEF Phases
<1>2. Len(<<>>) = 0 /\ \A c, w : Len(<<c, w>>) = 2 /\ Len(<<c>>) = 1 /\ <<c>> # <<>>
  OBVIOUS
<1>3. \A cold, warm : rows[p] # <<cold, warm>>
  BY <1>1, <1>2
<1>4. \/ rows[p] = <<>>
      \/ \E cold \in [Tasks -> {"right", "wrong", "failed"}] : rows[p] = <<cold>>
  BY <1>3 DEF Phases
<1>5. QED
  BY <1>2, <1>4

\* A step of a gate that changes only what it asked, its record, its cache and its facts.
LEMMA GateStep ==
  ASSUME CheckInv, NEW p \in Programs, pc[p] = "ask",
         UNCHANGED <<fixed, head, drafts, lock, seen, size, counts, result>>,
         pc' = [pc EXCEPT ![p] = pc'[p]], pc'[p] \in {"ask", "judge"},
         NEW f \in SUBSET Facts, facts' = [facts EXCEPT ![p] = @ \cup f],
         NEW a \in [Tasks -> Requests], asked' = [asked EXCEPT ![p] = a],
         pc'[p] = "judge" => a = Unsent,
         NEW c \in [there : BOOLEAN, bad : SUBSET Tasks], cache' = [cache EXCEPT ![p] = c],
         NEW r, rows' = [rows EXCEPT ![p] = r],
         Phases(p)', Kept(p)'
  PROVE  CheckInv'
<1>1. Check(p) /\ CheckType
  BY DEF CheckInv
<1>2. kind[p] = "prefix-gate" /\ counts[p].after = <<>>
  BY <1>1 DEF Check, Order, Canary, Counted
<1>3. CheckType' /\ Sound'
  <2>1. pc' \in [Programs -> Pcs]
    BY <1>1 DEF CheckType, Pcs
  <2>2. facts' \in [Programs -> SUBSET Facts]
    BY <1>1 DEF CheckType
  <2>3. asked' \in [Programs -> [Tasks -> Requests]]
    BY <1>1 DEF CheckType
  <2>4. cache' \in [Programs -> [there : BOOLEAN, bad : SUBSET Tasks]]
    BY <1>1 DEF CheckType
  <2>5. rows' = [q \in Programs |-> rows'[q]]
    BY <1>1 DEF CheckType
  <2>6. QED
    BY <1>1, <2>1, <2>2, <2>3, <2>4, <2>5 DEF CheckInv, CheckType, Sound, fixed
<1>4. ASSUME NEW q \in Programs \ {p} PROVE Check(q)'
  <2>1. Same(q) /\ cache'[q] = cache[q]
    BY <1>1 DEF CheckType, Same
  <2>2. QED
    BY <2>1, Others DEF Drafting
<1>5. Order(p)'
  <2>1. asked'[p] = a /\ facts[p] \subseteq facts'[p]
    BY <1>1 DEF CheckType
  <2>2. QED
    BY <1>1, <1>2, <2>1 DEF Check, Order, Inside, Idle, fixed
<1>6. Record(p)' /\ Verdict(p)'
  BY <1>1, <1>2 DEF Check, Record, Verdict, fixed
<1>7. Canary(p)'
  BY <1>2 DEF Canary, Counting, Counted, Garbled, fixed
<1>8. QED
  BY <1>3, <1>4, <1>5, <1>6, <1>7 DEF CheckInv, Check, Gate

\* A request is sent: what it will read is what the cache holds now.
LEMMA CheckSend ==
  ASSUME CheckInv, NEW p \in Programs, NEW t \in Tasks, Send(p, t) PROVE CheckInv'
<1> DEFINE sent == [answer |-> "sent", hit |-> cache[p].there, bad |-> t \in cache[p].bad]
           a == [asked[p] EXCEPT ![t] = sent]
<1>1. Check(p) /\ CheckType /\ kind[p] = "prefix-gate"
  BY DEF CheckInv, Check, Order, Send
<1>2. /\ pc[p] = "ask" /\ asked[p][t].answer = "unsent"
      /\ UNCHANGED <<fixed, engine, lock, pc, seen, size, rows, counts, result, facts>>
  BY DEF Send
<1>3. asked[p] \in [Tasks -> Requests] /\ sent \in Requests /\ a \in [Tasks -> Requests]
  <2>1. asked[p] \in [Tasks -> Requests] /\ cache[p] \in [there : BOOLEAN, bad : SUBSET Tasks]
    BY <1>1 DEF CheckType
  <2>2. sent \in Requests
    BY <2>1 DEF Requests
  <2>3. QED
    BY <2>1, <2>2
<1>4. sent.answer = "sent" /\ sent.hit = cache[p].there
  OBVIOUS
<1>5. asked' = [asked EXCEPT ![p] = a]
  BY <1>1 DEF Send, CheckType
<1> HIDE DEF sent, a
<1>6. asked'[p] = a /\ a[t] = sent /\ \A u \in Tasks \ {t} : a[u] = asked[p][u]
  BY <1>1, <1>3, <1>5 DEF CheckType, a
<1>7. Phases(p)'
  <2>1. \A x \in {"wrong", "failed"} : x \in Answered(p)' <=> x \in Answered(p)
    BY <1>2, <1>4, <1>6 DEF Answered, Recorded
  <2>2. \A u \in Tasks : asked[p][u].answer \notin {"unsent", "sent"} => asked'[p][u] = asked[p][u]
    BY <1>2, <1>6
  <2>3. QED
    BY <1>1, <1>2, <2>1, <2>2 DEF Check, Gate, Phases, fixed
<1>8. Kept(p)'
  <2> SUFFICES ASSUME facts[p] \cap {"evicted", "failed", "moved"} = {}
               PROVE  /\ rows[p] # <<>> /\ Tasks # {} => cache[p].there
                      /\ \A u \in Tasks :
                            /\ a[u].hit \/ a[u].answer \notin {"unsent", "sent"} => cache[p].there
                            /\ rows[p] # <<>> /\ a[u].answer # "unsent" => a[u].hit
                      /\ Len(rows[p]) = 2 => \A u \in Tasks : rows[p][2][u].hit
    BY <1>1, <1>2, <1>6 DEF Kept, fixed, engine
  <2>1. QED
    BY <1>1, <1>2, <1>4, <1>6 DEF Check, Gate, Kept
<1>9. /\ pc' = [pc EXCEPT ![p] = pc'[p]] /\ facts' = [facts EXCEPT ![p] = @ \cup {}]
      /\ cache' = [cache EXCEPT ![p] = cache[p]] /\ rows' = [rows EXCEPT ![p] = rows[p]]
      /\ cache[p] \in [there : BOOLEAN, bad : SUBSET Tasks] /\ pc'[p] = "ask"
  BY <1>1, <1>2 DEF CheckType, engine
<1>10. {} \in SUBSET Facts
  OBVIOUS
<1>11. QED
  BY <1>2, <1>3, <1>5, <1>7, <1>8, <1>9, <1>10, GateStep DEF engine

\* An eviction is told by the facts of the check that would have read what was kept.
LEMMA CheckEvict == ASSUME CheckInv, NEW p \in Programs, Evict(p) PROVE CheckInv'
<1>1. Check(p) /\ CheckType /\ kind[p] = "prefix-gate"
  BY DEF CheckInv, Check, Order, Evict
<1>2. /\ pc[p] = "ask" /\ cache' = [cache EXCEPT ![p] = NoPrefix]
      /\ facts' = [facts EXCEPT ![p] = @ \cup {"evicted"}]
      /\ UNCHANGED <<fixed, head, drafts, lock, own>>
  BY DEF Evict, Note
<1>3. facts'[p] = facts[p] \cup {"evicted"}
  BY <1>1, <1>2 DEF CheckType
<1>4. Phases(p)'
  <2>1. Answered(p)' = Answered(p)
    BY <1>2 DEF Answered, Recorded, own
  <2>2. QED
    BY <1>1, <1>2, <1>3, <2>1 DEF Check, Gate, Phases, own, fixed
<1>5. Kept(p)'
  BY <1>3 DEF Kept
<1>6. /\ pc' = [pc EXCEPT ![p] = pc'[p]] /\ asked' = [asked EXCEPT ![p] = asked[p]]
      /\ rows' = [rows EXCEPT ![p] = rows[p]] /\ asked[p] \in [Tasks -> Requests]
      /\ pc'[p] = "ask"
  BY <1>1, <1>2 DEF CheckType, own
<1>7. NoPrefix \in [there : BOOLEAN, bad : SUBSET Tasks] /\ {"evicted"} \in SUBSET Facts
  BY DEF NoPrefix, Facts
<1>8. QED
  BY <1>2, <1>4, <1>5, <1>6, <1>7, GateStep DEF own

\* A reply says whether its request read the cache, and leaves there what it computed.
LEMMA CheckReply ==
  ASSUME CheckInv, NEW p \in Programs, NEW t \in Tasks, Reply(p, t) PROVE CheckInv'
<1> DEFINE r == asked[p][t]
<1>1. Check(p) /\ CheckType /\ kind[p] = "prefix-gate"
  BY DEF CheckInv, Check, Order, Reply
<1>2. /\ pc[p] = "ask" /\ r.answer = "sent"
      /\ UNCHANGED <<fixed, head, drafts, lock, pc, seen, size, rows, counts, result>>
  BY DEF Reply
<1>3. PICK x \in {"right", "wrong", "failed"} :
         /\ r.bad => x # "right"
         /\ asked' = [asked EXCEPT ![p][t] =
               [answer |-> x, hit |-> r.hit /\ x # "failed", bad |-> FALSE]]
         /\ Note(p, (IF r.bad THEN {"misread"} ELSE IF x = "wrong" THEN {"slip"} ELSE {})
                      \cup ({x} \cap {"failed"})
                      \cup (IF rows[p] # <<>> /\ ~r.hit THEN {"miss"} ELSE {}))
         /\ IF x = "failed" THEN UNCHANGED cache ELSE Keep(p, t)
  BY DEF Reply, Answers
<1> DEFINE f == (IF r.bad THEN {"misread"} ELSE IF x = "wrong" THEN {"slip"} ELSE {})
                  \cup ({x} \cap {"failed"})
                  \cup (IF rows[p] # <<>> /\ ~r.hit THEN {"miss"} ELSE {})
           new == [answer |-> x, hit |-> r.hit /\ x # "failed", bad |-> FALSE]
           a == [asked[p] EXCEPT ![t] = new]
<1>4. asked[p] \in [Tasks -> Requests] /\ new \in Requests /\ a \in [Tasks -> Requests]
  <2>1. asked[p] \in [Tasks -> Requests]
    BY <1>1 DEF CheckType
  <2>2. new \in Requests
    BY DEF Requests
  <2>3. QED
    BY <2>1, <2>2
<1>5. asked' = [asked EXCEPT ![p] = a] /\ facts' = [facts EXCEPT ![p] = @ \cup f]
  <2>1. asked' = [asked EXCEPT ![p] = a]
    BY <1>1, <1>3 DEF CheckType
  <2>2. QED
    BY <1>3, <2>1 DEF Note
<1>6. f \in SUBSET Facts
  BY DEF Facts, Words
<1>7. PICK c \in [there : BOOLEAN, bad : SUBSET Tasks] :
         /\ cache' = [cache EXCEPT ![p] = c]
         /\ cache[p].there => c.there
         /\ x # "failed" => r.hit \/ c.there
  <2>1. cache[p] \in [there : BOOLEAN, bad : SUBSET Tasks]
    BY <1>1 DEF CheckType
  <2>2. CASE UNCHANGED cache /\ (x # "failed" => r.hit \/ cache[p].there)
    <3>1. cache' = [cache EXCEPT ![p] = cache[p]]
      BY <1>1, <2>2 DEF CheckType
    <3>2. QED
      BY <2>1, <2>2, <3>1
  <2>3. CASE \E bad \in SUBSET Tasks :
                 cache' = [cache EXCEPT ![p] = [there |-> TRUE, bad |-> bad]]
    <3>1. PICK bad \in SUBSET Tasks :
              cache' = [cache EXCEPT ![p] = [there |-> TRUE, bad |-> bad]]
      BY <2>3
    <3>2. [there |-> TRUE, bad |-> bad] \in [there : BOOLEAN, bad : SUBSET Tasks]
      OBVIOUS
    <3>3. QED
      BY <3>1, <3>2
  <2>4. QED
    BY <1>3, <2>2, <2>3 DEF Keep
<1>8. /\ new.answer = x /\ new.hit = (r.hit /\ x # "failed")
      /\ x = "failed" <=> "failed" \in f
      /\ x = "wrong" => f \cap {"misread", "slip"} # {}
      /\ f \cap {"misread", "slip"} # {} => x \in {"wrong", "failed"}
      /\ "miss" \in f => rows[p] # <<>> /\ ~new.hit
      /\ f \cap {"wrong", "broken", "short", "foreign", "evicted", "moved"} = {}
  BY <1>3
<1> HIDE DEF f, new, a
<1>9. /\ asked'[p] = a /\ a[t] = new /\ facts'[p] = facts[p] \cup f /\ cache'[p] = c
      /\ \A u \in Tasks \ {t} : a[u] = asked[p][u]
  BY <1>1, <1>4, <1>5, <1>7 DEF CheckType, a
<1>10. Phases(p)'
  <2>1. ASSUME NEW y \in {"wrong", "failed"}
        PROVE  y \in Answered(p)' <=> y \in Answered(p) \/ y = x
    <3>1. (\E u \in Tasks : a[u].answer = y)
              <=> (\E u \in Tasks : asked[p][u].answer = y) \/ y = x
      BY <1>2, <1>8, <1>9
    <3>2. Recorded(p)' = Recorded(p)
      BY <1>2 DEF Recorded
    <3>3. Answered(p)' = {a[u].answer : u \in Tasks} \cup Recorded(p)
      BY <1>9, <3>2 DEF Answered
    <3>4. y \in Answered(p)' <=> (\E u \in Tasks : a[u].answer = y) \/ y \in Recorded(p)
      BY <3>3
    <3>5. y \in Answered(p) <=> (\E u \in Tasks : asked[p][u].answer = y) \/ y \in Recorded(p)
      BY DEF Answered
    <3>6. QED
      BY <3>1, <3>4, <3>5
  <2>2. rows[p] # <<>> => Len(rows[p]) = 1
    BY <1>1, <1>2, GateRows DEF Check, Gate
  <2>3. "miss" \in facts'[p] => Len(rows[p]) = 1 /\ \E u \in Tasks :
            a[u].answer \notin {"unsent", "sent"} /\ ~a[u].hit
    <3>1. CASE "miss" \in f
      BY <1>8, <1>9, <2>2, <3>1
    <3>2. CASE "miss" \in facts[p]
      BY <1>1, <1>2, <1>9, <3>2 DEF Check, Gate, Phases
    <3>3. QED
      BY <1>9, <3>1, <3>2
  <2>4. facts'[p] \cap {"misread", "slip"} # {} => Answered(p)' \cap {"wrong", "failed"} # {}
    BY <1>1, <1>8, <1>9, <2>1 DEF Check, Gate, Phases
  <2>5. /\ "failed" \in facts'[p] <=> "failed" \in Answered(p)'
        /\ "wrong" \in Answered(p)' => facts'[p] \cap {"misread", "slip"} # {}
    BY <1>1, <1>8, <1>9, <2>1 DEF Check, Gate, Phases
  <2>6. facts'[p] \cap {"wrong", "broken", "short", "foreign"} = {}
    BY <1>1, <1>8, <1>9 DEF Check, Gate, Phases
  <2>7. QED
    BY <1>1, <1>2, <1>9, <2>3, <2>4, <2>5, <2>6 DEF Check, Gate, Phases, fixed
<1>11. Kept(p)'
  <2> SUFFICES ASSUME facts'[p] \cap {"evicted", "failed", "moved"} = {}
               PROVE  /\ rows[p] # <<>> /\ Tasks # {} => c.there
                      /\ \A u \in Tasks :
                            /\ a[u].hit \/ a[u].answer \notin {"unsent", "sent"} => c.there
                            /\ rows[p] # <<>> /\ a[u].answer # "unsent" => a[u].hit
                      /\ Len(rows[p]) = 2 => \A u \in Tasks : rows[p][2][u].hit
    BY <1>1, <1>2, <1>9 DEF Kept, fixed
  <2>1. facts[p] \cap {"evicted", "failed", "moved"} = {} /\ x # "failed"
    BY <1>8, <1>9
  <2>2. /\ rows[p] # <<>> /\ Tasks # {} => cache[p].there
        /\ \A u \in Tasks :
              /\ asked[p][u].hit \/ asked[p][u].answer \notin {"unsent", "sent"} =>
                    cache[p].there
              /\ rows[p] # <<>> /\ asked[p][u].answer # "unsent" => asked[p][u].hit
        /\ Len(rows[p]) = 2 => \A u \in Tasks : rows[p][2][u].hit
    BY <1>1, <1>2, <2>1 DEF Check, Gate, Kept
  <2>3. c.there
    BY <1>7, <2>1, <2>2
  <2>4. rows[p] # <<>> => a[t].hit
    BY <1>2, <1>8, <1>9, <2>1, <2>2
  <2>5. QED
    BY <1>9, <2>2, <2>3, <2>4
<1>12. /\ pc' = [pc EXCEPT ![p] = pc'[p]] /\ rows' = [rows EXCEPT ![p] = rows[p]]
       /\ pc'[p] = "ask"
  BY <1>1, <1>2 DEF CheckType
<1>13. QED
  BY <1>2, <1>4, <1>5, <1>6, <1>7, <1>10, <1>11, <1>12, GateStep

\* Two rows, one after the other.
LEMMA Two == ASSUME NEW S, NEW x \in S, NEW y \in S PROVE Append(<<x>>, y) = <<x, y>>
<1> DEFINE s == Append(<<x>>, y)
           t == <<x, y>>
<1>1. s \in Seq(S) /\ t \in Seq(S)
  OBVIOUS
<1>2. Len(s) = 2 /\ s[1] = x /\ s[2] = y
  OBVIOUS
<1>3. Len(t) = 2 /\ t[1] = x /\ t[2] = y
  OBVIOUS
<1> HIDE DEF s, t
<1>4. \A i \in 1..Len(s) : s[i] = t[i]
  BY <1>2, <1>3
<1>5. s = t
  BY <1>1, <1>2, <1>3, <1>4, SeqEqual
<1>6. QED
  BY <1>5 DEF s, t

\* The pool is joined: the phase is recorded, and nothing is asked any more.
LEMMA CheckEndPhase == ASSUME CheckInv, NEW p \in Programs, EndPhase(p) PROVE CheckInv'
<1>1. Check(p) /\ CheckType /\ kind[p] = "prefix-gate"
  BY DEF CheckInv, Check, Order, EndPhase
<1>2. /\ pc[p] = "ask" /\ \A t \in Tasks : asked[p][t].answer \notin {"unsent", "sent"}
      /\ UNCHANGED <<fixed, engine, lock, seen, size, counts, result, facts>>
      /\ asked' = [asked EXCEPT ![p] = Unsent]
      /\ rows[p] = <<>> => pc' = pc
      /\ rows[p] # <<>> => pc' = [pc EXCEPT ![p] = "judge"]
  BY DEF EndPhase, Goto
<1>3. /\ asked[p] \in [Tasks -> Requests]
      /\ \A t \in Tasks : asked[p][t].answer \in {"right", "wrong", "failed"}
  BY <1>1, <1>2 DEF CheckType, Requests
<1>4. Unsent \in [Tasks -> Requests] /\ \A t \in Tasks : Unsent[t].answer = "unsent"
                                                         /\ ~Unsent[t].hit
  BY DEF Unsent, Requests
<1> DEFINE r == Append(rows[p], IF rows[p] = <<>> THEN [t \in Tasks |-> asked[p][t].answer]
                                ELSE asked[p])
<1>5. rows' = [rows EXCEPT ![p] = r]
  BY DEF EndPhase, Row
<1> HIDE DEF r
<1>6. rows'[p] = r /\ asked'[p] = Unsent /\ facts'[p] = facts[p] /\ cache'[p] = cache[p]
      /\ (rows[p] = <<>> => pc'[p] = "ask") /\ (rows[p] # <<>> => pc'[p] = "judge")
  BY <1>1, <1>2, <1>5 DEF CheckType, engine
<1>7. ASSUME rows[p] = <<>> PROVE Phases(p)' /\ Kept(p)'
  <2> DEFINE cold == [t \in Tasks |-> asked[p][t].answer]
  <2>1. r = <<cold>> /\ cold \in [Tasks -> {"right", "wrong", "failed"}]
        /\ \A t \in Tasks : cold[t] = asked[p][t].answer
    BY <1>3, <1>7 DEF r
  <2> HIDE DEF cold
  <2>2. /\ rows'[p] = <<cold>> /\ Len(rows'[p]) = 1 /\ Len(rows[p]) = 0 /\ pc'[p] = "ask"
        /\ rows'[p][1] = cold
    BY <1>6, <1>7, <2>1
  <2>3. Recorded(p)' = {cold[t] : t \in Tasks} /\ Recorded(p) = {}
    BY <2>2 DEF Recorded
  <2>4. \A y \in {"wrong", "failed"} : y \in Answered(p)' <=> y \in Answered(p)
    BY <1>4, <1>6, <2>1, <2>3 DEF Answered
  <2>5. "miss" \notin facts[p]
    BY <1>1, <2>2 DEF Check, Gate, Phases
  <2>6. Phases(p)'
    BY <1>1, <1>2, <1>6, <2>1, <2>2, <2>4, <2>5 DEF Check, Gate, Phases, fixed
  <2>7. Kept(p)'
    BY <1>1, <1>2, <1>4, <1>6, <2>2 DEF Check, Gate, Kept, fixed
  <2>8. QED
    BY <2>6, <2>7
<1>8. ASSUME rows[p] # <<>> PROVE Phases(p)' /\ Kept(p)'
  <2>1. PICK cold \in [Tasks -> {"right", "wrong", "failed"}] :
            rows[p] = <<cold>> /\ Len(rows[p]) = 1
    BY <1>1, <1>2, <1>8, GateRows DEF Check, Gate
  <2>2. r = <<cold, asked[p]>>
    <3>1. r = Append(<<cold>>, asked[p])
      BY <1>8, <2>1 DEF r
    <3> DEFINE S == {cold, asked[p]}
    <3>2. cold \in S /\ asked[p] \in S
      OBVIOUS
    <3> HIDE DEF S
    <3>3. QED
      BY <3>1, <3>2, Two
  <2>3. /\ rows'[p] = <<cold, asked[p]>> /\ Len(rows'[p]) = 2 /\ pc'[p] = "judge"
        /\ rows'[p][1] = cold /\ rows'[p][2] = asked[p] /\ rows[p][1] = cold
    BY <1>6, <1>8, <2>1, <2>2
  <2>4. Recorded(p)' = {cold[t] : t \in Tasks} \cup {asked[p][t].answer : t \in Tasks}
        /\ Recorded(p) = {cold[t] : t \in Tasks}
    BY <2>1, <2>3 DEF Recorded
  <2>5. \A y \in {"wrong", "failed"} : y \in Answered(p)' <=> y \in Answered(p)
    BY <1>4, <1>6, <2>4 DEF Answered
  <2>6. "miss" \in facts[p] => \E t \in Tasks : ~asked[p][t].hit
    BY <1>1, <2>1 DEF Check, Gate, Phases
  <2>7. Phases(p)'
    <3>1. rows'[p] = <<>> \/
          \E x \in [Tasks -> {"right", "wrong", "failed"}] :
             \/ rows'[p] = <<x>>
             \/ \E w \in [Tasks -> Requests] :
                   /\ rows'[p] = <<x, w>>
                   /\ \A t \in Tasks : w[t].answer \in {"right", "wrong", "failed"}
      BY <1>3, <2>3
    <3>2. QED
      BY <1>1, <1>2, <1>6, <2>3, <2>5, <2>6, <3>1 DEF Check, Gate, Phases, fixed
  <2>8. Kept(p)'
    <3>1. facts[p] \cap {"evicted", "failed", "moved"} = {} => \A t \in Tasks : asked[p][t].hit
      BY <1>1, <1>2, <1>3, <1>8 DEF Check, Gate, Kept
    <3>2. QED
      BY <1>6, <2>3, <3>1 DEF Kept
  <2>9. QED
    BY <2>7, <2>8
<1>9. /\ pc' = [pc EXCEPT ![p] = pc'[p]] /\ pc'[p] \in {"ask", "judge"}
      /\ facts' = [facts EXCEPT ![p] = @ \cup {}] /\ cache' = [cache EXCEPT ![p] = cache[p]]
      /\ cache[p] \in [there : BOOLEAN, bad : SUBSET Tasks]
  BY <1>1, <1>2, <1>6 DEF CheckType, engine
<1>10. {} \in SUBSET Facts
  OBVIOUS
<1>11. QED
  BY <1>2, <1>4, <1>5, <1>7, <1>8, <1>9, <1>10, GateStep DEF engine

\* Every step keeps the invariant.
LEMMA CheckStep == CheckInv /\ [Next]_vars => CheckInv'
<1> SUFFICES ASSUME CheckInv, [Next]_vars PROVE CheckInv'
  OBVIOUS
<1>1. CASE UNCHANGED vars
  <2>1. CheckType' /\ Sound'
    BY <1>1 DEF CheckInv, CheckType, Sound, vars, fixed, engine, own
  <2>2. ASSUME NEW p \in Programs PROVE Check(p)'
    BY <1>1, Others DEF Same, Drafting, vars, engine, own
  <2>3. QED
    BY <2>1, <2>2 DEF CheckInv
<1>2. CASE Replace \/ OtherClient
  BY <1>2, CheckReplace, CheckOtherClient
<1>3. ASSUME NEW p \in Programs,
             ReadHead(p) \/ TakeLock(p) \/ Probe(p) \/ ProbeFails(p) \/ SizeLong(p)
      PROVE  CheckInv'
  BY <1>3, CheckReadHead, CheckTakeLock, CheckProbe, CheckLeave, CheckSizeLong
<1>4. ASSUME NEW p \in Programs, ReadCounts(p) PROVE CheckInv'
  <2>1. pc[p] \in {"run", "after"}
    BY <1>4 DEF ReadCounts
  <2>2. QED
    BY <1>4, <2>1, CheckCountsBefore, CheckCountsAfter
<1>5. ASSUME NEW p \in Programs,
             AskRung(p) \/ AskCanary(p) \/ AskNext(p) \/ EndPhase(p) \/ Report(p)
      PROVE  CheckInv'
  BY <1>5, CheckAsk, CheckCanary, CheckEndPhase, CheckReport
<1>6. ASSUME NEW p \in Programs,
             Decide(p) \/ ResetCache(p) \/ Unlock(p) \/ Write(p) \/ Kill(p) \/ Evict(p)
      PROVE  CheckInv'
  BY <1>6, CheckDecide, CheckReport, CheckLeave, CheckWrite, CheckEvict
<1>7. ASSUME NEW p \in Programs, NEW t \in Tasks, Send(p, t) \/ Reply(p, t) PROVE CheckInv'
  BY <1>7, CheckSend, CheckReply
<1>8. QED
  BY <1>1, <1>2, <1>3, <1>4, <1>5, <1>6, <1>7 DEF Next

\* The checks of a head keep what their verdicts rest on.
THEOREM ChecksInductive == Spec => []CheckInv
BY CheckInit, CheckStep, PTL DEF Spec

\* The fields of a record of a verdict, of warmup.run and of prefix_gate.judge.
LEMMA Fields ==
  \A x, v, r : /\ [passed |-> x, verdict |-> v].passed = x
               /\ [passed |-> x, verdict |-> v].verdict = v
               /\ [passed |-> x, verdict |-> v, reasons |-> r].passed = x
               /\ [passed |-> x, verdict |-> v, reasons |-> r].verdict = v
               /\ [passed |-> x, verdict |-> v, reasons |-> r].reasons = r
OBVIOUS

\* A verdict of the warmup is true to its canary and to its rungs.
LEMMA WarmupEarned ==
  ASSUME CheckInv, NEW p \in Programs, kind[p] = "warmup", Decided(p)
  PROVE  /\ "moved" \notin facts[p] =>
               /\ quality[seen[p]] = "sound" /\ result[p].verdict = "degenerate" =>
                     "wrong" \in facts[p]
               /\ quality[seen[p]] = "garbled" => ~result[p].passed
               /\ /\ quality[seen[p]] = "draftless" /\ result[p].passed
                  /\ counts[p].before # <<>> /\ counts[p].after # <<>>
                  => counts[p].after[1] - counts[p].before[1] < MinDrafts
         /\ result[p].passed =>
               facts[p] \cap {"failed", "wrong", "broken", "short", "foreign", "misread", "slip",
                              "miss"} = {}
         /\ result[p].verdict # "fail"
<1>1. Check(p) /\ CheckType
  BY DEF CheckInv
<1>2. pc[p] \in {"reset", "unlock"}
  BY <1>1 DEF Decided, Check, Verdict, Fresh
<1> DEFINE last == rows[p][Len(rows[p])]
           b == counts[p].before
           a == counts[p].after
           degenerate == last = "wrong" \/ Accepts(b, a) = "no"
<1>3. result[p] = WarmupResult(p)
  BY <1>1, <1>2 DEF Check, Verdict
<1>4. /\ result[p].passed <=> ~degenerate /\ \A i \in DOMAIN rows[p] : rows[p][i] # "failed"
      /\ result[p].verdict = IF degenerate THEN "degenerate" ELSE "open"
  <2> DEFINE good == ~degenerate /\ \A i \in DOMAIN rows[p] : rows[p][i] # "failed"
             word == IF degenerate THEN "degenerate" ELSE "open"
  <2>1. result[p] = [passed |-> good, verdict |-> word]
    BY <1>3 DEF WarmupResult, Degenerate, Last
  <2> HIDE DEF good, word
  <2>2. result[p].passed = good /\ result[p].verdict = word
    BY <2>1, Fields
  <2>3. QED
    BY <2>2 DEF good, word
<1>5. /\ rows[p] \in Seq(Words) /\ rows[p] # <<>>
      /\ \A x \in Words \ {"right"} :
            x \in facts[p] <=> \E i \in 1..Len(rows[p]) : rows[p][i] = x
      /\ \A i \in 1..Len(rows[p]) : /\ rows[p][i] \in {"right", "failed", "wrong"}
                                    /\ rows[p][i] = "wrong" => i = Len(rows[p])
      /\ facts[p] \cap {"misread", "slip", "miss", "evicted"} = {}
  BY <1>1, <1>2 DEF Check, Record
<1>6. Len(rows[p]) \in 1..Len(rows[p]) /\ DOMAIN rows[p] = 1..Len(rows[p])
  BY <1>5
<1>7. last = "wrong" => "wrong" \in facts[p]
  BY <1>5, <1>6 DEF Words
<1>8. /\ b \in {<<>>} \cup (Nat \X Nat) /\ a \in {<<>>} \cup (Nat \X Nat)
  BY <1>1 DEF CheckType, Pairs
<1>9. ASSUME "moved" \notin facts[p], b # <<>>, a # <<>>
      PROVE  /\ quality[seen[p]] = "sound" => a[1] - b[1] < MinDrafts \/ a[2] > b[2]
             /\ quality[seen[p]] = "draftless" \/ ~profile.mtp => a[2] = b[2]
             /\ ~profile.mtp => a[1] = b[1]
  BY <1>1, <1>2, <1>9 DEF Check, Canary, Counted
<1>10. Accepts(b, a) = "no" <=> /\ profile.mtp /\ b # <<>> /\ a # <<>>
                                /\ ~(a[1] - b[1] < MinDrafts) /\ ~(a[2] > b[2])
  BY DEF Accepts
<1>11. ASSUME "moved" \notin facts[p], quality[seen[p]] = "sound",
              result[p].verdict = "degenerate"
       PROVE  "wrong" \in facts[p]
  BY <1>4, <1>7, <1>9, <1>10, <1>11
<1>12. ASSUME "moved" \notin facts[p], quality[seen[p]] = "garbled" PROVE ~result[p].passed
  <2>1. last \in {"wrong", "failed"}
    BY <1>1, <1>2, <1>12 DEF Check, Canary, Garbled
  <2>2. QED
    BY <1>4, <1>6, <2>1
<1>13. ASSUME "moved" \notin facts[p], quality[seen[p]] = "draftless", result[p].passed,
              b # <<>>, a # <<>>
       PROVE  a[1] - b[1] < MinDrafts
  <2>1. a[1] \in Nat /\ b[1] \in Nat /\ a[2] \in Nat /\ b[2] \in Nat
    BY <1>8, <1>13
  <2>2. QED
    BY <1>4, <1>9, <1>10, <1>13, <2>1, HeadChecksAssumption
<1>14. ASSUME result[p].passed
       PROVE  facts[p] \cap {"failed", "wrong", "broken", "short", "foreign", "misread", "slip",
                             "miss"} = {}
  <2>1. \A i \in 1..Len(rows[p]) : rows[p][i] = "right"
    BY <1>4, <1>5, <1>6, <1>14
  <2>2. \A x \in Words \ {"right"} : x \notin facts[p]
    BY <1>5, <2>1
  <2>3. QED
    BY <1>5, <2>2 DEF Words
<1>15. result[p].verdict # "fail"
  BY <1>4
<1>16. QED
  BY <1>11, <1>12, <1>13, <1>14, <1>15

\* The mojibake check and the agreement pass on nothing but right answers.
LEMMA TextsEarned ==
  ASSUME CheckInv, NEW p \in Programs, kind[p] \in {"mojibake", "agreement", "ask"}, Decided(p)
  PROVE  /\ result[p].passed =>
               facts[p] \cap {"failed", "wrong", "broken", "short", "foreign", "misread", "slip",
                              "miss"} = {}
         /\ result[p].verdict = "fail" => "broken" \in facts[p]
<1>1. Check(p) /\ CheckType
  BY DEF CheckInv
<1>2. pc[p] \in {"reset", "unlock"} /\ kind[p] # "ask"
  BY <1>1 DEF Decided, Check, Order, Verdict, Fresh
<1>3. /\ rows[p] \in Seq(Words)
      /\ \A x \in Words \ {"right"} :
            x \in facts[p] <=> \E i \in 1..Len(rows[p]) : rows[p][i] = x
      /\ \A i \in 1..Len(rows[p]) : rows[p][i] # "wrong"
      /\ facts[p] \cap {"misread", "slip", "miss", "evicted"} = {}
  BY <1>1, <1>2 DEF Check, Record
<1>4. DOMAIN rows[p] = 1..Len(rows[p])
  BY <1>3
<1>5. ASSUME \A i \in 1..Len(rows[p]) : rows[p][i] = "right"
      PROVE  facts[p] \cap {"failed", "wrong", "broken", "short", "foreign", "misread", "slip",
                            "miss"} = {}
  <2>1. \A x \in Words \ {"right"} : x \notin facts[p]
    BY <1>3, <1>5
  <2>2. QED
    BY <1>3, <2>1 DEF Words
<1>6. CASE kind[p] = "mojibake"
  <2> DEFINE verdicts == {JudgeText(rows[p][i]) : i \in DOMAIN rows[p]}
             verdict == IF "fail" \in verdicts THEN "fail"
                        ELSE IF verdicts = {"pass"} THEN "pass" ELSE "inconclusive"
  <2>1. result[p] = [passed |-> verdict = "pass", verdict |-> verdict]
    BY <1>1, <1>2, <1>6 DEF Check, Verdict, MojibakeResult
  <2>2. (result[p].passed <=> verdict = "pass") /\ result[p].verdict = verdict
    <3> DEFINE good == verdict = "pass"
    <3>1. result[p] = [passed |-> good, verdict |-> verdict]
      BY <2>1
    <3> HIDE DEF good, verdict
    <3>2. result[p].passed = good /\ result[p].verdict = verdict
      BY <3>1, Fields
    <3>3. QED
      BY <3>2 DEF good
  <2>3. ASSUME NEW i \in 1..Len(rows[p])
        PROVE  /\ JudgeText(rows[p][i]) = "pass" => rows[p][i] = "right"
               /\ JudgeText(rows[p][i]) = "fail" => rows[p][i] = "broken"
    <3>1. rows[p][i] \in Words \ {"wrong"}
      BY <1>3, <2>3
    <3>2. QED
      BY <3>1 DEF JudgeText, Words
  <2>4. verdict = "pass" => \A i \in 1..Len(rows[p]) : rows[p][i] = "right"
    BY <1>4, <2>3
  <2>5. verdict = "fail" => \E i \in 1..Len(rows[p]) : rows[p][i] = "broken"
    BY <1>4, <2>3
  <2>6. "broken" \in Words \ {"right"}
    BY DEF Words
  <2> HIDE DEF verdict, verdicts
  <2>7. QED
    BY <1>3, <1>5, <2>2, <2>4, <2>5, <2>6
<1>7. CASE kind[p] = "agreement"
  <2>1. result[p] = [passed |-> Errors(p) = {} /\ SelfChecks(p) # {}, verdict |-> "none"]
    BY <1>1, <1>2, <1>7 DEF Check, Verdict, AgreementResult
  <2>2. result[p].verdict = "none" /\ (result[p].passed => Errors(p) = {})
    <3> DEFINE good == Errors(p) = {} /\ SelfChecks(p) # {}
    <3>1. result[p] = [passed |-> good, verdict |-> "none"]
      BY <2>1
    <3> HIDE DEF good
    <3>2. result[p].passed = good /\ result[p].verdict = "none"
      BY <3>1, Fields
    <3>3. QED
      BY <3>2 DEF good
  <2>3. Errors(p) = {} => \A i \in 1..Len(rows[p]) : rows[p][i] = "right"
    BY <1>4 DEF Errors
  <2>4. QED
    BY <1>5, <2>2, <2>3
<1>8. QED
  BY <1>2, <1>6, <1>7

\* A gate passes on right answers read from the cache, fails on a wrong one, and blames
\* nothing restored on an eviction, a lost request or another launch.
LEMMA GateEarned ==
  ASSUME CheckInv, NEW p \in Programs, kind[p] = "prefix-gate", Decided(p)
  PROVE  /\ result[p].passed =>
               facts[p] \cap {"failed", "wrong", "broken", "short", "foreign", "misread", "slip",
                              "miss"} = {}
         /\ result[p].verdict = "fail" => facts[p] \cap {"misread", "slip"} # {}
         /\ "no_cache_hit" \in result[p].reasons =>
               facts[p] \cap {"evicted", "failed", "moved"} # {}
<1>1. Check(p) /\ CheckType
  BY DEF CheckInv
<1>2. pc[p] = "unlock"
  BY <1>1 DEF Decided, Check, Order, Verdict, Fresh
<1>3. Len(rows[p]) = 2 /\ asked[p] = Unsent
  BY <1>1, <1>2 DEF Check, Order, Gate, Phases
<1> DEFINE cold == rows[p][1]
           warm == rows[p][2]
           reasons == Judge(cold, warm)
<1>4. \A t \in Tasks : /\ cold[t] \in {"right", "wrong", "failed"}
                       /\ warm[t].answer \in {"right", "wrong", "failed"}
  <2>1. \A x : Len(<<x>>) = 1
    OBVIOUS
  <2>2. PICK x \in [Tasks -> {"right", "wrong", "failed"}], w \in [Tasks -> Requests] :
            /\ rows[p] = <<x, w>>
            /\ \A t \in Tasks : w[t].answer \in {"right", "wrong", "failed"}
    BY <1>1, <1>3, <2>1 DEF Check, Gate, Phases
  <2>3. QED
    BY <2>2
<1>5. /\ result[p].reasons = reasons
      /\ result[p].passed => reasons = {}
      /\ result[p].verdict = "fail" => "prefix_cache_corruption" \in reasons
  <2> DEFINE verdict == IF "prefix_cache_corruption" \in reasons THEN "fail"
                        ELSE IF reasons # {} THEN "inconclusive" ELSE "pass"
             good == verdict = "pass"
  <2>1. result[p] = [passed |-> good, verdict |-> verdict, reasons |-> reasons]
    BY <1>1, <1>2 DEF Check, Verdict, GateResult
  <2> HIDE DEF good, verdict, reasons
  <2>2. result[p].passed = good /\ result[p].verdict = verdict /\ result[p].reasons = reasons
    BY <2>1, Fields
  <2>3. QED
    BY <2>2 DEF good, verdict
<1>6. /\ (\E t \in Tasks : "failed" \in {cold[t], warm[t].answer}) <=> "request_error" \in reasons
      /\ (\E t \in Tasks : cold[t] = "wrong") <=> "cold_incorrect" \in reasons
      /\ (\E t \in Tasks : cold[t] = "right" /\ warm[t].answer = "wrong")
            <=> "prefix_cache_corruption" \in reasons
      /\ (\E t \in Tasks : Missed(warm[t])) <=> "no_cache_hit" \in reasons
  BY DEF Judge
<1>7. Answered(p) = {"unsent" : t \in Tasks} \cup {cold[t] : t \in Tasks}
                       \cup {warm[t].answer : t \in Tasks}
  BY <1>3 DEF Answered, Recorded, Unsent
<1> HIDE DEF cold, warm, reasons
<1>8. /\ "failed" \in facts[p] <=> "failed" \in Answered(p)
      /\ "wrong" \in Answered(p) => facts[p] \cap {"misread", "slip"} # {}
      /\ facts[p] \cap {"misread", "slip"} # {} => Answered(p) \cap {"wrong", "failed"} # {}
      /\ "miss" \in facts[p] => \E t \in Tasks : ~warm[t].hit
      /\ facts[p] \cap {"wrong", "broken", "short", "foreign"} = {}
  BY <1>1, <1>3 DEF Check, Gate, Phases, warm
<1>9. ASSUME result[p].passed
      PROVE  facts[p] \cap {"failed", "wrong", "broken", "short", "foreign", "misread", "slip",
                            "miss"} = {}
  <2>1. \A t \in Tasks : cold[t] = "right" /\ warm[t].answer = "right" /\ ~Missed(warm[t])
    BY <1>4, <1>5, <1>6, <1>9
  <2>2. "wrong" \notin Answered(p) /\ "failed" \notin Answered(p)
    BY <1>7, <2>1
  <2>3. \A t \in Tasks : warm[t].hit
    BY <2>1 DEF Missed
  <2>4. QED
    BY <1>8, <2>2, <2>3
<1>10. ASSUME result[p].verdict = "fail" PROVE facts[p] \cap {"misread", "slip"} # {}
  <2>1. "wrong" \in Answered(p)
    BY <1>5, <1>6, <1>7, <1>10
  <2>2. QED
    BY <1>8, <2>1
<1>11. ASSUME "no_cache_hit" \in result[p].reasons
       PROVE  facts[p] \cap {"evicted", "failed", "moved"} # {}
  <2>1. \E t \in Tasks : ~warm[t].hit
    BY <1>5, <1>6, <1>11 DEF Missed
  <2>2. QED
    BY <1>1, <1>3, <2>1 DEF Check, Gate, Kept, warm
<1>12. QED
  BY <1>9, <1>10, <1>11

\* A check passes on answers that were all good, and fails on evidence only.
THEOREM VerdictsEarned == Spec => []VerdictIsEarned
<1>1. CheckInv => CanaryIsTrue
  BY WarmupEarned DEF CanaryIsTrue
<1>2. ASSUME CheckInv, NEW p \in Programs, Decided(p), kind[p] # "capacity"
      PROVE  /\ result[p].passed =>
                   facts[p] \cap {"failed", "wrong", "broken", "short", "foreign", "misread",
                                  "slip", "miss"} = {}
             /\ result[p].verdict = "fail" => facts[p] \cap {"broken", "misread", "slip"} # {}
             /\ kind[p] = "prefix-gate" /\ "no_cache_hit" \in result[p].reasons =>
                   facts[p] \cap {"evicted", "failed", "moved"} # {}
  <2>1. kind[p] \in Kinds \ {"capacity"}
    BY <1>2 DEF CheckInv, CheckType
  <2>2. CASE kind[p] = "warmup"
    BY <1>2, <2>2, WarmupEarned
  <2>3. CASE kind[p] \in {"mojibake", "agreement", "ask"}
    BY <1>2, <2>3, TextsEarned
  <2>4. CASE kind[p] = "prefix-gate"
    BY <1>2, <2>4, GateEarned
  <2>5. QED
    BY <2>1, <2>2, <2>3, <2>4 DEF Kinds
<1>3. CheckInv => VerdictIsEarned
  BY <1>1, <1>2 DEF VerdictIsEarned
<1>4. QED
  BY <1>3, ChecksInductive, PTL

\* Every text a tokenizer is asked about has a token at least; a profile's lengths are numbers.
Tokenized ==
    /\ \A s \in Settings : /\ Tokenizers[s.tok] \in [Nat \ {0} -> Nat \ {0}]
                           /\ s.profile.prefix \in Int /\ s.profile.long \in Int
                           /\ s.profile.maxlen \in Int /\ s.profile.maxtokens \in Int
    /\ SampleLines \in Nat /\ TokensPerRecord \in Nat /\ MinRecords \in Nat

\* A text that is still being sized has a length, and one that was sized fits.
Lengths == Nat \ {0}
Guess(p) ==
    /\ size[p] \in [at : {"none", "sample", "scale", "shrink", "sized"}, tries : Int, n : Int]
    /\ pc[p] = "size" => size[p].at # "sized" /\ size[p].n \in Lengths
    /\ PromptFits(p)
SizeInv ==
    /\ Tokenizers[tok] \in [Lengths -> Lengths]
    /\ profile.prefix \in Int /\ profile.long \in Int
    /\ profile.maxlen \in Int /\ profile.maxtokens \in Int
    /\ size = [p \in Programs |-> size[p]] /\ pc = [p \in Programs |-> pc[p]]
    /\ \A p \in Programs : Guess(p)

\* The larger of two lengths is one, and a ratio of lengths is a number.
LEMMA LargerIs ==
  /\ \A x \in Int : Larger(1, x) \in Lengths
  /\ \A x \in Lengths, y \in Int : Larger(x, y) \in Lengths
  /\ \A x \in Int, c \in Lengths : x \div c \in Int /\ CeilDiv(x, c) \in Int
  /\ \A x, y \in Int : x * y \in Int /\ Smaller(x, y) \in Int
<1>1. \A x \in Int, c \in Lengths : x \div c \in Int
  BY DEF Lengths
<1>2. \A x \in Int, c \in Lengths : CeilDiv(x, c) \in Int
  BY <1>1 DEF Lengths, CeilDiv
<1>3. \A x, y \in Int : x * y \in Int /\ Smaller(x, y) \in Int
  BY DEF Smaller
<1>4. QED
  BY <1>1, <1>2, <1>3 DEF Larger, Lengths

\* A step that sizes nothing keeps what was sized.
LEMMA SizeKept ==
  ASSUME SizeInv, UNCHANGED <<fixed, size>>, pc' = [p \in Programs |-> pc'[p]],
         \A p \in Programs : pc'[p] = "size" => pc[p] = "size"
  PROVE  SizeInv'
BY DEF SizeInv, Guess, PromptFits, fixed

\* A check that begins to size, or is left, has sized nothing yet.
LEMMA SizeBegun ==
  ASSUME SizeInv, UNCHANGED fixed, NEW p \in Programs, NEW l, NEW s,
         size' = [size EXCEPT ![p] = s], pc' = [pc EXCEPT ![p] = l],
         s \in [at : {"none", "sample"}, tries : Int, n : Int],
         l = "size" => s.n \in Lengths
  PROVE  SizeInv'
<1>1. size'[p] = s /\ pc'[p] = l /\ s.at # "sized"
  BY DEF SizeInv
<1>2. \A q \in Programs \ {p} : size'[q] = size[q] /\ pc'[q] = pc[q]
  BY DEF SizeInv
<1>3. \A q \in Programs : Guess(q)'
  BY <1>1, <1>2 DEF SizeInv, Guess, PromptFits, fixed
<1>4. QED
  BY <1>3 DEF SizeInv, fixed

\* A count of the text moves the guess on, or shows that it fits.
LEMMA SizeProbed == ASSUME Tokenized, SizeInv, NEW p \in Programs, Probe(p) PROVE SizeInv'
<1> DEFINE c == Tokenizers[tok][size[p].n]
           next == IF kind[p] = "warmup" THEN LongNext(size[p], c) ELSE FitNext(size[p], c)
           All == [at : {"none", "sample", "scale", "shrink", "sized"}, tries : Int, n : Int]
           Fits(n) == IF kind[p] = "warmup"
                      THEN n = 1 \/ Tokenizers[tok][n] <= profile.maxlen - profile.maxtokens
                      ELSE n >= MinRecords /\ Tokenizers[tok][n] <= profile.prefix
<1>1. /\ pc[p] = "size" /\ UNCHANGED fixed
      /\ \/ /\ next.at # "too_short" /\ size' = [size EXCEPT ![p] = next]
            /\ \E l : pc' = [pc EXCEPT ![p] = l] /\ (l = "size" => next.at # "sized")
         \/ pc' = [pc EXCEPT ![p] = "run"] /\ UNCHANGED size
  BY DEF Probe, Goto
<1>2. size[p] \in All /\ size[p].n \in Lengths /\ size[p].at # "sized" /\ c \in Lengths
  BY <1>1 DEF SizeInv, Guess
<1>3. CASE pc' = [pc EXCEPT ![p] = "run"] /\ UNCHANGED size
  BY <1>1, <1>3, SizeKept DEF SizeInv
<1>4. ASSUME next.at # "too_short"
      PROVE  next \in All /\ next.n \in Lengths /\ (next.at = "sized" => Fits(next.n))
  <2> DEFINE s == size[p]
             long == profile.long
             limit == profile.maxlen - profile.maxtokens
             prefix == profile.prefix
             Larg(x) == Larger(1, x)
  <2>1. /\ long \in Int /\ limit \in Int /\ prefix \in Int /\ s \in All /\ s.n \in Lengths
        /\ s.n \in Int /\ c \in Lengths /\ c \in Int /\ c = Tokenizers[tok][s.n]
    BY <1>2 DEF SizeInv, Lengths
  <2>2. /\ Larger(1, (s.n * long) \div c) \in Lengths
        /\ Larger(1, CeilDiv(long * s.n, c)) \in Lengths
        /\ Larger(1, (s.n * limit) \div c - 1) \in Lengths
        /\ Larger(1, (s.n * prefix) \div c) \in Lengths
        /\ Larger(1, Smaller(s.n - 1, (s.n * prefix) \div c)) \in Lengths
    <3>1. \A x \in Int : x - 1 \in Int
      OBVIOUS
    <3>2. /\ s.n * long \in Int /\ long * s.n \in Int /\ s.n * limit \in Int
          /\ s.n * prefix \in Int
      BY <2>1, LargerIs
    <3> HIDE DEF s, c, long, limit, prefix
    <3>3. /\ (s.n * long) \div c \in Int /\ CeilDiv(long * s.n, c) \in Int
          /\ (s.n * limit) \div c \in Int /\ (s.n * prefix) \div c \in Int
      BY <2>1, <3>2, LargerIs
    <3>4. Smaller(s.n - 1, (s.n * prefix) \div c) \in Int
      BY <2>1, <3>1, <3>3, LargerIs
    <3>5. QED
      BY <3>1, <3>3, <3>4, LargerIs
  <2>3. CASE kind[p] = "warmup"
    <3>1. next = LongNext(s, c)
      BY <2>3
    <3>2. \/ next.at # "sized" /\ next \in All /\ next.n \in Lengths
          \/ next = [s EXCEPT !.at = "sized"] /\ ~(c > limit /\ s.n > 1)
      <4> DEFINE one == Larger(1, CeilDiv(long * s.n, c))
                 two == Larger(1, (s.n * long) \div c)
                 three == Larger(1, (s.n * limit) \div c - 1)
      <4>1. \/ next = [at |-> "scale", tries |-> 0, n |-> one]
            \/ next = [at |-> "scale", tries |-> s.tries + 1, n |-> two]
            \/ next = [at |-> "shrink", tries |-> s.tries, n |-> three]
            \/ next = [s EXCEPT !.at = "sized"] /\ ~(c > limit /\ s.n > 1)
        <5> HIDE DEF next, c
        <5>1. QED
          BY ONLY <3>1 DEF LongNext, one, two, three, limit, long, s
      <4> HIDE DEF next, c, one, two, three
      <4>2. one \in Lengths /\ two \in Lengths /\ three \in Lengths
        BY <2>2 DEF one, two, three
      <4>3. QED
        BY <2>1, <4>1, <4>2 DEF Lengths
    <3>3. QED
      <4> HIDE DEF next, c
      <4>1. QED
        BY <2>1, <2>3, <3>2 DEF Lengths
  <2>4. CASE kind[p] # "warmup"
    <3>1. next = FitNext(s, c)
      BY <2>4
    <3>2. \/ next.at # "sized" /\ next \in All /\ next.n \in Lengths
          \/ next = [s EXCEPT !.at = "sized"] /\ ~(c > prefix \/ s.n < MinRecords)
      <4> DEFINE one == Larger(1, (s.n * prefix) \div c)
                 two == Larger(1, Smaller(s.n - 1, (s.n * prefix) \div c))
      <4>1. \/ next = [at |-> "shrink", tries |-> 0, n |-> one]
            \/ next = [s EXCEPT !.n = two] /\ s.at # "sized"
            \/ next = [s EXCEPT !.at = "sized"] /\ ~(c > prefix \/ s.n < MinRecords)
        <5> HIDE DEF next, c
        <5>1. QED
          BY <1>2, <1>4, <3>1 DEF FitNext
      <4> HIDE DEF next, c, one, two
      <4>2. one \in Lengths /\ two \in Lengths
        BY <2>2 DEF one, two
      <4>3. QED
        BY <1>2, <2>1, <4>1, <4>2 DEF Lengths
    <3>3. QED
      <4> HIDE DEF next, c
      <4>1. QED
        BY <2>1, <2>4, <3>2 DEF Lengths, Tokenized
  <2>5. QED
    BY <2>3, <2>4
<1>5. CASE next.at # "too_short" /\ size' = [size EXCEPT ![p] = next]
  <2>1. PICK l : pc' = [pc EXCEPT ![p] = l] /\ (l = "size" => next.at # "sized")
    BY <1>1, <1>5, <1>3
  <2> HIDE DEF next, Fits, c
  <2>2. /\ next \in All /\ (next.at = "sized" => Fits(next.n))
        /\ (pc'[p] = "size" => next.at # "sized" /\ next.n \in Lengths)
    BY <1>4, <1>5, <2>1 DEF SizeInv
  <2>3. size'[p] = next /\ \A q \in Programs \ {p} : size'[q] = size[q] /\ pc'[q] = pc[q]
    BY <1>5, <2>1 DEF SizeInv
  <2>4. Guess(p)'
    <3>1. PromptFits(p)'
      BY <1>1, <2>2, <2>3 DEF PromptFits, Fits, fixed
    <3>2. QED
      BY <2>2, <2>3, <3>1 DEF Guess
  <2>5. \A q \in Programs \ {p} : Guess(q)'
    BY <1>1, <2>3 DEF SizeInv, Guess, PromptFits, fixed
  <2>6. QED
    BY <1>1, <1>5, <2>1, <2>4, <2>5 DEF SizeInv, fixed
<1>6. QED
  BY <1>1, <1>3, <1>5

\* Nothing is sized before a check starts.
LEMMA SizeInit == Tokenized /\ Init => SizeInv
<1> SUFFICES ASSUME Tokenized, Init PROVE SizeInv
  OBVIOUS
<1>1. /\ size = [p \in Programs |-> [at |-> "none", tries |-> 0, n |-> 0]]
      /\ pc = [p \in Programs |-> "start"]
  BY DEF Init, Fresh
<1>2. \A p \in Programs : Guess(p)
  BY <1>1 DEF Guess, PromptFits
<1>3. PICK s \in Settings : profile = s.profile /\ tok = s.tok
  BY DEF Init
<1>4. QED
  BY <1>1, <1>2, <1>3 DEF Tokenized, SizeInv, Lengths

\* Every step keeps it.
LEMMA SizeStep == ASSUME Tokenized PROVE SizeInv /\ [Next]_vars => SizeInv'
<1> SUFFICES ASSUME SizeInv, [Next]_vars PROVE SizeInv'
  OBVIOUS
<1>1. CASE UNCHANGED vars \/ Replace \/ OtherClient
  <2>1. UNCHANGED <<fixed, size, pc>>
    BY <1>1 DEF vars, own, Replace, OtherClient
  <2>2. QED
    BY <2>1, SizeKept DEF SizeInv
<1>2. ASSUME NEW p \in Programs, NEW l, Leave(p, l), l # "size" PROVE SizeInv'
  <2> DEFINE s == [at |-> "none", tries |-> 0, n |-> 0]
  <2>1. UNCHANGED fixed /\ size' = [size EXCEPT ![p] = s] /\ pc' = [pc EXCEPT ![p] = l]
    BY <1>2 DEF Leave, Goto, Fresh
  <2>2. s \in [at : {"none", "sample"}, tries : Int, n : Int]
    OBVIOUS
  <2> HIDE DEF s
  <2>3. QED
    BY <1>2, <2>1, <2>2, SizeBegun
<1>3. ASSUME NEW p \in Programs, TakeLock(p) PROVE SizeInv'
  <2> DEFINE s == [at |-> "sample", tries |-> 0,
                   n |-> Larger(MinRecords, profile.prefix \div TokensPerRecord)]
  <2>1. s \in [at : {"none", "sample"}, tries : Int, n : Int] /\ s.n \in Lengths
    <3>1. /\ MinRecords \in Lengths /\ TokensPerRecord \in Lengths /\ profile.prefix \in Int
      BY HeadChecksAssumption DEF Tokenized, SizeInv, Lengths
    <3>2. s.n \in Lengths
      BY <3>1, LargerIs
    <3>3. QED
      BY <3>2 DEF Lengths
  <2> HIDE DEF s
  <2>2. CASE lock # "none"
    <3>1. UNCHANGED <<fixed, size>> /\ pc' = [pc EXCEPT ![p] = "refused"]
      BY <1>3, <2>2 DEF TakeLock, Goto
    <3>2. QED
      BY <3>1, SizeKept DEF SizeInv
  <2>3. CASE lock = "none"
    <3>1. /\ UNCHANGED fixed /\ size' = [size EXCEPT ![p] = s]
          /\ \E l : pc' = [pc EXCEPT ![p] = l]
      BY <1>3, <2>3 DEF TakeLock, Goto, s
    <3>2. QED
      BY <2>1, <3>1, SizeBegun
  <2>4. QED
    BY <2>2, <2>3
<1>4. ASSUME NEW p \in Programs, SizeLong(p) PROVE SizeInv'
  <2> DEFINE s == [at |-> "sample", tries |-> 0, n |-> SampleLines]
  <2>1. s \in [at : {"none", "sample"}, tries : Int, n : Int] /\ s.n \in Lengths
    BY HeadChecksAssumption DEF Tokenized, Lengths
  <2>2. \/ UNCHANGED <<fixed, size, pc>>
        \/ UNCHANGED fixed /\ size' = [size EXCEPT ![p] = s] /\ pc' = [pc EXCEPT ![p] = "size"]
    BY <1>4 DEF SizeLong, Goto
  <2> HIDE DEF s
  <2>3. QED
    BY <2>1, <2>2, SizeKept, SizeBegun DEF SizeInv
<1>5. ASSUME NEW p \in Programs,
             \/ ReadHead(p) \/ AskRung(p) \/ ReadCounts(p) \/ AskCanary(p) \/ AskNext(p)
             \/ EndPhase(p) \/ Report(p) \/ Decide(p) \/ ResetCache(p) \/ Write(p) \/ Evict(p)
             \/ \E t \in Tasks : Send(p, t) \/ Reply(p, t)
      PROVE  SizeInv'
  <2>1. UNCHANGED <<fixed, size>>
    BY <1>5 DEF ReadHead, AskRung, ReadCounts, AskCanary, AskNext, EndPhase, Report, Decide,
                ResetCache, Write, Evict, Send, Reply, own
  <2>2. UNCHANGED pc \/ \E l : pc' = [pc EXCEPT ![p] = l] /\ l # "size"
    BY <1>5 DEF ReadHead, AskRung, ReadCounts, AskCanary, AskNext, EndPhase, Report, Decide,
                ResetCache, Write, Evict, Send, Reply, own, Goto
  <2>3. QED
    BY <2>1, <2>2, SizeKept DEF SizeInv
<1>6. ASSUME NEW p \in Programs, ProbeFails(p) \/ Unlock(p) \/ Kill(p) PROVE SizeInv'
  BY <1>2, <1>6 DEF ProbeFails, Unlock, Kill
<1>7. QED
  BY <1>1, <1>3, <1>4, <1>5, <1>6, SizeProbed DEF Next

\* The prompt of the warmup's long rung and the log of the prefix gate fit their limits
\* whatever the tokenizer counts: the half of SizedToFit that speaks of prompts.
THEOREM PromptsFit ==
  ASSUME Tokenized PROVE Spec => [](\A p \in Programs : PromptFits(p))
<1>1. SizeInv => \A p \in Programs : PromptFits(p)
  BY DEF SizeInv, Guess
<1>2. QED
  BY <1>1, SizeInit, SizeStep, PTL DEF Spec

-----------------------------------------------------------------------------
(* The blocks of a conversation.                                           *)

\* A set of numbers has a least one.
LEMMA LeastIn == ASSUME NEW T \in SUBSET Nat, T # {} PROVE \E k \in T : \A j \in T : k <= j
<1> DEFINE R == {ss \in Nat \X Nat : ss[1] < ss[2]}
<1>1. IsWellFoundedOn(R, Nat)
  BY NatLessThanWellFounded DEF OpToRel
<1>2. \A x, y \in Nat : <<y, x>> \in R <=> y < x
  OBVIOUS
<1> HIDE DEF R
<1>3. PICK k \in T : \A j \in T : ~(<<j, k>> \in R)
  BY <1>1, WFMin
<1>4. ASSUME NEW j \in T PROVE k <= j
  <2>1. k \in Nat /\ j \in Nat /\ <<j, k>> \notin R
    BY <1>3
  <2> QED BY <1>2, <2>1
<1> QED BY <1>4

\* The recursion SumFunction stands for.
Sums(g, cost) ==
  g = [s \in SUBSET (DOMAIN cost) |->
         IF s = {} THEN 0 ELSE cost[CHOOSE x \in s : TRUE] + g[s \ {CHOOSE x \in s : TRUE}]]
\* A sum is that recursion, over all indices.
LEMMA SumIs == ASSUME NEW cost PROVE SumFunction(cost) = (CHOOSE g : Sums(g, cost))[DOMAIN cost]
BY DEF SumFunction, SumFunctionOnSet, FoldFunctionOnSet, MapThenFoldSet, Sums

\* The cells of s: as many of each index as it costs.
Cells(s, cost, most) == {z \in s \X (1..most) : z[2] <= cost[z[1]]}

\* Each index has the cells it costs, apart from those of the others.
LEMMA CellsOf ==
  ASSUME NEW D, IsFiniteSet(D), NEW most \in Nat, NEW cost \in [D -> 0..most], NEW s \in SUBSET D
  PROVE  /\ IsFiniteSet(Cells(s, cost, most)) /\ Cardinality(Cells(s, cost, most)) \in Nat
         /\ s = {} => Cardinality(Cells(s, cost, most)) = 0
         /\ \A x \in s : Cardinality(Cells(s, cost, most))
                           = cost[x] + Cardinality(Cells(s \ {x}, cost, most))
<1>1. ASSUME NEW u \in SUBSET D
      PROVE  IsFiniteSet(Cells(u, cost, most)) /\ Cardinality(Cells(u, cost, most)) \in Nat
  <2>1. IsFiniteSet(u) /\ IsFiniteSet(1..most)
    BY FS_Subset, FS_Interval
  <2>2. IsFiniteSet(u \X (1..most))
    BY <2>1, FS_Product
  <2>3. Cells(u, cost, most) \in SUBSET (u \X (1..most))
    BY DEF Cells
  <2> QED BY <2>2, <2>3, FS_Subset, FS_CardinalityType
<1>2. s = {} => Cells(s, cost, most) = {}
  BY DEF Cells
<1>3. ASSUME NEW x \in s
      PROVE  Cardinality(Cells(s, cost, most)) = cost[x] + Cardinality(Cells(s \ {x}, cost, most))
  <2> DEFINE rest == Cells(s \ {x}, cost, most)
             mine == {x} \X (1..cost[x])
  <2>1. cost[x] \in 0..most
    OBVIOUS
  <2>2. Cells(s, cost, most) = rest \cup mine
    <3>1. ASSUME NEW z \in Cells(s, cost, most) PROVE z \in rest \cup mine
      <4>1. z = <<z[1], z[2]>> /\ z[1] \in s /\ z[2] \in 1..most /\ z[2] <= cost[z[1]]
        BY <3>1 DEF Cells
      <4>2. CASE z[1] = x
        <5>1. z[2] \in 1..cost[x]
          BY <4>1, <4>2, <2>1
        <5> QED BY <4>1, <4>2, <5>1
      <4>3. CASE z[1] # x
        BY <4>1, <4>3 DEF Cells
      <4> QED BY <4>2, <4>3
    <3>2. ASSUME NEW z \in rest PROVE z \in Cells(s, cost, most)
      BY <3>2 DEF Cells
    <3>3. ASSUME NEW z \in mine PROVE z \in Cells(s, cost, most)
      <4>1. z = <<x, z[2]>> /\ z[1] = x /\ z[2] \in 1..cost[x]
        OBVIOUS
      <4>2. z[2] \in 1..most /\ z[2] <= cost[x]
        BY <4>1, <2>1
      <4> QED BY <4>1, <4>2 DEF Cells
    <3> QED BY <3>1, <3>2, <3>3
  <2>3. rest \cap mine = {}
    BY DEF Cells
  <2>4. IsFiniteSet(mine) /\ Cardinality(mine) = cost[x]
    <3> DEFINE c == cost[x]
               one == {x}
               upTo == 1..c
    <3>1. IsFiniteSet(one) /\ Cardinality(one) = 1
      BY FS_Singleton
    <3>2. c \in Int /\ c >= 0
      BY <2>1
    <3> HIDE DEF c
    <3>3. IsFiniteSet(upTo) /\ Cardinality(upTo) = c
      <4>1. IsFiniteSet(upTo) /\ Cardinality(upTo) = IF 1 > c THEN 0 ELSE c - 1 + 1
        <5>1. 1 \in Int
          OBVIOUS
        <5> QED BY Zenon, <3>2, <5>1, FS_Interval
      <4> HIDE DEF upTo
      <4> QED BY <3>2, <4>1
    <3> HIDE DEF one, upTo
    <3>4. IsFiniteSet(one \X upTo) /\ Cardinality(one \X upTo) = Cardinality(one) * Cardinality(upTo)
      BY <3>1, <3>3, FS_Product
    <3>5. Cardinality(one \X upTo) = c
      BY <3>1, <3>2, <3>3, <3>4
    <3> QED BY <3>4, <3>5 DEF c, one, upTo
  <2>5. IsFiniteSet(rest) /\ Cardinality(rest) \in Nat
    BY <1>1
  <2> HIDE DEF rest, mine
  <2>6. Cardinality(rest \cup mine) = Cardinality(rest) + Cardinality(mine) - Cardinality({})
    BY <2>3, <2>4, <2>5, FS_Union
  <2>7. Cardinality({}) = 0
    BY FS_EmptySet
  <2>8. Cardinality(Cells(s, cost, most)) = cost[x] + Cardinality(rest)
    BY <2>1, <2>2, <2>4, <2>5, <2>6, <2>7
  <2> QED BY <2>8 DEF rest
<1>4. Cardinality({}) = 0
  BY FS_EmptySet
<1> QED BY <1>1, <1>2, <1>3, <1>4

\* The sum counts the cells, in whatever order it takes the costs: a least set of indices
\* for which it did not would be wrong at the index it takes first.
LEMMA SumCounts ==
  ASSUME NEW D, IsFiniteSet(D), NEW most \in Nat, NEW cost \in [D -> 0..most]
  PROVE  SumFunction(cost) = Cardinality(Cells(D, cost, most))
<1> DEFINE count == [s \in SUBSET D |-> Cardinality(Cells(s, cost, most))]
<1>1. DOMAIN cost = D
  OBVIOUS
<1>2. ASSUME NEW s \in SUBSET D
      PROVE  /\ count[s] \in Nat
             /\ s = {} => count[s] = 0
             /\ \A x \in s : count[s] = cost[x] + count[s \ {x}]
  <2>1. count[s] = Cardinality(Cells(s, cost, most))
    OBVIOUS
  <2>2. \A x \in s : count[s \ {x}] = Cardinality(Cells(s \ {x}, cost, most))
    OBVIOUS
  <2>3. /\ Cardinality(Cells(s, cost, most)) \in Nat
        /\ s = {} => Cardinality(Cells(s, cost, most)) = 0
        /\ \A x \in s : Cardinality(Cells(s, cost, most))
                          = cost[x] + Cardinality(Cells(s \ {x}, cost, most))
    <3> HIDE DEF count
    <3> QED BY CellsOf
  <2> HIDE DEF count
  <2> QED BY <2>1, <2>2, <2>3
<1>3. count = [s \in SUBSET D |-> count[s]]
  OBVIOUS
<1> HIDE DEF count
<1>4. Sums(count, cost)
  <2>1. ASSUME NEW s \in SUBSET D
        PROVE  count[s] = IF s = {} THEN 0
                          ELSE cost[CHOOSE x \in s : TRUE] + count[s \ {CHOOSE x \in s : TRUE}]
    <3>1. CASE s = {}
      BY <1>2, <3>1
    <3>2. CASE s # {}
      <4> DEFINE x == CHOOSE x \in s : TRUE
      <4>1. x \in s
        BY <3>2
      <4> HIDE DEF x
      <4>2. count[s] = cost[x] + count[s \ {x}]
        BY <1>2, <4>1
      <4> QED BY <3>2, <4>2 DEF x
    <3> QED BY <3>1, <3>2
  <2>2. [s \in SUBSET D |-> count[s]]
          = [s \in SUBSET D |-> IF s = {} THEN 0
               ELSE cost[CHOOSE x \in s : TRUE] + count[s \ {CHOOSE x \in s : TRUE}]]
    BY <2>1
  <2> QED BY <1>1, <1>3, <2>2 DEF Sums
<1>5. ASSUME NEW g, Sums(g, cost) PROVE g[D] = count[D]
  <2> DEFINE wrong == {s \in SUBSET D : g[s] # count[s]}
             sizes == {Cardinality(s) : s \in wrong}
  <2>1. \A s \in SUBSET D :
          g[s] = IF s = {} THEN 0
                 ELSE cost[CHOOSE x \in s : TRUE] + g[s \ {CHOOSE x \in s : TRUE}]
    BY <1>1, <1>5 DEF Sums
  <2>2. \A s \in SUBSET D : IsFiniteSet(s) /\ Cardinality(s) \in Nat
    BY FS_Subset, FS_CardinalityType
  <2>3. ASSUME wrong # {} PROVE FALSE
    <3>1. sizes \in SUBSET Nat /\ sizes # {}
      BY <2>2, <2>3
    <3>2. PICK k \in sizes : \A j \in sizes : k <= j
      BY <3>1, LeastIn
    <3>3. PICK s \in wrong : k = Cardinality(s)
      OBVIOUS
    <3>4. s \in SUBSET D /\ g[s] # count[s]
      OBVIOUS
    <3>5. s # {}
      <4>1. s = {} => g[s] = 0
        BY Zenon, <2>1, <3>4
      <4>2. s = {} => count[s] = 0
        BY <1>2, <3>4
      <4> QED BY <3>4, <4>1, <4>2
    <3> DEFINE x == CHOOSE x \in s : TRUE
    <3>6. x \in s
      BY <3>5
    <3>7. g[s] = cost[x] + g[s \ {x}]
      BY <2>1, <3>4, <3>5
    <3> HIDE DEF x
    <3>8. count[s] = cost[x] + count[s \ {x}]
      BY <1>2, <3>4, <3>6
    <3>9. s \ {x} \in SUBSET D /\ Cardinality(s \ {x}) = Cardinality(s) - 1
      BY <2>2, <3>4, <3>6, FS_RemoveElement
    <3>10. s \ {x} \in wrong
      BY <3>4, <3>7, <3>8, <3>9
    <3>11. Cardinality(s) <= Cardinality(s \ {x})
      BY <3>2, <3>3, <3>10
    <3> QED BY <2>2, <3>4, <3>9, <3>11
  <2>4. wrong = {}
    BY <2>3
  <2>5. D \in SUBSET D
    OBVIOUS
  <2> QED BY <2>4, <2>5
<1>6. Sums(CHOOSE g : Sums(g, cost), cost)
  BY <1>4
<1>7. SumFunction(cost) = count[D]
  BY <1>1, <1>5, <1>6, SumIs
<1> QED BY <1>7 DEF count

\* A profile's length is a number; a group's blocks hold a token at least, and block 0 is
\* the null block, so a layout has one.
Laid ==
    /\ \A s \in Settings : s.profile.maxlen \in Nat
    /\ Layouts \subseteq [groups : Seq([kind : STRING, block : Nat \ {0}]), dense : BOOLEAN,
                          blocks : Nat \ {0}]

Sizes == Nat \ {0}

\* A quotient and what it leaves.
LEMMA DivIs ==
  ASSUME NEW c \in Sizes, NEW m \in Nat
  PROVE  m \div c \in Nat /\ m % c \in 0..(c - 1) /\ m = c * (m \div c) + (m % c)
BY DEF Sizes

\* Of two products the larger is a factor larger.
LEMMA Grows ==
  ASSUME NEW c \in Sizes, NEW q \in Int, NEW r \in Int, q < r
  PROVE  c * q \in Int /\ c * r \in Int /\ c * q + c <= c * r
BY DEF Sizes

\* The blocks of a text: one for each of its tokens at which a block begins, and no more
\* than the text has tokens.
LEMMA BlocksOf ==
  ASSUME NEW t \in Nat, NEW b \in Sizes
  PROVE  /\ CeilDiv(t, b) \in 0..t
         /\ \A k \in 0..(t - 1) : k % b = 0 => /\ 1 + k \div b \in 1..CeilDiv(t, b)
                                               /\ k = b * (k \div b)
<1> DEFINE n == t + b - 1
           q == n \div b
<1>1. n \in Nat /\ b \in Nat /\ b >= 1
  BY DEF Sizes
<1>2. CeilDiv(t, b) = q
  BY DEF CeilDiv
<1>3. q \in Nat /\ n % b \in 0..(b - 1) /\ n = b * q + (n % b)
  <2> HIDE DEF n
  <2> QED BY Zenon, <1>1, DivIs
<1>4. b * q \in Int /\ b * q <= t + b - 1 /\ t <= b * q
  <2>1. b * q \in Int
    BY <1>1, <1>3
  <2> HIDE DEF q
  <2> QED BY <1>1, <1>3, <2>1 DEF n
<1> HIDE DEF q, n
<1>5. q <= t
  <2>1. ASSUME t < q PROVE FALSE
    <3>1. b * t \in Int /\ b * t + b <= b * q
      BY <1>3, <2>1, Grows
    <3>2. t <= b * t
      BY <1>1
    <3> QED BY <1>1, <1>4, <3>1, <3>2
  <2> QED BY <1>3, <2>1
<1>6. ASSUME NEW k \in 0..(t - 1), k % b = 0
      PROVE  1 + k \div b \in 1..q /\ k = b * (k \div b)
  <2> DEFINE r == k \div b
  <2>1. r \in Nat /\ k = b * r + (k % b)
    <3>1. k \in Nat
      OBVIOUS
    <3> QED BY Zenon, <3>1, DivIs
  <2> HIDE DEF r
  <2>2. b * r \in Int
    BY <1>1, <2>1
  <2>3. k = b * r
    BY <1>6, <2>1, <2>2
  <2>4. ~(q <= r)
    <3>1. CASE q < r
      <4>1. b * q + b <= b * r
        BY <1>3, <2>1, <3>1, Grows
      <4> QED BY <1>1, <1>4, <2>2, <2>3, <4>1
    <3>2. CASE q = r
      BY <1>4, <2>3, <3>2
    <3> QED BY <1>3, <2>1, <3>1, <3>2
  <2>5. 1 + r \in 1..q
    BY <1>3, <2>1, <2>4
  <2> QED BY <2>3, <2>5 DEF r
<1> QED BY <1>2, <1>3, <1>5, <1>6

\* The blocks that so many conversations keep are as many as are usable at most: each is
\* a cell of its conversation.
LEMMA Promised ==
  ASSUME NEW layout \in [groups : Seq([kind : STRING, block : Nat \ {0}]), dense : BOOLEAN,
                         blocks : Nat \ {0}],
         NEW t \in Nat, Estimate(layout, t) # <<>>
  PROVE  LET groups == layout.groups
             share(i) == CASE groups[i].kind = "tail" -> 0
                           [] groups[i].kind = "attention" -> groups[i].block
                           [] groups[i].kind = "mamba" /\ layout.dense -> groups[i].block
             kept == {x \in (1..Estimate(layout, t)[1]) \X (DOMAIN groups) \X (0..(t - 1)) :
                         share(x[2]) # 0 /\ x[3] % share(x[2]) = 0}
         IN  Cardinality(kept) < layout.blocks
<1> DEFINE groups == layout.groups
           D == DOMAIN groups
           share(i) == CASE groups[i].kind = "tail" -> 0
                         [] groups[i].kind = "attention" -> groups[i].block
                         [] groups[i].kind = "mamba" /\ layout.dense -> groups[i].block
           cost == [i \in D |-> GroupCost(groups[i], t, layout.dense)]
           sum == SumFunction(cost)
           fits == (layout.blocks - 1) \div sum
           room == Cells(D, cost, t)
           kept == {x \in (1..fits) \X D \X (0..(t - 1)) :
                         share(x[2]) # 0 /\ x[3] % share(x[2]) = 0}
           At(x) == <<x[1], <<x[2], 1 + x[3] \div share(x[2])>> >>
<1>1. /\ groups \in Seq([kind : STRING, block : Sizes]) /\ layout.dense \in BOOLEAN
      /\ layout.blocks \in Nat \ {0}
  BY DEF Sizes
<1>2. IsFiniteSet(D) /\ \A i \in D : groups[i] \in [kind : STRING, block : Sizes]
  <2> HIDE DEF groups
  <2>1. D = 1..Len(groups) /\ Len(groups) \in Nat
    BY <1>1
  <2>2. IsFiniteSet(1..Len(groups))
    BY <2>1, FS_Interval
  <2>3. \A i \in 1..Len(groups) : groups[i] \in [kind : STRING, block : Sizes]
    BY Zenon, <1>1, ElementOfSeq
  <2> HIDE DEF D
  <2> QED BY Zenon, <2>1, <2>2, <2>3
<1>3. /\ \A i \in D : cost[i] # Unmodelled
      /\ sum # 0 /\ Estimate(layout, t) = <<fits>>
  BY DEF Estimate
<1>4. ASSUME NEW i \in D
      PROVE  /\ cost[i] \in 0..t
             /\ share(i) # 0 => share(i) \in Sizes /\ cost[i] = CeilDiv(t, share(i))
  <2>1. groups[i].kind \in STRING /\ groups[i].block \in Sizes
    BY <1>2
  <2>2. cost[i] = GroupCost(groups[i], t, layout.dense) /\ cost[i] # Unmodelled
    BY <1>3
  <2>3. CASE groups[i].kind = "tail"
    <3>1. cost[i] = 0
      BY <2>2, <2>3 DEF GroupCost
    <3>2. share(i) = 0
      BY <2>3
    <3> HIDE DEF share, cost
    <3> QED BY <3>1, <3>2
  <2>4. CASE groups[i].kind = "attention"
    <3>1. cost[i] = CeilDiv(t, groups[i].block)
      BY <2>2, <2>4 DEF GroupCost
    <3>2. share(i) = groups[i].block
      BY <2>4
    <3> QED BY <2>1, <3>1, <3>2, BlocksOf
  <2>5. CASE groups[i].kind = "mamba" /\ layout.dense
    <3>1. cost[i] = CeilDiv(t, groups[i].block)
      BY <2>2, <2>5 DEF GroupCost
    <3>2. share(i) = groups[i].block
      BY <2>5
    <3> QED BY <2>1, <3>1, <3>2, BlocksOf
  <2>6. CASE groups[i].kind \notin {"tail", "attention"}
             /\ ~(groups[i].kind = "mamba" /\ layout.dense)
    BY <2>2, <2>6 DEF GroupCost
  <2> QED BY <2>3, <2>4, <2>5, <2>6
<1>5. cost \in [D -> 0..t]
  BY <1>4
<1> HIDE DEF cost
<1>6. /\ IsFiniteSet(room) /\ Cardinality(room) \in Nat /\ sum = Cardinality(room)
  BY <1>2, <1>5, CellsOf, SumCounts
<1>7. fits \in Nat /\ fits * sum \in Nat /\ fits * sum < layout.blocks
  <2> DEFINE n == layout.blocks - 1
             f == n \div sum
  <2>1. sum \in Sizes /\ n \in Nat /\ layout.blocks = n + 1
    BY <1>1, <1>3, <1>6 DEF Sizes
  <2> HIDE DEF sum, n
  <2>2. f \in Nat /\ n % sum \in 0..(sum - 1) /\ n = sum * f + (n % sum)
    BY Zenon, <2>1, DivIs
  <2>3. f * sum = sum * f /\ f * sum \in Nat
    BY <2>1, <2>2 DEF Sizes
  <2>4. n % sum \in Nat
    BY <2>1, <2>2 DEF Sizes
  <2>5. f = fits
    BY DEF n
  <2> HIDE DEF f, fits
  <2>6. f * sum <= n
    BY <2>1, <2>2, <2>3, <2>4
  <2> QED BY <2>1, <2>2, <2>3, <2>5, <2>6
<1> HIDE DEF fits, sum, room, share
<1>8. ASSUME NEW x \in kept
      PROVE  /\ x = <<x[1], x[2], x[3]>> /\ x[1] \in 1..fits /\ x[2] \in D /\ x[3] \in 0..(t - 1)
             /\ share(x[2]) \in Sizes /\ At(x) \in (1..fits) \X room
             /\ x[3] = share(x[2]) * (x[3] \div share(x[2]))
  <2>1. /\ x = <<x[1], x[2], x[3]>> /\ x[1] \in 1..fits /\ x[2] \in D /\ x[3] \in 0..(t - 1)
        /\ share(x[2]) # 0 /\ x[3] % share(x[2]) = 0
    OBVIOUS
  <2>2. share(x[2]) \in Sizes /\ cost[x[2]] = CeilDiv(t, share(x[2])) /\ cost[x[2]] \in 0..t
    BY <1>4, <2>1
  <2>3. /\ 1 + x[3] \div share(x[2]) \in 1..cost[x[2]]
        /\ x[3] = share(x[2]) * (x[3] \div share(x[2]))
    BY <2>1, <2>2, BlocksOf
  <2> DEFINE place == 1 + x[3] \div share(x[2])
  <2>4. place \in 1..t /\ place <= cost[x[2]]
    BY <2>2, <2>3
  <2> HIDE DEF place
  <2>5. <<x[2], place>> \in room
    BY <2>1, <2>4 DEF room, Cells
  <2>6. <<x[1], <<x[2], place>> >> \in (1..fits) \X room
    BY <2>1, <2>5
  <2> QED BY <2>1, <2>2, <2>3, <2>6 DEF place
<1>9. ASSUME NEW x \in kept, NEW y \in kept, At(x) = At(y) PROVE x = y
  <2>1. x[1] = y[1] /\ x[2] = y[2] /\ 1 + x[3] \div share(x[2]) = 1 + y[3] \div share(y[2])
    BY <1>9
  <2>2. x[3] \div share(x[2]) \in Int /\ y[3] \div share(y[2]) \in Int
    <3> DEFINE a == x[3]
               b == y[3]
               c == share(x[2])
               d == share(y[2])
    <3>1. a \in Nat /\ b \in Nat /\ c \in Sizes /\ d \in Sizes
      <4>1. /\ x[3] \in 0..(t - 1) /\ share(x[2]) \in Sizes
            /\ y[3] \in 0..(t - 1) /\ share(y[2]) \in Sizes
        BY Zenon, <1>8
      <4> HIDE DEF kept
      <4> QED BY <4>1
    <3> HIDE DEF a, b, c, d
    <3>2. a \div c \in Nat /\ b \div d \in Nat
      BY <3>1, DivIs
    <3> QED BY <3>2 DEF a, b, c, d
  <2>3. x[3] \div share(x[2]) = y[3] \div share(y[2])
    BY <2>1, <2>2
  <2>4. x[3] = y[3]
    BY <1>8, <2>1, <2>3
  <2> QED BY <1>8, <2>1, <2>4
<1>10. IsFiniteSet(1..fits) /\ Cardinality(1..fits) = fits
  BY <1>7, FS_Interval
<1>11. IsFiniteSet((1..fits) \X room) /\ Cardinality((1..fits) \X room) = fits * sum
  BY <1>6, <1>10, FS_Product
<1>12. Cardinality(kept) <= fits * sum /\ Cardinality(kept) \in Nat
  <2> DEFINE f == [x \in kept |-> At(x)]
  <2>1. f \in [kept -> (1..fits) \X room]
    BY <1>8
  <2>2. \A x, y \in kept : f[x] = f[y] => x = y
    BY <1>9
  <2> HIDE DEF f, kept
  <2>3. f \in Injection(kept, (1..fits) \X room)
    BY <2>1, <2>2 DEF Injection, IsInjective
  <2> QED BY <1>11, <2>3, FS_Injection, FS_CardinalityType
<1>13. Cardinality(kept) < layout.blocks
  <2> HIDE DEF kept
  <2> QED BY <1>1, <1>7, <1>12
<1>14. Estimate(layout, t)[1] = fits
  BY <1>3
<1> QED BY <1>13, <1>14 DEF fits, sum, cost, share

\* A promise is the estimate of a layout the workers reported.
LayoutOf(p) ==
    kind[p] = "capacity" /\ result[p].verdict = "layout" =>
        /\ result[p].layout \in Layouts
        /\ result[p].fits = Estimate(result[p].layout, profile.maxlen)
LayInv == profile.maxlen \in Nat /\ \A p \in Programs : LayoutOf(p)

\* Nothing is promised before a report.
LEMMA LayInit == Laid /\ Init => LayInv
<1> SUFFICES ASSUME Laid, Init PROVE LayInv
  OBVIOUS
<1>1. \A p \in Programs : result[p].verdict = "none"
  BY DEF Init, Fresh
<1>2. profile.maxlen \in Nat
  BY DEF Init, Laid
<1> QED BY <1>1, <1>2 DEF LayInv, LayoutOf

\* A step that leaves p's result alone.
LEMMA LayKept ==
  ASSUME LayInv, UNCHANGED fixed, NEW p \in Programs, result'[p] = result[p]
  PROVE  LayoutOf(p)'
<1>1. profile' = profile /\ kind' = kind /\ LayoutOf(p)
  BY DEF LayInv, fixed
<1>2. \A layout : Estimate(layout, profile.maxlen)' = Estimate(layout, profile.maxlen)
  BY <1>1 DEF Estimate, GroupCost
<1> QED BY <1>1, <1>2 DEF LayoutOf

\* A report promises what it estimates.
LEMMA LayReport ==
  ASSUME CheckInv, LayInv, NEW p \in Programs, Report(p), NEW q \in Programs
  PROVE  LayoutOf(q)'
<1>1. UNCHANGED fixed /\ result = [x \in Programs |-> result[x]]
  BY DEF Report, CheckInv, CheckType
<1>2. CASE UNCHANGED result
  BY <1>1, <1>2, LayKept
<1>3. CASE result' # result
  <2>1. PICK layout \in IF profile.lpa /\ profile.dev THEN Layouts ELSE {<<>>} :
          result' = [result EXCEPT ![p] =
             IF layout = <<>> THEN [passed |-> TRUE, verdict |-> "withheld"]
             ELSE [passed |-> TRUE, verdict |-> "layout", layout |-> layout,
                   fits |-> Estimate(layout, profile.maxlen)]]
    BY <1>3 DEF Report
  <2> DEFINE given == [passed |-> TRUE, verdict |-> "layout", layout |-> layout,
                       fits |-> Estimate(layout, profile.maxlen)]
  <2>2. /\ given.verdict = "layout" /\ given.layout = layout
        /\ given.fits = Estimate(layout, profile.maxlen)
    OBVIOUS
  <2> HIDE DEF given
  <2>3. result' = [result EXCEPT ![p] = IF layout = <<>>
                      THEN [passed |-> TRUE, verdict |-> "withheld"] ELSE given]
    BY <2>1 DEF given
  <2>4. CASE q # p
    BY <1>1, <2>3, <2>4, LayKept
  <2>5. CASE q = p /\ layout = <<>>
    <3>1. result'[q].verdict = "withheld"
      BY <1>1, <2>3, <2>5
    <3> QED BY <3>1 DEF LayoutOf
  <2>6. CASE q = p /\ layout # <<>>
    <3>1. result'[q] = given /\ layout \in Layouts
      BY <1>1, <2>1, <2>3, <2>6
    <3>2. profile' = profile
      BY <1>1 DEF fixed
    <3>3. Estimate(layout, profile.maxlen)' = Estimate(layout, profile.maxlen)
      BY <3>2 DEF Estimate, GroupCost
    <3> QED BY <2>2, <3>1, <3>2, <3>3 DEF LayoutOf
  <2> QED BY <2>4, <2>5, <2>6
<1> QED BY <1>2, <1>3

\* Every step keeps it.
LEMMA LayStep == CheckInv /\ LayInv /\ [Next]_vars => LayInv'
<1> SUFFICES ASSUME CheckInv, LayInv, [Next]_vars PROVE LayInv'
  OBVIOUS
<1>1. result = [p \in Programs |-> result[p]] /\ \A p \in Programs : Order(p)
  BY DEF CheckInv, CheckType, Check
<1>2. ASSUME UNCHANGED <<fixed, result>> PROVE LayInv'
  BY <1>2, LayKept DEF LayInv, fixed
<1>3. CASE UNCHANGED vars \/ Replace \/ OtherClient
  BY <1>2, <1>3 DEF vars, own, Replace, OtherClient
<1>4. ASSUME NEW p \in Programs, NEW l, Leave(p, l) PROVE LayInv'
  <2>1. UNCHANGED fixed /\ result' = [result EXCEPT ![p] = Fresh.result]
    BY <1>4 DEF Leave
  <2>2. result'[p].verdict = "none" /\ \A q \in Programs \ {p} : result'[q] = result[q]
    BY <1>1, <2>1 DEF Fresh
  <2>3. LayoutOf(p)'
    BY <2>2 DEF LayoutOf
  <2>4. ASSUME NEW q \in Programs \ {p} PROVE LayoutOf(q)'
    BY <2>1, <2>2, LayKept
  <2> QED BY <2>1, <2>3, <2>4 DEF LayInv, fixed
<1>5. ASSUME NEW p \in Programs, Decide(p) PROVE LayInv'
  <2>1. UNCHANGED fixed /\ kind[p] # "capacity"
    BY <1>1, <1>5 DEF Decide, Order
  <2>2. \A q \in Programs \ {p} : result'[q] = result[q]
    <3> DEFINE v == CASE kind[p] = "warmup" -> WarmupResult(p)
                      [] kind[p] = "prefix-gate" -> GateResult(p)
                      [] kind[p] = "mojibake" -> MojibakeResult(p)
                      [] kind[p] = "agreement" -> AgreementResult(p)
    <3>1. result' = [result EXCEPT ![p] = v]
      BY <1>5 DEF Decide
    <3> HIDE DEF v
    <3> QED BY <1>1, <3>1
  <2>3. LayoutOf(p)'
    BY <2>1 DEF LayoutOf, fixed
  <2>4. ASSUME NEW q \in Programs \ {p} PROVE LayoutOf(q)'
    BY <2>1, <2>2, LayKept
  <2> QED BY <2>1, <2>3, <2>4 DEF LayInv, fixed
<1>6. ASSUME NEW p \in Programs, Report(p) PROVE LayInv'
  BY <1>6, LayReport DEF LayInv, Report, fixed
<1>7. ASSUME NEW p \in Programs,
             \/ ReadHead(p) \/ TakeLock(p) \/ Probe(p) \/ SizeLong(p)
             \/ AskRung(p) \/ ReadCounts(p) \/ AskCanary(p) \/ AskNext(p)
             \/ EndPhase(p) \/ ResetCache(p) \/ Write(p) \/ Evict(p)
             \/ \E t \in Tasks : Send(p, t) \/ Reply(p, t)
      PROVE  LayInv'
  <2>1. UNCHANGED <<fixed, result>>
    BY <1>7 DEF ReadHead, TakeLock, Probe, SizeLong, AskRung, ReadCounts, AskCanary, AskNext,
                EndPhase, ResetCache, Write, Evict, Send, Reply, own
  <2> QED BY <1>2, <2>1
<1>8. ASSUME NEW p \in Programs, ProbeFails(p) \/ Unlock(p) \/ Kill(p) PROVE LayInv'
  BY <1>4, <1>8 DEF ProbeFails, Unlock, Kill
<1> QED BY <1>3, <1>5, <1>6, <1>7, <1>8 DEF Next

\* Such a promise is kept.
LEMMA PromisesKept == ASSUME Laid, LayInv PROVE \A p \in Programs : PromiseIsKept(p)
<1> SUFFICES ASSUME NEW p \in Programs,
                    kind[p] = "capacity" /\ result[p].verdict = "layout" /\ result[p].fits # <<>>
             PROVE  PromiseIsKept(p)
  BY DEF PromiseIsKept
<1> DEFINE layout == result[p].layout
           t == profile.maxlen
<1>1. layout \in [groups : Seq([kind : STRING, block : Nat \ {0}]), dense : BOOLEAN,
                  blocks : Nat \ {0}]
      /\ t \in Nat /\ result[p].fits = Estimate(layout, t)
  BY DEF LayInv, LayoutOf, Laid
<1>2. Estimate(layout, t) # <<>>
  BY <1>1
<1>3. LET groups == layout.groups
          share(i) == CASE groups[i].kind = "tail" -> 0
                        [] groups[i].kind = "attention" -> groups[i].block
                        [] groups[i].kind = "mamba" /\ layout.dense -> groups[i].block
          kept == {x \in (1..Estimate(layout, t)[1]) \X (DOMAIN groups) \X (0..(t - 1)) :
                      share(x[2]) # 0 /\ x[3] % share(x[2]) = 0}
      IN  Cardinality(kept) < layout.blocks
  <2> HIDE DEF layout, t
  <2> QED BY <1>1, <1>2, Promised
<1> QED BY <1>1, <1>3 DEF PromiseIsKept

\* What is sized for a request fits its limit, whatever the tokenizer counts, and the
\* conversations capacity promises have the blocks they keep, for any layout of the cache.
THEOREM PromisesFit == ASSUME Tokenized, Laid PROVE Spec => []SizedToFit
<1>1. SizeInv => \A p \in Programs : PromptFits(p)
  BY DEF SizeInv, Guess
<1>2. LayInv => \A p \in Programs : PromiseIsKept(p)
  BY PromisesKept
<1>3. SizeInv /\ LayInv => SizedToFit
  BY <1>1, <1>2 DEF SizedToFit
<1> QED
  BY <1>3, SizeInit, SizeStep, LayInit, LayStep, ChecksInductive, PTL DEF Spec

-----------------------------------------------------------------------------
(* The evaluations.                                                        *)

\* What argparse and the file of questions leave: a run has a number, the lock's
\* holder is no driver's name.
Started ==
    /\ \A a \in Arguments : a.run # 0 /\ a.limit \in Nat
    /\ Ev!None \notin Drivers /\ Questions \in Nat /\ MaxAttempts \in Nat

Stages == {"ended", "looked", "writing", "locking", "rows", "asking", "quiz"}
Manifests == {Ev!NoManifest} \cup {Ev!RunManifest(a) : a \in Arguments}
Attempts == Seq(Ev!Outcomes) \ {<<>>}

Places == [stage : Stages, args : Arguments \cup {Ev!Gone.args}, row : Nat \ {0}, fresh : Nat]
Records == [of : Manifests, code : Nat]
Reports == [status : {"absent", "empty", "running", "complete", "failed"},
            pilot : BOOLEAN, open : BOOLEAN, results : Seq(Attempts),
            exit : {"none", "valid", "invalid"}]
States == [status : {Ev!None, "stopped", "paused", "complete", "failed"},
           planned : Nat, answered : Nat]

EvType ==
    /\ holder \in Drivers \cup {Ev!None}
    /\ at \in [Drivers -> Places]
    /\ manifest \in Manifests
    /\ answers \in [1..Questions -> Records]
    /\ state \in States
    /\ report \in Reports
    /\ raced \in BOOLEAN /\ resent \in BOOLEAN

Hle(d) == at[d].args.program = "hle"

\* A driver that has not entered the lock is at its first row.
Begun(d) == at[d].stage \in {"looked", "writing", "locking"} => at[d].row = 1

\* A driver works under the lock, on what its program does.
Locked ==
    \A d \in Drivers :
        /\ at[d].stage \in {"rows", "asking", "quiz"} => holder = d
        /\ at[d].stage # "ended" => at[d].args \in Arguments
        /\ at[d].stage \in {"writing", "rows", "asking"} => Hle(d)
        /\ at[d].stage = "quiz" => ~Hle(d)
        /\ Begun(d)

\* Past the manifest, the directory is of the driver's run.
Directory ==
    ~raced =>
        /\ \A d \in Drivers :
              at[d].stage \in {"locking", "rows", "asking"} /\ Hle(d) =>
                  manifest = Ev!RunManifest(at[d].args)
        /\ \A q \in 1..Questions : answers[q] # Ev!Unanswered =>
              answers[q].of = manifest /\ manifest # Ev!NoManifest

\* The rows behind a driver are answered, the one it asks is not.
Rows ==
    /\ ~resent
    /\ state.status = "complete" => state.answered = state.planned
    /\ \A d \in Drivers : at[d].stage \in {"rows", "asking"} =>
          /\ at[d].row <= Ev!Selected(at[d].args) + 1
          /\ \A q \in 1..(at[d].row - 1) : answers[q] # Ev!Unanswered
          /\ at[d].stage = "asking" =>
                /\ at[d].row <= Ev!Selected(at[d].args)
                /\ answers[at[d].row] = Ev!Unanswered

\* A freedombench driver that made its directory is the only one that ever does.
Quizzes(d) == at[d].stage \in {"locking", "quiz"} /\ ~Hle(d)
Alone ==
    /\ \A d, e \in Drivers : Quizzes(d) /\ Quizzes(e) => d = e
    /\ \A d \in Drivers : Quizzes(d) =>
          report.status = IF at[d].stage = "quiz" THEN "running" ELSE "empty"
    /\ report.status = "absent" => report = Ev!NoReport

Unfinished(attempts) ==
    \A i \in 1..Len(attempts) : ~Ev!HasChoice(attempts[i]) /\ attempts[i] # "transport_error"

\* A question is asked until it gets a choice, or as often as allowed.
Finished(open, attempts) ==
    /\ \A i \in 1..(Len(attempts) - 1) :
          ~Ev!HasChoice(attempts[i]) /\ attempts[i] # "transport_error"
    /\ \/ open \/ Last(attempts) = "transport_error" \/ Ev!HasChoice(Last(attempts))
       \/ Len(attempts) = MaxAttempts

Replies ==
    /\ Len(report.results) <= Questions
    /\ report.open => report.pilot
    /\ report.status = "complete" =>
          \A i \in 1..Len(report.results) : Finished(report.open, report.results[i])
    /\ \A d \in Drivers : at[d].stage = "quiz" =>
          /\ report.open = (at[d].args.kind = "open")
          /\ Len(report.results) \in {at[d].row - 1, at[d].row}
          /\ Len(report.results) <= Ev!Selected(at[d].args)
          /\ \A i \in 1..(at[d].row - 1) : Finished(report.open, report.results[i])
          /\ Len(report.results) = at[d].row => Unfinished(report.results[at[d].row])

EvInv == EvType /\ Locked /\ Directory /\ Rows /\ Alone /\ Replies

\* Values at the outset, and of what runs put down, are of their types.
LEMMA EvValues ==
  /\ Ev!Gone \in Places /\ Ev!Gone.stage = "ended" /\ Ev!Gone.row = 1 /\ Ev!Gone.fresh = 0
  /\ Ev!NoManifest \in Manifests
  /\ \A a \in Arguments : Ev!RunManifest(a) \in Manifests
  /\ Ev!Unanswered \in Records
  /\ Ev!NoReport \in Reports /\ Ev!NoReport.results = <<>> /\ Ev!NoReport.status = "absent"
  /\ ~Ev!NoReport.open
<1>1. Ev!Gone \in Places /\ Ev!Gone.stage = "ended" /\ Ev!Gone.row = 1 /\ Ev!Gone.fresh = 0
  BY DEF Places, Ev!Gone, Stages
<1>2. Ev!NoManifest \in Manifests /\ \A a \in Arguments : Ev!RunManifest(a) \in Manifests
  BY DEF Manifests
<1>3. Ev!Unanswered \in Records
  BY <1>2 DEF Records, Ev!Unanswered
<1>4. Ev!NoReport \in Reports /\ Ev!NoReport.results = <<>> /\ Ev!NoReport.status = "absent"
      /\ ~Ev!NoReport.open
  BY DEF Reports, Ev!NoReport
<1>5. QED
  BY <1>1, <1>2, <1>3, <1>4

\* It holds before the first driver comes.
LEMMA EvInit == Started /\ Ev!Init => EvInv
<1> SUFFICES ASSUME Started, Ev!Init PROVE EvInv
  OBVIOUS
<1> USE EvValues DEF Ev!Init
<1>1. EvType
  <2>1. state \in States
    BY DEF States
  <2>2. QED
    BY <2>1 DEF EvType
<1>2. Locked /\ Directory
  BY DEF Locked, Directory, Begun
<1>3. Rows /\ Alone
  BY DEF Rows, Alone, Quizzes, Ev!None
<1>4. Replies
  BY DEF Replies, Started
<1>5. QED
  BY <1>1, <1>2, <1>3, <1>4 DEF EvInv

\* A driver that ends leaves the lock, if it had it.
LEMMA EndsDoes ==
  ASSUME EvType, Started, NEW d \in Drivers, Ev!Ends(d)
  PROVE  /\ at' \in [Drivers -> Places]
         /\ at'[d] = Ev!Gone /\ \A e \in Drivers \ {d} : at'[e] = at[e]
         /\ holder' = (IF holder = d THEN Ev!None ELSE holder)
         /\ holder' \in Drivers \cup {Ev!None}
  BY EvValues DEF EvType, Started, Ev!Ends


\* A driver that ends leaves what it had written true.
LEMMA EndsKeeps ==
  ASSUME Started, EvInv, NEW d \in Drivers, Ev!Ends(d),
         UNCHANGED <<manifest, answers, report, raced, resent>>,
         state' \in States, state'.status = "complete" => state'.answered = state'.planned
  PROVE  EvInv'
<1> USE DEF EvInv
<1>1. /\ at' \in [Drivers -> Places] /\ at'[d].stage = "ended"
      /\ \A e \in Drivers \ {d} : at'[e] = at[e]
      /\ holder' = (IF holder = d THEN Ev!None ELSE holder)
      /\ holder' \in Drivers \cup {Ev!None}
  BY EndsDoes, EvValues
<1>2. EvType'
  BY <1>1 DEF EvType
<1>3. Locked'
  BY <1>1 DEF Locked, Hle, Begun
<1>4. Directory'
  BY <1>1 DEF Directory, Hle
<1>5. Rows'
  BY <1>1 DEF Rows
<1>6. Alone'
  BY <1>1 DEF Alone, Quizzes, Hle
<1>7. Replies'
  BY <1>1 DEF Replies
<1>8. QED
  BY <1>2, <1>3, <1>4, <1>5, <1>6, <1>7

\* What a driver's next place says of the others: nothing.
LEMMA Places1 ==
  ASSUME EvType, NEW d \in Drivers, NEW s \in Stages, Ev!Goto(d, s)
  PROVE  /\ at' \in [Drivers -> Places]
         /\ at'[d].stage = s /\ at'[d].args = at[d].args /\ at'[d].row = at[d].row
         /\ \A e \in Drivers \ {d} : at'[e] = at[e]
  BY DEF EvType, Ev!Goto, Places

\* A driver begins.
LEMMA EvStart == ASSUME Started, EvInv, NEW d \in Drivers, Ev!Start(d) PROVE EvInv'
<1> USE DEF EvInv
<1>1. PICK a \in Arguments :
        at' = [at EXCEPT ![d] = [stage |-> "looked", args |-> a, row |-> 1, fresh |-> 0]]
  BY DEF Ev!Start
<1>2. /\ at' \in [Drivers -> Places] /\ at'[d].stage = "looked" /\ at'[d].args \in Arguments
      /\ at'[d].row = 1
      /\ \A e \in Drivers \ {d} : at'[e] = at[e]
  <2> DEFINE g == [stage |-> "looked", args |-> a, row |-> 1, fresh |-> 0]
  <2>1. g \in Places /\ g.stage = "looked" /\ g.args = a /\ g.row = 1
    BY DEF Places, Stages
  <2>2. at' = [at EXCEPT ![d] = g]
    BY <1>1
  <2> HIDE DEF g
  <2>3. QED
    BY <2>1, <2>2 DEF EvType
<1>3. UNCHANGED <<holder, manifest, answers, state, report, raced, resent>>
  BY DEF Ev!Start, Ev!output
<1>4. EvType'
  BY <1>2, <1>3 DEF EvType
<1>5. Locked' /\ Directory'
  BY <1>2, <1>3 DEF Locked, Directory, Hle, Begun
<1>6. Rows' /\ Replies'
  BY <1>2, <1>3 DEF Rows, Replies
<1>7. Alone'
  BY <1>2, <1>3 DEF Alone, Quizzes, Hle
<1>8. QED
  BY <1>4, <1>5, <1>6, <1>7

\* It looks at the manifest: one of another run ends it.
LEMMA EvManifest == ASSUME Started, EvInv, NEW d \in Drivers, Ev!Manifest(d) PROVE EvInv'
<1> USE DEF EvInv
<1>1. UNCHANGED <<manifest, answers, state, report, raced, resent>>
  BY DEF Ev!Manifest, Ev!output
<1>2. CASE Ev!Ends(d)
  BY <1>1, <1>2, EndsKeeps DEF EvType, Rows
<1>3. CASE ~Ev!Ends(d)
  <2>1. PICK s \in {"writing", "locking"} :
           Ev!Goto(d, s) /\ UNCHANGED holder /\ (s = "locking" => Ev!SameRun(d))
    BY <1>3 DEF Ev!Manifest
  <2>2. /\ at' \in [Drivers -> Places] /\ at'[d].stage = s /\ at'[d].args = at[d].args
        /\ at'[d].row = at[d].row
        /\ \A e \in Drivers \ {d} : at'[e] = at[e]
    BY <2>1, Places1 DEF Stages
  <2>3. at[d].stage = "looked" /\ Hle(d)
    BY DEF Ev!Manifest, Ev!Args, Hle
  <2>4. EvType'
    BY <1>1, <2>1, <2>2 DEF EvType
  <2>5. Locked'
    BY <1>1, <2>1, <2>2, <2>3 DEF Locked, Hle, Begun
  <2>6. Directory'
    BY <1>1, <2>1, <2>2, <2>3 DEF Directory, Hle, Ev!SameRun, Ev!Args
  <2>7. Rows' /\ Replies'
    BY <1>1, <2>2 DEF Rows, Replies
  <2>8. Alone'
    BY <1>1, <2>2, <2>3 DEF Alone, Quizzes, Hle
  <2>9. QED
    BY <2>4, <2>5, <2>6, <2>7, <2>8
<1>4. QED
  BY <1>2, <1>3

\* It writes one where there was none; another first start may have done so since.
LEMMA EvWriteManifest ==
  ASSUME Started, EvInv, NEW d \in Drivers, Ev!WriteManifest(d) PROVE EvInv'
<1> USE DEF EvInv
<1>1. /\ at' \in [Drivers -> Places] /\ at'[d].stage = "locking" /\ at'[d].args = at[d].args
        /\ at'[d].row = at[d].row
      /\ \A e \in Drivers \ {d} : at'[e] = at[e]
  BY Places1 DEF Ev!WriteManifest, Stages
<1>2. UNCHANGED <<holder, answers, state, report, resent>>
  BY DEF Ev!WriteManifest
<1>3. at[d].stage = "writing" /\ Hle(d) /\ at[d].args \in Arguments
  BY DEF Ev!WriteManifest, Locked
<1>4. /\ manifest' = Ev!RunManifest(at[d].args) /\ manifest' \in Manifests
      /\ raced' \in BOOLEAN
      /\ ~raced' => ~raced /\ manifest \in {Ev!NoManifest, manifest'}
  BY <1>3, EvValues DEF Ev!WriteManifest, Ev!Args, EvType
<1>5. EvType'
  BY <1>1, <1>2, <1>4 DEF EvType
<1>6. Locked'
  BY <1>1, <1>2, <1>3 DEF Locked, Hle, Begun
<1>7. Directory'
  <2>1. \A a \in Arguments : Ev!RunManifest(a) # Ev!NoManifest
    BY DEF Started, Ev!RunManifest, Ev!NoManifest
  <2>2. SUFFICES ASSUME ~raced' PROVE
           /\ \A e \in Drivers :
                at'[e].stage \in {"locking", "rows", "asking"} /\ Hle(e)' =>
                  manifest' = Ev!RunManifest(at'[e].args)
           /\ \A q \in 1..Questions : answers'[q] # Ev!Unanswered =>
                answers'[q].of = manifest' /\ manifest' # Ev!NoManifest
    BY DEF Directory
  <2>3. ASSUME NEW e \in Drivers, at'[e].stage \in {"locking", "rows", "asking"}, Hle(e)'
        PROVE  manifest' = Ev!RunManifest(at'[e].args)
    <3>1. CASE e = d
      BY <3>1, <1>1, <1>4
    <3>2. CASE e # d
      BY <3>2, <1>1, <1>4, <2>1, <2>2, <2>3 DEF Directory, Locked, Hle
    <3>3. QED
      BY <3>1, <3>2
  <2>4. \A q \in 1..Questions : answers'[q] # Ev!Unanswered =>
           answers'[q].of = manifest' /\ manifest' # Ev!NoManifest
    BY <1>2, <1>3, <1>4, <2>1, <2>2 DEF Directory
  <2>5. QED
    BY <2>3, <2>4
<1>8. Rows' /\ Replies'
  BY <1>1, <1>2 DEF Rows, Replies
<1>9. Alone'
  BY <1>1, <1>2, <1>3 DEF Alone, Quizzes, Hle
<1>10. QED
  BY <1>5, <1>6, <1>7, <1>8, <1>9

\* A freedombench driver makes its directory, or finds it there.
LEMMA EvMakeOutput ==
  ASSUME Started, EvInv, NEW d \in Drivers, Ev!MakeOutput(d) PROVE EvInv'
<1> USE DEF EvInv
<1>1. CASE report # Ev!NoReport
  <2>1. Ev!Ends(d) /\ UNCHANGED <<manifest, answers, state, report, raced, resent>>
    BY <1>1 DEF Ev!MakeOutput, Ev!output
  <2>2. QED
    BY <2>1, EndsKeeps DEF EvType, Rows
<1>2. CASE report = Ev!NoReport
  <2>1. /\ Ev!Goto(d, "locking") /\ report' = [report EXCEPT !.status = "empty"]
        /\ UNCHANGED <<holder, manifest, answers, state, raced, resent>>
    BY <1>2 DEF Ev!MakeOutput, Ev!output
  <2>2. /\ at' \in [Drivers -> Places] /\ at'[d].stage = "locking" /\ at'[d].args = at[d].args
        /\ at'[d].row = at[d].row
        /\ \A e \in Drivers \ {d} : at'[e] = at[e]
    BY <2>1, Places1 DEF Stages
  <2>3. at[d].stage = "looked" /\ ~Hle(d)
    BY DEF Ev!MakeOutput, Ev!Args, Hle
  <2>4. /\ report' \in Reports /\ report'.status = "empty" /\ report'.results = <<>>
        /\ ~report'.open
    BY <2>1, <1>2, EvValues DEF Reports
  <2>5. \A e \in Drivers : ~Quizzes(e)
    BY <1>2, EvValues DEF Alone
  <2>6. EvType'
    BY <2>1, <2>2, <2>4 DEF EvType
  <2>7. Locked' /\ Directory' /\ Rows'
    BY <2>1, <2>2, <2>3 DEF Locked, Directory, Rows, Hle, Begun
  <2>8. Alone'
    BY <2>2, <2>3, <2>4, <2>5 DEF Alone, Quizzes, Hle
  <2>9. Replies'
    BY <2>1, <2>2, <2>3, <2>4, <2>5 DEF Replies, Started, Quizzes, Locked
  <2>10. QED
    BY <2>6, <2>7, <2>8, <2>9
<1>3. QED
  BY <1>1, <1>2

\* It takes the lock, or ends.
LEMMA EvLock == ASSUME Started, EvInv, NEW d \in Drivers, Ev!Lock(d) PROVE EvInv'
<1> USE DEF EvInv
<1>1. /\ at[d].stage = "locking" /\ at[d].args \in Arguments
      /\ UNCHANGED <<manifest, answers, state, raced, resent>>
  BY DEF Ev!Lock, Ev!output, Locked
<1>2. CASE holder # Ev!None
  BY <1>1, <1>2, EndsKeeps DEF Ev!Lock, EvType, Rows
<1>3. CASE holder = Ev!None /\ Hle(d)
  <2>1. Ev!Goto(d, "rows") /\ holder' = d /\ UNCHANGED report
    BY <1>3 DEF Ev!Lock, Ev!Enters, Hle, Ev!Args
  <2>2. /\ at' \in [Drivers -> Places] /\ at'[d].stage = "rows" /\ at'[d].args = at[d].args
        /\ at'[d].row = at[d].row /\ \A e \in Drivers \ {d} : at'[e] = at[e]
    BY <2>1, Places1 DEF Stages
  <2>3. EvType'
    BY <1>1, <2>1, <2>2 DEF EvType
  <2>4. Locked'
    BY <1>1, <1>3, <2>1, <2>2 DEF Locked, Hle, Started, EvType, Begun
  <2>5. Directory'
    BY <1>1, <1>3, <2>1, <2>2 DEF Directory, Hle
  <2>6. Rows'
    BY <1>1, <1>3, <2>1, <2>2 DEF Rows, Started, EvType, Ev!Selected, Begun, Locked
  <2>7. Alone'
    BY <1>1, <1>3, <2>1, <2>2 DEF Alone, Quizzes, Hle
  <2>8. Replies'
    BY <1>1, <1>3, <2>1, <2>2 DEF Replies
  <2>9. QED
    BY <2>3, <2>4, <2>5, <2>6, <2>7, <2>8
<1>4. CASE holder = Ev!None /\ ~Hle(d)
  <2>1. Ev!Goto(d, "quiz") /\ holder' = d /\ report' = Ev!Fresh(at[d].args)
    BY <1>4 DEF Ev!Lock, Ev!Enters, Hle, Ev!Args
  <2>2. /\ at' \in [Drivers -> Places] /\ at'[d].stage = "quiz" /\ at'[d].args = at[d].args
        /\ at'[d].row = at[d].row /\ \A e \in Drivers \ {d} : at'[e] = at[e]
    BY <2>1, Places1 DEF Stages
  <2>3. /\ report' \in Reports /\ report'.status = "running" /\ report'.results = <<>>
        /\ report'.open = (at[d].args.kind = "open")
        /\ report'.open => report'.pilot
    BY <2>1, EvValues DEF Ev!Fresh, Reports, Ev!Pilot
  <2>4. EvType'
    BY <1>1, <2>1, <2>2, <2>3 DEF EvType
  <2>5. Locked'
    BY <1>1, <1>4, <2>1, <2>2 DEF Locked, Hle, Started, EvType, Begun
  <2>6. Directory' /\ Rows'
    BY <1>1, <1>4, <2>1, <2>2 DEF Directory, Hle, Rows
  <2>7. Alone'
    BY <1>1, <1>4, <2>2, <2>3 DEF Alone, Quizzes, Hle
  <2>8. Replies'
    BY <1>1, <1>4, <2>1, <2>2, <2>3 DEF Replies, Started, Begun, Locked, Ev!Selected
  <2>9. QED
    BY <2>4, <2>5, <2>6, <2>7, <2>8
<1>5. QED
  BY <1>2, <1>3, <1>4

\* Cardinality, as Evaluate reads it.
LEMMA EvCardinality == \A S : Ev!Cardinality(S) = Cardinality(S)
  BY Zenon DEF Ev!Cardinality, Cardinality

\* What is left behind when the rows are left: how many are answered.
LEMMA LeaveKeeps ==
  ASSUME Started, EvInv, NEW d \in Drivers, NEW what \in {"stopped", "paused", "complete", "failed"},
         Ev!Leave(d, what), at[d].stage \in {"rows", "asking"},
         what = "complete" => at[d].row > Ev!Selected(at[d].args),
         UNCHANGED <<manifest, answers, report, raced, resent>>
  PROVE  EvInv'
<1> DEFINE n == Ev!Selected(at[d].args)
           done == {q \in 1..n : answers[q] # Ev!Unanswered}
<1> USE DEF EvInv
<1>1. at[d].args \in Arguments /\ n \in Nat /\ at[d].row \in Nat \ {0}
  BY DEF Locked, Started, Ev!Selected, EvType, Places
<1>2. IsFiniteSet(1..n) /\ Cardinality(1..n) = n
  BY <1>1, FS_Interval
<1>3. IsFiniteSet(done) /\ Cardinality(done) \in Nat
  BY <1>2, FS_Subset, FS_CardinalityType
<1>4. what = "complete" => done = 1..n
  <2> SUFFICES ASSUME what = "complete" PROVE \A q \in 1..n : answers[q] # Ev!Unanswered
    OBVIOUS
  <2>1. \A q \in 1..(at[d].row - 1) : answers[q] # Ev!Unanswered
    BY DEF Rows
  <2>2. at[d].row > n
    OBVIOUS
  <2> HIDE DEF n
  <2>3. QED
    BY <1>1, <2>1, <2>2
<1>5. state' = [status |-> what, planned |-> n, answered |-> Cardinality(done)]
  BY EvCardinality DEF Ev!Leave, Ev!Args
<1> HIDE DEF n, done
<1>6. state' \in States /\ (state'.status = "complete" => state'.answered = state'.planned)
  BY <1>1, <1>2, <1>3, <1>4, <1>5 DEF States
<1>7. QED
  BY <1>6, EndsKeeps DEF Ev!Leave

\* The next row: an answered one is skipped, a new one is asked unless the run stops.
LEMMA EvStep == ASSUME Started, EvInv, NEW d \in Drivers, Ev!Step(d) PROVE EvInv'
<1> USE DEF EvInv
<1>1. /\ at[d].stage = "rows" /\ at[d].row <= Ev!Selected(at[d].args)
      /\ at[d].args \in Arguments /\ Hle(d) /\ holder = d
      /\ UNCHANGED <<manifest, answers, report, raced, resent>>
  BY DEF Ev!Step, Ev!Args, Locked
<1>2. Ev!Selected(at[d].args) \in Nat
  BY <1>1 DEF Started, Ev!Selected
<1>3. CASE answers[at[d].row] # Ev!Unanswered
  <2>1. at' = [at EXCEPT ![d].row = at[d].row + 1] /\ UNCHANGED <<state, holder>>
    BY <1>3 DEF Ev!Step
  <2>2. /\ at' \in [Drivers -> Places] /\ at'[d].stage = "rows" /\ at'[d].args = at[d].args
        /\ at'[d].row = at[d].row + 1 /\ at[d].row \in Nat \ {0}
        /\ \A e \in Drivers \ {d} : at'[e] = at[e]
    <3>1. [at[d] EXCEPT !.row = at[d].row + 1] \in Places /\ at[d].row \in Nat \ {0}
      BY SMTT(40) DEF EvType, Places
    <3>2. QED
      BY <1>1, <2>1, <3>1 DEF EvType, Places
  <2>3. EvType'
    BY <1>1, <2>1, <2>2 DEF EvType
  <2>4. Locked' /\ Directory'
    BY <1>1, <2>1, <2>2 DEF Locked, Directory, Hle, Begun
  <2>5. Rows'
    BY <1>1, <1>2, <1>3, <2>1, <2>2 DEF Rows
  <2>6. Alone' /\ Replies'
    BY <1>1, <2>1, <2>2 DEF Alone, Quizzes, Hle, Replies
  <2>7. QED
    BY <2>3, <2>4, <2>5, <2>6
<1>4. CASE answers[at[d].row] = Ev!Unanswered /\ (stopFile \/ at[d].fresh = at[d].args.maxNew)
  <2>1. PICK what \in {"stopped", "paused"} : Ev!Leave(d, what)
    BY <1>4 DEF Ev!Step, Ev!Args
  <2>2. QED
    BY <1>1, <2>1, LeaveKeeps
<1>5. CASE answers[at[d].row] = Ev!Unanswered /\ ~(stopFile \/ at[d].fresh = at[d].args.maxNew)
  <2>1. Ev!Goto(d, "asking") /\ UNCHANGED <<state, holder>>
    BY <1>5 DEF Ev!Step, Ev!Args
  <2>2. /\ at' \in [Drivers -> Places] /\ at'[d].stage = "asking" /\ at'[d].args = at[d].args
        /\ at'[d].row = at[d].row /\ \A e \in Drivers \ {d} : at'[e] = at[e]
    BY <2>1, Places1 DEF Stages
  <2>3. EvType'
    BY <1>1, <2>1, <2>2 DEF EvType
  <2>4. Locked' /\ Directory'
    BY <1>1, <2>1, <2>2 DEF Locked, Directory, Hle, Begun
  <2>5. Rows'
    BY <1>1, <1>2, <1>5, <2>1, <2>2 DEF Rows
  <2>6. Alone' /\ Replies'
    BY <1>1, <2>1, <2>2 DEF Alone, Quizzes, Hle, Replies
  <2>7. QED
    BY <2>3, <2>4, <2>5, <2>6
<1>6. QED
  BY <1>3, <1>4, <1>5

\* An answer is put down once, under the manifest of its run.
LEMMA EvAnswer == ASSUME Started, EvInv, NEW d \in Drivers, Ev!Answer(d) PROVE EvInv'
<1> USE DEF EvInv
<1>1. /\ at[d].stage = "asking" /\ at[d].args \in Arguments /\ Hle(d) /\ holder = d
      /\ at[d].row \in 1..Questions /\ at[d].row <= Ev!Selected(at[d].args)
      /\ answers[at[d].row] = Ev!Unanswered
  BY DEF Ev!Answer, Locked, Rows, Started, Ev!Selected, EvType, Places
<1>2. UNCHANGED <<holder, manifest, state, report, raced>>
  BY DEF Ev!Answer
<1>3. ~resent' /\ resent' \in BOOLEAN
  BY <1>1 DEF Ev!Answer, Rows, EvType
<1>4. /\ at' \in [Drivers -> Places] /\ at'[d].stage = "rows" /\ at'[d].args = at[d].args
      /\ at'[d].row = at[d].row + 1 /\ \A e \in Drivers \ {d} : at'[e] = at[e]
  <2> DEFINE g == [stage |-> "rows", args |-> at[d].args, row |-> at[d].row + 1,
                   fresh |-> at[d].fresh + 1]
  <2>1. g \in Places /\ g.stage = "rows" /\ g.args = at[d].args /\ g.row = at[d].row + 1
    BY DEF EvType, Places, Stages
  <2>2. at' = [at EXCEPT ![d] = g]
    BY DEF Ev!Answer
  <2> HIDE DEF g
  <2>3. QED
    BY <2>1, <2>2 DEF EvType
<1>5. PICK code \in Ev!Codes : (code = 200 \/ Ev!Rejected(code)) /\
        answers' = [answers EXCEPT ![at[d].row] = [of |-> Ev!RunManifest(at[d].args), code |-> code]]
  BY DEF Ev!Answer, Ev!Args
<1>6. /\ answers' \in [1..Questions -> Records]
      /\ answers'[at[d].row].of = Ev!RunManifest(at[d].args)
      /\ answers'[at[d].row] # Ev!Unanswered
      /\ \A q \in (1..Questions) \ {at[d].row} : answers'[q] = answers[q]
  BY <1>1, <1>5, EvValues DEF EvType, Records, Ev!Codes, Ev!Unanswered, Ev!Rejected
<1>7. EvType'
  BY <1>2, <1>3, <1>4, <1>6 DEF EvType
<1>8. Locked'
  BY <1>1, <1>2, <1>4 DEF Locked, Hle, Begun
<1>9. Directory'
  <2>1. Ev!RunManifest(at[d].args) # Ev!NoManifest
    BY <1>1 DEF Started, Ev!RunManifest, Ev!NoManifest
  <2>2. ~raced => manifest = Ev!RunManifest(at[d].args)
    BY <1>1 DEF Directory
  <2>3. QED
    BY <1>1, <1>2, <1>4, <1>6, <2>1, <2>2 DEF Directory, Hle
<1>10. Rows'
  <2>1. \A e \in Drivers \ {d} : at[e].stage \notin {"rows", "asking"}
    BY <1>1 DEF Locked
  <2>2. Ev!Selected(at[d].args) \in 0..Questions
    BY <1>1 DEF Started, Ev!Selected
  <2>3. at'[d].row <= Ev!Selected(at'[d].args) + 1
    BY <1>1, <1>4, <2>2
  <2>4. \A q \in 1..(at'[d].row - 1) : answers'[q] # Ev!Unanswered
    <3> DEFINE r == at[d].row
    <3>1. \A q \in 1..(r - 1) : answers[q] # Ev!Unanswered
      BY <1>1 DEF Rows
    <3>2. r \in 1..Questions /\ Questions \in Nat
      BY <1>1 DEF Started
    <3> HIDE DEF r
    <3>3. \A q \in 1..r : answers'[q] # Ev!Unanswered
      <4>1. \A q \in 1..r : q = r \/ (q \in 1..(r - 1) /\ q \in (1..Questions) \ {r})
        BY <3>2
      <4>2. QED
        BY <3>1, <4>1, <1>6 DEF r
    <3>4. (r + 1) - 1 = r
      BY <3>2
    <3>5. QED
      BY <1>4, <3>3, <3>4 DEF r
  <2>5. QED
    BY <1>2, <1>3, <1>4, <2>1, <2>3, <2>4 DEF Rows
<1>11. Alone'
  BY <1>1, <1>2, <1>4 DEF Alone, Quizzes, Hle
<1>12. Replies'
  BY <1>2, <1>4 DEF Replies
<1>13. QED
  BY <1>7, <1>8, <1>9, <1>10, <1>11, <1>12

\* The list of attempts after one more, where the last question may have had some.
LEMMA Saved ==
  ASSUME NEW S, NEW s \in Seq(S), NEW x \in S, NEW r \in Nat \ {0}, Len(s) \in {r - 1, r}
  PROVE  LET t == Append(SubSeq(s, 1, r - 1), x)
         IN  /\ t \in Seq(S) /\ Len(t) = r /\ t[r] = x
             /\ \A i \in 1..(r - 1) : t[i] = s[i]
<1> DEFINE p == SubSeq(s, 1, r - 1)
<1>1. p \in Seq(S) /\ Len(p) = r - 1 /\ \A i \in 1..(r - 1) : p[i] = s[i]
  <2>1. CASE r = 1
    BY <2>1
  <2>2. CASE r > 1
    BY <2>2
  <2>3. QED
    BY <2>1, <2>2
<1> HIDE DEF p
<1>2. QED
  BY <1>1 DEF p

\* One attempt at the question: enough, or to be followed by another.
LEMMA EvAttempt == ASSUME Started, EvInv, NEW d \in Drivers, Ev!Attempt(d) PROVE EvInv'
<1> DEFINE r == at[d].row
           s == report.results
           old == IF Len(s) = r THEN Last(s) ELSE <<>>
           enough(t) == Ev!Enough(at[d].args, t)
<1> USE DEF EvInv
<1>1. /\ at[d].stage = "quiz" /\ at[d].args \in Arguments /\ ~Hle(d) /\ holder = d
      /\ r \in Nat \ {0} /\ r <= Ev!Selected(at[d].args) /\ Len(s) \in {r - 1, r}
      /\ Ev!Selected(at[d].args) \in 0..Questions
      /\ UNCHANGED <<holder, manifest, answers, state, raced, resent>>
  BY DEF Ev!Attempt, Ev!Args, Ev!output, Locked, Replies, EvType, Places, Started, Ev!Selected
<1>2. PICK o \in Ev!Outcomes :
        /\ report' = [report EXCEPT !.results = Append(SubSeq(s, 1, r - 1), Append(old, o))]
        /\ at' = [at EXCEPT ![d].row = IF enough(Append(old, o)) THEN r + 1 ELSE r]
  BY Zenon DEF Ev!Attempt, Ev!Args, Ev!Last, Last
<1> DEFINE new == Append(old, o)
<1>3. s \in Seq(Attempts)
  BY DEF EvType, Reports
<1>4. old \in Seq(Ev!Outcomes) /\ Unfinished(old)
  <2>1. CASE Len(s) = r
    <3>1. old = s[r] /\ s[r] \in Attempts
      BY <1>1, <1>3, <2>1 DEF Last
    <3>2. QED
      BY <1>1, <2>1, <3>1 DEF Replies, Attempts
  <2>2. CASE Len(s) # r
    BY <2>2 DEF Unfinished
  <2>3. QED
    BY <2>1, <2>2
<1> HIDE DEF old
<1>5. /\ new \in Attempts /\ Last(new) = o /\ Len(new) = Len(old) + 1
      /\ \A i \in 1..(Len(new) - 1) : ~Ev!HasChoice(new[i]) /\ new[i] # "transport_error"
  BY <1>4 DEF Attempts, Last, Unfinished
<1> HIDE DEF new
<1>6. /\ report'.results \in Seq(Attempts) /\ Len(report'.results) = r
      /\ report'.results[r] = new
      /\ \A i \in 1..(r - 1) : report'.results[i] = s[i]
  BY <1>1, <1>2, <1>3, <1>5, Saved DEF EvType, Reports, new
<1>7. /\ report' \in Reports /\ report'.status = report.status /\ report'.open = report.open
      /\ report'.pilot = report.pilot
  BY <1>2, <1>6 DEF EvType, Reports
<1>8. /\ at' \in [Drivers -> Places] /\ at'[d].stage = "quiz" /\ at'[d].args = at[d].args
      /\ at'[d].row = (IF enough(new) THEN r + 1 ELSE r)
      /\ \A e \in Drivers \ {d} : at'[e] = at[e]
  <2> DEFINE n == IF enough(new) THEN r + 1 ELSE r
  <2>1. [at[d] EXCEPT !.row = n] \in Places /\ n \in Nat \ {0}
    BY <1>1 DEF EvType, Places
  <2>2. QED
    BY <1>1, <1>2, <2>1 DEF EvType, Places, new
<1>9. EvType'
  BY <1>1, <1>7, <1>8 DEF EvType
<1>10. Locked' /\ Directory'
  BY <1>1, <1>8 DEF Locked, Directory, Hle, Begun
<1>11. Rows'
  BY <1>1, <1>8 DEF Rows
<1>12. Alone'
  <2>1. report.status = "running"
    BY <1>1 DEF Alone, Quizzes
  <2>2. QED
    BY <1>1, <1>7, <1>8, <2>1 DEF Alone, Quizzes, Hle
<1>13. Replies'
  <2>1. report.status = "running"
    BY <1>1 DEF Alone, Quizzes
  <2>2. \A e \in Drivers \ {d} : at'[e].stage # "quiz"
    BY <1>1, <1>8 DEF Locked
  <2>3. \A i \in 1..(r - 1) : Finished(report'.open, report'.results[i])
    BY <1>1, <1>6, <1>7 DEF Replies
  <2>4. /\ Len(report'.results) \in {at'[d].row - 1, at'[d].row}
        /\ \A i \in 1..(at'[d].row - 1) : Finished(report'.open, report'.results[i])
        /\ Len(report'.results) = at'[d].row => Unfinished(report'.results[at'[d].row])
    <3>1. CASE enough(new)
      <4>1. Finished(report'.open, report'.results[r])
        BY <1>1, <1>5, <1>6, <1>7, <3>1 DEF Finished, Ev!Enough, Ev!Last, Last, Replies
      <4>2. at'[d].row = r + 1 /\ \A i \in 1..r : i = r \/ i \in 1..(r - 1)
        BY <1>1, <1>8, <3>1
      <4>3. at'[d].row - 1 = r /\ Len(report'.results) # at'[d].row
        <5>1. \A m, n : m \in Nat /\ n = m + 1 => n - 1 = m /\ m # n
          OBVIOUS
        <5>2. r \in Nat
          BY <1>1 DEF EvType, Places
        <5> HIDE DEF r
        <5>3. QED
          BY <1>6, <4>2, <5>1, <5>2
      <4>4. \A i \in 1..r : Finished(report'.open, report'.results[i])
        BY <2>3, <4>1, <4>2
      <4>5. QED
        BY <1>6, <4>3, <4>4
    <3>2. CASE ~enough(new)
      <4>1. Unfinished(report'.results[r])
        <5>1. ~Ev!HasChoice(new[Len(new)]) /\ new[Len(new)] # "transport_error"
          BY <3>2 DEF Ev!Enough, Ev!Last
        <5>2. \A i \in 1..Len(new) : i = Len(new) \/ i \in 1..(Len(new) - 1)
          BY <1>5 DEF Attempts
        <5>3. QED
          BY <1>5, <1>6, <5>1, <5>2 DEF Unfinished
      <4>2. QED
        BY <1>1, <1>6, <1>8, <2>3, <3>2, <4>1
    <3>3. QED
      BY <3>1, <3>2
  <2>5. report.open = (at[d].args.kind = "open") /\ (report.open => report.pilot)
    BY <1>1 DEF Replies
  <2>6. Len(report'.results) <= Questions /\ Len(report'.results) <= Ev!Selected(at'[d].args)
    BY <1>1, <1>6, <1>8 DEF Started
  <2>7. QED
    BY <1>7, <1>8, <2>1, <2>2, <2>4, <2>5, <2>6 DEF Replies
<1>14. QED
  BY <1>9, <1>10, <1>11, <1>12, <1>13

\* A driver that leaves its quiz, at the end or by an error.
LEMMA EvQuizEnds ==
  ASSUME Started, EvInv, NEW d \in Drivers, Ev!Exit(d) \/ Ev!Interrupt(d) PROVE EvInv'
<1> USE DEF EvInv
<1>1. /\ at[d].stage = "quiz" /\ ~Hle(d) /\ at[d].args \in Arguments
      /\ Ev!Ends(d) /\ UNCHANGED <<manifest, answers, state, raced, resent>>
  BY DEF Ev!Exit, Ev!Interrupt, Ev!output, Locked
<1>2. /\ at' \in [Drivers -> Places] /\ at'[d].stage = "ended"
      /\ \A e \in Drivers \ {d} : at'[e] = at[e]
      /\ holder' = (IF holder = d THEN Ev!None ELSE holder)
      /\ holder' \in Drivers \cup {Ev!None}
  BY <1>1, EndsDoes, EvValues
<1>3. /\ report' \in Reports /\ report'.status \in {"complete", "failed"}
      /\ report'.open = report.open /\ report'.pilot = report.pilot
      /\ report'.results = report.results
      /\ report'.status = "complete" => at[d].row > Ev!Selected(at[d].args)
  <2>1. CASE Ev!Exit(d)
    <3>1. PICK v \in {"valid", "invalid"} :
             report' = [[report EXCEPT !.status = "complete"] EXCEPT !.exit = v]
      BY <2>1 DEF Ev!Exit
    <3>2. QED
      BY <2>1, <3>1 DEF Ev!Exit, Ev!Args, EvType, Reports
  <2>2. CASE Ev!Interrupt(d)
    BY <2>2 DEF Ev!Interrupt, EvType, Reports
  <2>3. QED
    BY <2>1, <2>2
<1>4. \A e \in Drivers : ~Quizzes(e)'
  BY <1>1, <1>2 DEF Alone, Quizzes, Hle
<1>5. EvType' /\ Locked'
  BY <1>1, <1>2, <1>3 DEF EvType, Locked, Hle, Begun
<1>6. Directory' /\ Rows'
  BY <1>1, <1>2 DEF Directory, Rows, Hle
<1>7. Alone'
  BY <1>3, <1>4 DEF Alone
<1>8. Replies'
  <2>1. /\ Len(report.results) <= at[d].row /\ Len(report.results) <= Ev!Selected(at[d].args)
        /\ \A i \in 1..(at[d].row - 1) : Finished(report.open, report.results[i])
    BY <1>1 DEF Replies, EvType, Places
  <2>2. at[d].row \in Nat /\ Len(report.results) \in Nat /\ Ev!Selected(at[d].args) \in Nat
    BY <1>1 DEF EvType, Places, Reports, Started, Ev!Selected
  <2>3. report'.status = "complete" =>
          \A i \in 1..Len(report'.results) : Finished(report'.open, report'.results[i])
    BY <1>3, <2>1, <2>2
  <2>4. \A e \in Drivers : at'[e].stage # "quiz"
    BY <1>2, <1>4, <1>5 DEF Quizzes, Locked
  <2>5. QED
    BY <1>3, <2>3, <2>4 DEF Replies
<1>9. QED
  BY <1>5, <1>6, <1>7, <1>8

\* Somebody touches STOP.
LEMMA EvTouch == ASSUME EvInv, Ev!Touch \/ UNCHANGED Ev!vars PROVE EvInv'
<1>1. UNCHANGED <<holder, at, manifest, answers, state, report, raced, resent>>
  BY DEF Ev!Touch, Ev!vars, Ev!output
<1>2. EvType' /\ Locked' /\ Directory'
  BY <1>1 DEF EvInv, EvType, Locked, Directory, Hle, Begun
<1>3. Rows' /\ Alone'
  BY <1>1 DEF EvInv, Rows, Alone, Quizzes, Hle
<1>4. Replies'
  BY <1>1 DEF EvInv, Replies
<1>5. QED
  BY <1>2, <1>3, <1>4 DEF EvInv

\* Every step keeps the invariant.
LEMMA EvStepInv == Started => (EvInv /\ [Ev!Next]_Ev!vars => EvInv')
<1> SUFFICES ASSUME Started, EvInv, [Ev!Next]_Ev!vars PROVE EvInv'
  OBVIOUS
<1>1. ASSUME NEW d \in Drivers, Ev!Kill(d) PROVE EvInv'
  BY <1>1, EndsKeeps DEF Ev!Kill, Ev!output, EvInv, EvType, Rows
<1>2. ASSUME NEW d \in Drivers, Ev!Complete(d) \/ Ev!Fail(d) PROVE EvInv'
  BY <1>2, LeaveKeeps DEF Ev!Complete, Ev!Fail, Ev!Args, EvInv
<1>3. QED
  BY <1>1, <1>2, EvTouch, EvStart, EvManifest, EvWriteManifest, EvMakeOutput, EvLock, EvStep,
     EvAnswer, EvAttempt, EvQuizEnds DEF Ev!Next

\* EvInv always holds.
THEOREM EvaluationInductive == ASSUME Started PROVE Ev!Spec => []EvInv
  BY EvInit, EvStepInv, PTL DEF Ev!Spec

\* A suite is called complete only with a reply to every question.
LEMMA SuiteEarned == ASSUME Started, EvInv PROVE Ev!SuiteIsEarned
<1> SUFFICES ASSUME Ev!FullSuiteComplete(report), NEW q \in 1..Questions
             PROVE  /\ Ev!Last(report.results[q]) \in {"choice", "empty_final", "unparsed"}
                    /\ report.status = "complete" => Ev!Settled(report.results[q])
  BY DEF Ev!SuiteIsEarned
<1> DEFINE s == report.results
           got == {i \in DOMAIN s : s[i] # <<>>}
<1> USE DEF EvInv
<1>1. s \in Seq(Attempts) /\ Len(s) \in Nat /\ Len(s) <= Questions /\ Questions \in Nat
  BY DEF EvType, Reports, Replies, Started
<1>2. Cardinality(got) = Questions
  BY EvCardinality DEF Ev!FullSuiteComplete, Ev!ValidCompleteRun, Ev!Received
<1>3. got \subseteq 1..Questions
  BY <1>1
<1>4. IsFiniteSet(1..Questions) /\ Cardinality(1..Questions) = Questions
  BY <1>1, FS_Interval
<1>5. q \in got
  BY <1>2, <1>3, <1>4, FS_Subset
<1>6. Last(s[q]) \in Ev!Lasts(report) /\ s[q] \in Attempts
  BY <1>1, <1>5 DEF Ev!Lasts, Ev!Last, Last
<1>7. Last(s[q]) \in Ev!Outcomes
  BY <1>6 DEF Attempts, Last
<1>8. Last(s[q]) \in {"choice", "empty_final", "unparsed"}
  BY <1>6, <1>7 DEF Ev!FullSuiteComplete, Ev!ValidCompleteRun, Ev!Outcomes, Ev!Truncated
<1>9. ASSUME report.status = "complete" PROVE Ev!Settled(s[q])
  <2>1. report.open = FALSE
    BY DEF Replies, Ev!FullSuiteComplete, EvType, Reports
  <2>2. Finished(report.open, s[q])
    BY <1>1, <1>5, <1>9 DEF Replies
  <2>3. QED
    BY <1>8, <2>1, <2>2 DEF Finished, Ev!Settled, Ev!Last, Last
<1>10. QED
  BY <1>8, <1>9 DEF Ev!Last, Last

\* What the invariant of an evaluation says of its answers and of its suite.
LEMMA WholeEarned == ASSUME Started, EvInv PROVE Ev!RunsAreWhole
<1>1. Ev!AnswersAreKept
  BY DEF EvInv, Ev!AnswersAreKept, Directory, Rows, Locked
<1>2. QED
  BY <1>1, SuiteEarned DEF Ev!RunsAreWhole

\* An evaluation asks no answered question again, keeps the answers of a run under its
\* manifest, and calls complete only what was asked to its end.
THEOREM EvaluationsWhole == ASSUME Started PROVE Ev!Spec => []Ev!RunsAreWhole
<1>1. EvInv => Ev!RunsAreWhole
  BY WholeEarned
<1>2. QED
  BY <1>1, EvaluationInductive, PTL

\* Beside the checks every step of an evaluation is one of Evaluate, and the checks leave
\* it alone.
LEMMA EvaluatesOnly == MCNext => [Ev!Next]_Ev!vars
<1> SUFFICES ASSUME MCNext PROVE [Ev!Next]_Ev!vars
  OBVIOUS
<1>1. CASE Checks
  <2>1. UNCHANGED evaluateVars
    BY <1>1 DEF Checks
  <2>2. QED
    BY <2>1 DEF evaluateVars, Ev!vars, Ev!output
<1>2. CASE ~Checks
  <2>1. CASE Ev!Touch
    BY <2>1 DEF Ev!Next
  <2>2. CASE ~Ev!Touch
    <3>1. PICK d \in Drivers :
             \/ Begins(d) \/ Ev!Kill(d) \/ Ev!Manifest(d) \/ Ev!WriteManifest(d)
             \/ Ev!MakeOutput(d) \/ Ev!Lock(d) \/ Ev!Step(d) \/ Ev!Complete(d)
             \/ Ev!Answer(d) \/ Ev!Fail(d) \/ Ev!Attempt(d) \/ Ev!Exit(d) \/ Ev!Interrupt(d)
      BY <1>2, <2>2, Zenon DEF MCNext
    <3>2. Begins(d) => Ev!Start(d)
      BY DEF Begins
    <3>3. QED
      BY <3>1, <3>2 DEF Ev!Next
  <2>3. QED
    BY <2>1, <2>2
<1>3. QED
  BY <1>1, <1>2

\* Beside the checks of a head, too, evaluations keep their answers and earn their verdicts.
THEOREM RunsWhole == MCSpec => []RunsAreWhole
<1>1. Started
  BY EvaluateAssumption DEF Started
<1>2. MCInit => EvInv
  BY <1>1, EvInit DEF MCInit
<1>3. EvInv /\ [MCNext]_<<vars, subject, evaluateVars>> => EvInv'
  <2>1. EvInv /\ [Ev!Next]_Ev!vars => EvInv'
    BY <1>1, EvStepInv
  <2>2. [MCNext]_<<vars, subject, evaluateVars>> => [Ev!Next]_Ev!vars
    BY EvaluatesOnly DEF evaluateVars, Ev!vars, Ev!output
  <2>3. QED
    BY <2>1, <2>2
<1>4. EvInv => RunsAreWhole
  BY <1>1, WholeEarned DEF RunsAreWhole
<1>5. QED
  BY <1>2, <1>3, <1>4, PTL DEF MCSpec
===============================================================================
