------------------------------ MODULE HeadChecks ------------------------------
(***************************************************************************)
(* The checks of a running head (server.py recorded_on_head and the modules*)
(* it calls): the warmup ladder with its canary, the mojibake check, the   *)
(* prefix gate, the agreement reading, and beside them ask and capacity.   *)
(* Each is a process of the head's host.  The model API is the environment:*)
(* it answers right or wrong, drafts tokens and accepts some, keeps the    *)
(* prefix of a salt, rightly or not, until it evicts it, serves clients    *)
(* that know of no lock, and may be replaced by another launch.            *)
(*                                                                         *)
(* Abstracted: an answer is what a check tells of it ("right", "broken",   *)
(* ...); a text is its number of lines, and the tokenizer a function of it.*)
(* A request sent through ask is one step (AskLpa has its three calls).    *)
(* The shares a verdict does not use (script share, agreement, drift) and  *)
(* the compiled kernels are left out.                                      *)
(***************************************************************************)
EXTENDS Integers, Sequences, SequencesExt, FiniteSetsExt

CONSTANTS
    Programs,     \* the processes that run a check
    Settings,     \* the fixed variables: profiles, plans of who runs what, ...
    Tokenizers,   \* a sequence of tokenizers: the tokens of a text, by its lines
    Layouts,      \* the groups of the KV cache, as the workers report them
    Tasks,        \* the prefix gate's tasks, each reading its own part
    Repeats,      \* the requests of a mojibake or agreement check
    Launches,     \* the launches of the head, one at a time
    MinDrafts,    \* MIN_DRAFTS
    MaxDrafted,   \* the drafts TLC counts
    SampleLines, TokensPerRecord, MinRecords

Kinds == {"warmup", "ask", "mojibake", "agreement", "prefix-gate", "capacity"}

ASSUME HeadChecksAssumption ==
    /\ Launches \in Nat \ {0} /\ MinDrafts \in Nat \ {0} /\ "none" \notin Programs
    /\ \A s \in Settings : /\ s.quality \in [1..Launches -> {"sound", "garbled", "draftless"}]
                           /\ s.kind \in [Programs -> Kinds]
    /\ SampleLines > 0 /\ TokensPerRecord > 0 /\ MinRecords > 0

VARIABLES
    profile, kind, tok,       \* fixed: the profile, each program's check, the tokenizer
    head,                     \* the launch that runs, 0 when none does
    quality, faulty,          \* of each launch: how it decodes; whether it restores wrongly
    cache,                    \* the prefix kept for each program's salt
    drafts,                   \* the drafted and accepted totals, and those missed in a row
    lock,                     \* who holds startup-request.lock, or "none"
    pc, seen, size, rows, asked, counts, result,    \* a program's own state
    facts                     \* ghost: what the API did to each program

fixed == <<profile, kind, tok, quality, faulty>>
engine == <<head, cache, drafts>>
own == <<pc, seen, size, rows, asked, counts, result>>
vars == <<fixed, engine, lock, own, facts>>

Larger(a, b) == IF a > b THEN a ELSE b
Smaller(a, b) == IF a < b THEN a ELSE b
CeilDiv(a, b) == (a + b - 1) \div b

-----------------------------------------------------------------------------
(* Sizing a text with the server's own tokenizer: one count per step.      *)

\* long_prompt, once a text of size.n lines counts c tokens.
LongNext(s, c) ==
    LET target == profile.long
        limit == profile.maxlen - profile.maxtokens
        scaled == Larger(1, (s.n * target) \div c)
    IN  IF s.at = "sample"
        THEN [at |-> "scale", tries |-> 0, n |-> Larger(1, CeilDiv(target * s.n, c))]
        ELSE IF /\ s.at = "scale" /\ s.tries < 4 /\ scaled # s.n
                /\ (IF c > target THEN c - target ELSE target - c) > target \div 50
        THEN [at |-> "scale", tries |-> s.tries + 1, n |-> scaled]
        ELSE IF c > limit /\ s.n > 1
        THEN [at |-> "shrink", tries |-> s.tries, n |-> Larger(1, (s.n * limit) \div c - 1)]
        ELSE [s EXCEPT !.at = "sized"]

\* A fault: the guess is never checked against what it counts.
FitOnce(s, c) ==
    IF s.at = "sample"
    THEN [at |-> "shrink", tries |-> 0, n |-> Larger(1, (s.n * profile.prefix) \div c)]
    ELSE [s EXCEPT !.at = IF s.n < MinRecords THEN "too_short" ELSE "sized"]

\* fit_prefix, once the longest task's prompt over size.n records counts c tokens.
FitNext(s, c) ==
    LET limit == profile.prefix
        fitted == (s.n * limit) \div c
    IN  IF s.at = "sample" THEN [at |-> "shrink", tries |-> 0, n |-> Larger(1, fitted)]
        ELSE IF c > limit /\ s.n > 1
        THEN [s EXCEPT !.n = Larger(1, Smaller(s.n - 1, fitted))]
        ELSE IF c > limit \/ s.n < MinRecords THEN [s EXCEPT !.at = "too_short"]
        ELSE [s EXCEPT !.at = "sized"]

-----------------------------------------------------------------------------
(* The verdicts.                                                           *)

Rungs == <<"text", "sampled", "tool">>
            \o (IF profile.vision THEN <<"image">> ELSE <<>>)
            \o (IF profile.long # 0 THEN <<"long">> ELSE <<>>) \o <<"canary">>

\* canary_verdict; an unread counter, a failed rung and few drafts leave it open.
Accepts(before, after) ==
    IF ~profile.mtp \/ before = <<>> \/ after = <<>> THEN "open"
    ELSE IF after[1] - before[1] < MinDrafts THEN "open"
    ELSE IF after[2] > before[2] THEN "yes" ELSE "no"
Degenerate(row, before, after) == row = "wrong" \/ Accepts(before, after) = "no"

\* warmup.run: the record's verdict.
WarmupResult(p) ==
    LET degenerate == Degenerate(Last(rows[p]), counts[p].before, counts[p].after)
    IN  [passed |-> ~degenerate /\ \A i \in DOMAIN rows[p] : rows[p][i] # "failed",
         verdict |-> IF degenerate THEN "degenerate" ELSE "open"]

\* mojibake.judge and run.
JudgeText(answer) ==
    CASE answer = "broken" -> "fail"
      [] answer \in {"failed", "short", "foreign"} -> "inconclusive"
      [] answer = "right" -> "pass"
MojibakeResult(p) ==
    LET verdicts == {JudgeText(rows[p][i]) : i \in DOMAIN rows[p]}
        verdict == IF "fail" \in verdicts THEN "fail"
                   ELSE IF verdicts = {"pass"} THEN "pass" ELSE "inconclusive"
    IN  [passed |-> verdict = "pass", verdict |-> verdict]

\* agreement.run: a text is read twice, and both readings compared.
Errors(p) == {i \in DOMAIN rows[p] : rows[p][i] # "right"}
SelfChecks(p) == {i \in DOMAIN rows[p] : i % 2 = 0 /\ {i - 1, i} \cap Errors(p) = {}}
AgreementResult(p) ==
    [passed |-> Errors(p) = {} /\ SelfChecks(p) # {}, verdict |-> "none"]

\* A fault: a warm answer that read nothing from the cache counts.
AnyAnswer(row) == FALSE
Missed(row) == row.answer # "failed" /\ ~row.hit

\* prefix_gate.judge, over the answers of the cold phase and the rows of the warm one.
Judge(cold, warm) ==
    (IF \E t \in Tasks : "failed" \in {cold[t], warm[t].answer} THEN {"request_error"} ELSE {})
    \cup (IF \E t \in Tasks : cold[t] = "wrong" THEN {"cold_incorrect"} ELSE {})
    \cup (IF \E t \in Tasks : cold[t] = "right" /\ warm[t].answer = "wrong"
          THEN {"prefix_cache_corruption"} ELSE {})
    \cup (IF \E t \in Tasks : Missed(warm[t]) THEN {"no_cache_hit"} ELSE {})

GateResult(p) ==
    LET reasons == Judge(rows[p][1], rows[p][2])
        verdict == IF "prefix_cache_corruption" \in reasons THEN "fail"
                   ELSE IF reasons # {} THEN "inconclusive" ELSE "pass"
    IN  [passed |-> verdict = "pass", verdict |-> verdict, reasons |-> reasons]

Unmodelled == -1
\* capacity: the blocks a conversation keeps, and how many of them fit.
GroupCost(group, tokens, dense) ==
    CASE group.kind = "attention" -> CeilDiv(tokens, group.block)
      [] group.kind = "mamba" /\ dense -> CeilDiv(tokens, group.block)
      [] group.kind = "tail" -> 0
      [] OTHER -> Unmodelled
Estimate(layout, tokens) ==
    LET costs == [i \in DOMAIN layout.groups |->
                    GroupCost(layout.groups[i], tokens, layout.dense)]
        blocks == SumFunction(costs)
    IN  IF \E i \in DOMAIN costs : costs[i] = Unmodelled THEN <<>>
        ELSE IF blocks = 0 THEN <<>> ELSE <<(layout.blocks - 1) \div blocks>>

-----------------------------------------------------------------------------
NoPrefix == [there |-> FALSE, bad |-> {}]
Unsent == [t \in Tasks |-> [answer |-> "unsent", hit |-> FALSE, bad |-> FALSE]]

Fresh == [size |-> [at |-> "none", tries |-> 0, n |-> 0], rows |-> <<>>,
          counts |-> [before |-> <<>>, answer |-> "none", after |-> <<>>],
          result |-> [passed |-> FALSE, verdict |-> "none"]]

Init ==
    /\ \E s \in Settings :
          /\ profile = s.profile /\ kind = s.kind /\ tok = s.tok
          /\ quality = s.quality /\ faulty = s.faulty
    /\ head = [no |-> 1, up |-> TRUE] /\ drafts = <<0, 0, 0>>
    /\ cache = [p \in Programs |-> NoPrefix]
    /\ lock = "none" /\ facts = [p \in Programs |-> {}]
    /\ pc = [p \in Programs |-> "start"] /\ seen = [p \in Programs |-> 0]
    /\ size = [p \in Programs |-> Fresh.size] /\ rows = [p \in Programs |-> Fresh.rows]
    /\ asked = [p \in Programs |-> Unsent]
    /\ counts = [p \in Programs |-> Fresh.counts]
    /\ result = [p \in Programs |-> Fresh.result]

Goto(p, l) == pc' = [pc EXCEPT ![p] = l]
Row(p, row) == rows' = [rows EXCEPT ![p] = Append(@, row)]
Note(p, what) == facts' = [facts EXCEPT ![p] = @ \cup what]
\* The lock is left, at the end or by an exception: nothing of the check is read again.
Leave(p, l) ==
    /\ Goto(p, l) /\ lock' = IF lock = p THEN "none" ELSE lock
    /\ seen' = [seen EXCEPT ![p] = 0] /\ size' = [size EXCEPT ![p] = Fresh.size]
    /\ rows' = [rows EXCEPT ![p] = <<>>] /\ asked' = [asked EXCEPT ![p] = Unsent]
    /\ counts' = [counts EXCEPT ![p] = Fresh.counts]
    /\ result' = [result EXCEPT ![p] = Fresh.result] /\ facts' = [facts EXCEPT ![p] = {}]
    /\ cache' = [cache EXCEPT ![p] = NoPrefix]
    /\ UNCHANGED <<fixed, head, drafts>>

\* What the API answers, when it does.
Answers(p, usual) == (IF head.up THEN usual ELSE {}) \cup {"failed"}

\* The guards a check makes before it reads the head.
Unfit(p) ==
    CASE kind[p] = "prefix-gate" ->
            profile.native \/ ~profile.caching \/ ~profile.details
                \/ profile.prefix + profile.maxtokens > profile.maxlen
      [] kind[p] = "agreement" -> profile.native
      [] OTHER -> FALSE

\* running_head: the recorded container of rank 0, before the lock is tried.
ReadHead(p) ==
    /\ pc[p] = "start"
    /\ IF Unfit(p) \/ ~head.up
       THEN Goto(p, "refused") /\ UNCHANGED seen
       ELSE /\ seen' = [seen EXCEPT ![p] = head.no]
            /\ Goto(p, IF kind[p] = "capacity" THEN "report" ELSE "lock")
    /\ UNCHANGED <<fixed, engine, lock, size, rows, asked, counts, result, facts>>

\* request_lock is tried once; the prefix gate starts at its first guess of a size.
TakeLock(p) ==
    /\ pc[p] = "lock"
    /\ IF lock # "none" THEN Goto(p, "refused") /\ UNCHANGED <<lock, size>>
       ELSE /\ lock' = p
            /\ Goto(p, IF kind[p] = "prefix-gate" THEN "size" ELSE "run")
            /\ size' = [size EXCEPT ![p] =
                  [at |-> "sample", tries |-> 0,
                   n |-> Larger(MinRecords, profile.prefix \div TokensPerRecord)]]
    /\ UNCHANGED <<fixed, engine, seen, rows, asked, counts, result, facts>>

\* One count of the text being sized, or an error: the long rung fails, the gate raises.
Probe(p) ==
    LET next == IF kind[p] = "warmup" THEN LongNext(size[p], Tokenizers[tok][size[p].n])
                ELSE FitNext(size[p], Tokenizers[tok][size[p].n])
    IN  /\ pc[p] = "size"
        /\ \/ /\ head.up /\ next.at # "too_short"
              /\ size' = [size EXCEPT ![p] = next]
              /\ Goto(p, IF next.at # "sized" THEN "size"
                         ELSE IF kind[p] = "warmup" THEN "run" ELSE "ask")
              /\ UNCHANGED <<rows, facts>>
           \/ /\ kind[p] = "warmup" /\ Row(p, "failed") /\ Note(p, {"failed"})
              /\ Goto(p, "run") /\ UNCHANGED size
        /\ UNCHANGED <<fixed, engine, lock, seen, asked, counts, result>>
ProbeFails(p) == pc[p] = "size" /\ kind[p] # "warmup" /\ Leave(p, "done")

-----------------------------------------------------------------------------
(* The warmup ladder.                                                      *)

Rung(p) == IF kind[p] = "warmup" /\ Len(rows[p]) < Len(Rungs) THEN Rungs[Len(rows[p]) + 1]
           ELSE "none"

\* The long rung is built first; a length that cannot fit fails it.
SizeLong(p) ==
    /\ pc[p] = "run" /\ Rung(p) = "long" /\ size[p].at # "sized"
    /\ IF profile.long > profile.maxlen - profile.maxtokens
       THEN Row(p, "failed") /\ Note(p, {"failed"}) /\ UNCHANGED <<pc, size>>
       ELSE /\ size' = [size EXCEPT ![p] = [at |-> "sample", tries |-> 0, n |-> SampleLines]]
            /\ Goto(p, "size") /\ UNCHANGED <<rows, facts>>
    /\ UNCHANGED <<fixed, engine, lock, seen, asked, counts, result>>

\* Every rung is recorded, none ends the ladder.
AskRung(p) ==
    /\ pc[p] = "run" /\ Rung(p) \notin {"none", "canary"}
    /\ Rung(p) = "long" => size[p].at = "sized"
    /\ \E answer \in Answers(p, {"right"}) :
          Row(p, answer) /\ Note(p, {answer} \ {"right"})
    /\ UNCHANGED <<fixed, engine, lock, pc, seen, size, asked, counts, result>>

\* read_counters, around the canary: unreadable metrics are no counters.
ReadCounts(p) ==
    LET read == {<<>>} \cup (IF head.up THEN {<<drafts[1], drafts[2]>>} ELSE {})
    IN  /\ \/ /\ pc[p] = "run" /\ Rung(p) = "canary" /\ Goto(p, "canary")
              /\ \E c \in read : counts' = [counts EXCEPT ![p].before = c]
              /\ UNCHANGED rows
           \/ /\ pc[p] = "after" /\ Goto(p, "judge")
              /\ \E c \in read : counts' = [counts EXCEPT ![p].after = c]
              /\ Row(p, counts[p].answer)
        /\ UNCHANGED <<fixed, engine, lock, seen, size, asked, result, facts>>

\* A request drafts n tokens; a sound launch does not miss MinDrafts of them in a row.
Draft(n) ==
    IF ~profile.mtp THEN n = 0 /\ UNCHANGED drafts
    ELSE \E accepted \in 0..n : \E missed \in 0..(n - accepted) :
        /\ drafts[1] + n <= MaxDrafted
        /\ drafts' = <<drafts[1] + n, drafts[2] + accepted,
                       IF accepted = 0 THEN drafts[3] + n ELSE missed>>
        /\ quality[head.no] = "draftless" => accepted = 0
        /\ quality[head.no] = "sound" => drafts'[3] < MinDrafts

\* The canary: counting, at temperature 0.  An answer without a usage or a choice fails
\* its row, but only once the counters have been read again.
AskCanary(p) ==
    /\ pc[p] = "canary"
    /\ \/ /\ Row(p, "failed") /\ Note(p, {"failed"}) /\ Goto(p, "judge")
          /\ UNCHANGED <<drafts, counts>>
       \/ /\ head.up /\ Goto(p, "after") /\ \E n \in {0, 1, MinDrafts} : Draft(n)
          /\ \E answer \in {"right", "wrong", "failed"} :
                /\ quality[head.no] = "garbled" => answer # "right"
                /\ counts' = [counts EXCEPT ![p].answer = answer]
                /\ Note(p, {answer} \ {"right"})
          /\ UNCHANGED rows
    /\ UNCHANGED <<fixed, head, cache, lock, seen, size, asked, result>>

-----------------------------------------------------------------------------
(* The other checks.                                                       *)

\* mojibake and agreement, one request after another; ask, its only one.
AskNext(p) ==
    /\ pc[p] = "run" /\ kind[p] \in {"mojibake", "agreement", "ask"}
    /\ Len(rows[p]) < IF kind[p] = "ask" THEN 1 ELSE Repeats
    /\ \E answer \in Answers(p, IF kind[p] = "mojibake"
                                THEN {"right", "broken", "short", "foreign"} ELSE {"right"}) :
          Row(p, answer) /\ Note(p, {answer} \ {"right"})
    /\ UNCHANGED <<fixed, engine, lock, pc, seen, size, asked, counts, result>>

\* The prefix gate sends the requests of a phase at once; each reads what the cache holds.
Send(p, t) ==
    /\ pc[p] = "ask" /\ asked[p][t].answer = "unsent"
    /\ asked' = [asked EXCEPT ![p][t] =
          [answer |-> "sent", hit |-> cache[p].there, bad |-> t \in cache[p].bad]]
    /\ UNCHANGED <<fixed, engine, lock, pc, seen, size, rows, counts, result, facts>>

\* A request that computed the prefix leaves it to the others, even if its answer is lost.
Keep(p, t) ==
    IF asked[p][t].hit \/ cache[p].there THEN UNCHANGED cache
    ELSE \E bad \in IF faulty THEN SUBSET Tasks ELSE {{}} :
            cache' = [cache EXCEPT ![p] = [there |-> TRUE, bad |-> bad]]

\* What was kept wrong is read wrong (the codes are random); the model may slip by itself.
Reply(p, t) ==
    LET r == asked[p][t] IN
    /\ pc[p] = "ask" /\ r.answer = "sent"
    /\ \E answer \in Answers(p, IF r.bad THEN {"wrong"} ELSE {"right", "wrong"}) :
          /\ asked' = [asked EXCEPT ![p][t] =
                [answer |-> answer, hit |-> r.hit /\ answer # "failed", bad |-> FALSE]]
          /\ Note(p, (IF r.bad THEN {"misread"} ELSE IF answer = "wrong" THEN {"slip"} ELSE {})
                       \cup ({answer} \cap {"failed"})
                       \cup (IF rows[p] # <<>> /\ ~r.hit THEN {"miss"} ELSE {}))
          /\ IF answer = "failed" THEN UNCHANGED cache ELSE Keep(p, t)
    /\ UNCHANGED <<fixed, head, drafts, lock, pc, seen, size, rows, counts, result>>

\* The pool is joined: cold, then warm.
EndPhase(p) ==
    /\ pc[p] = "ask" /\ \A t \in Tasks : asked[p][t].answer \notin {"unsent", "sent"}
    /\ Row(p, IF rows[p] = <<>> THEN [t \in Tasks |-> asked[p][t].answer] ELSE asked[p])
    /\ asked' = [asked EXCEPT ![p] = Unsent]
    /\ IF rows[p] = <<>> THEN UNCHANGED pc ELSE Goto(p, "judge")
    /\ UNCHANGED <<fixed, engine, lock, seen, size, counts, result, facts>>

\* capacity takes no lock: the log, the metrics and, with LPA, the workers' layout.
Report(p) ==
    /\ pc[p] = "report"
    /\ \/ /\ head.up /\ Goto(p, "unlock")
          /\ \E layout \in IF profile.lpa /\ profile.dev THEN Layouts ELSE {<<>>} :
                result' = [result EXCEPT ![p] =
                    IF layout = <<>> THEN [passed |-> TRUE, verdict |-> "withheld"]
                    ELSE [passed |-> TRUE, verdict |-> "layout", layout |-> layout,
                          fits |-> Estimate(layout, profile.maxlen)]]
       \/ Goto(p, "done") /\ UNCHANGED result
    /\ UNCHANGED <<fixed, engine, lock, seen, size, rows, asked, counts, facts>>

-----------------------------------------------------------------------------
(* The end of a check.                                                     *)

\* The verdict; the warmup's prefixes are dropped where the API lets it.
Decide(p) ==
    /\ \/ pc[p] = "judge"
       \/ /\ pc[p] = "run" /\ kind[p] \notin {"warmup", "ask"} /\ Len(rows[p]) = Repeats
    /\ result' = [result EXCEPT ![p] =
          CASE kind[p] = "warmup" -> WarmupResult(p)
            [] kind[p] = "prefix-gate" -> GateResult(p)
            [] kind[p] = "mojibake" -> MojibakeResult(p)
            [] kind[p] = "agreement" -> AgreementResult(p)]
    /\ Goto(p, IF kind[p] = "warmup" /\ profile.dev THEN "reset" ELSE "unlock")
    /\ UNCHANGED <<fixed, engine, lock, seen, size, rows, asked, counts, facts>>

\* reset_prefix_cache empties the cache of every client; an error is recorded.
ResetCache(p) ==
    /\ pc[p] = "reset" /\ Goto(p, "unlock")
    /\ cache' \in {cache} \cup (IF head.up THEN {[q \in Programs |-> NoPrefix]} ELSE {})
    /\ UNCHANGED <<fixed, head, drafts, lock, seen, size, rows, asked, counts, result, facts>>

\* The lock is left before the record is written; ask prints its answer, or raises.
\* A reference the agreement cannot read or compare raises after the reading.
Unlock(p) ==
    /\ pc[p] = "unlock" \/ (pc[p] = "run" /\ kind[p] = "ask" /\ rows[p] # <<>>)
    /\ \/ kind[p] \in {"ask", "agreement"} /\ Leave(p, "done")
       \/ kind[p] # "ask" /\ Leave(p, "write")

\* The record is written.
Write(p) ==
    /\ pc[p] = "write" /\ Goto(p, "done")
    /\ UNCHANGED <<fixed, engine, lock, seen, size, rows, asked, counts, result, facts>>

\* SIGKILL: the system drops the lock, and there is no record.
Kill(p) == lock = p /\ Leave(p, "done")

-----------------------------------------------------------------------------
(* The head and its other clients.                                         *)

Busy == {p \in Programs : pc[p] \notin {"start", "refused", "write", "done"}}

\* The head stops, and another launch of the profile takes its place.
Replace ==
    /\ Busy # {}
    /\ head' = IF head.up THEN [head EXCEPT !.up = FALSE]
               ELSE [no |-> head.no + 1, up |-> TRUE]
    /\ head'.no <= Launches
    /\ cache' = [p \in Programs |-> NoPrefix] /\ drafts' = <<0, 0, 0>>
    /\ facts' = [p \in Programs |-> facts[p] \cup IF p \in Busy THEN {"moved"} ELSE {}]
    /\ UNCHANGED <<fixed, lock, own>>

Evict(p) ==
    /\ cache[p].there /\ pc[p] = "ask" /\ cache' = [cache EXCEPT ![p] = NoPrefix]
    /\ Note(p, {"evicted"})
    /\ UNCHANGED <<fixed, head, drafts, lock, own>>

\* A client that knows nothing of the lock: what it drafts shows while a canary is counted.
OtherClient ==
    /\ head.up /\ profile.mtp
    /\ \E p \in Programs : pc[p] \in {"canary", "after"} \/ Rung(p) = "canary"
    /\ \E n \in {1, MinDrafts} : Draft(n)
    /\ UNCHANGED <<fixed, head, cache, lock, own, facts>>

Next ==
    \/ \E p \in Programs :
          \/ ReadHead(p) \/ TakeLock(p) \/ Probe(p) \/ ProbeFails(p) \/ SizeLong(p)
          \/ AskRung(p) \/ ReadCounts(p) \/ AskCanary(p) \/ AskNext(p) \/ EndPhase(p) \/ Report(p)
          \/ Decide(p) \/ ResetCache(p) \/ Unlock(p) \/ Write(p) \/ Kill(p) \/ Evict(p)
          \/ \E t \in Tasks : Send(p, t) \/ Reply(p, t)
    \/ Replace \/ OtherClient

Spec == Init /\ [][Next]_vars

-----------------------------------------------------------------------------
Decided(p) == result[p].verdict # "none" \/ result[p].passed

\* The canary never condemns a launch that decodes soundly, whatever its own and the
\* other clients' requests drafted, unless the model miscounted; a launch that garbles
\* never passes, nor does one that accepts no draft once enough were counted.
CanaryIsTrue ==
    \A p \in Programs :
        kind[p] = "warmup" /\ Decided(p) /\ "moved" \notin facts[p] =>
            /\ quality[seen[p]] = "sound" /\ result[p].verdict = "degenerate" =>
                  "wrong" \in facts[p]
            /\ quality[seen[p]] = "garbled" => ~result[p].passed
            /\ /\ quality[seen[p]] = "draftless" /\ result[p].passed
               /\ counts[p].before # <<>> /\ counts[p].after # <<>>
               => counts[p].after[1] - counts[p].before[1] < MinDrafts

\* A check passes only if each of its requests was answered, and answered well: no broken
\* text, no warm answer that missed the cache or was read from what it kept wrong.  It
\* fails only on evidence: a broken text, or a wrong warm answer; and a gate that says
\* nothing was restored blames an eviction, a lost request or another launch, never
\* another check of this host.  Its canary is true.
VerdictIsEarned ==
    /\ CanaryIsTrue
    /\ \A p \in Programs : Decided(p) /\ kind[p] # "capacity" =>
           /\ result[p].passed =>
                 facts[p] \cap {"failed", "wrong", "broken", "short", "foreign", "misread",
                                "slip", "miss"} = {}
           /\ result[p].verdict = "fail" =>
                 facts[p] \cap {"broken", "misread", "slip"} # {}
           /\ kind[p] = "prefix-gate" /\ "no_cache_hit" \in result[p].reasons =>
                 facts[p] \cap {"evicted", "failed", "moved"} # {}

\* A prompt that was sized fits its limit, unless it is a single line of the warmup, and
\* the gate's log is long enough for its tasks.
PromptFits(p) ==
    size[p].at = "sized" =>
        IF kind[p] = "warmup"
        THEN \/ size[p].n = 1
             \/ Tokenizers[tok][size[p].n] <= profile.maxlen - profile.maxtokens
        ELSE size[p].n >= MinRecords /\ Tokenizers[tok][size[p].n] <= profile.prefix

\* The conversations capacity promises all have the blocks they keep, and none are
\* promised for a group it does not model.
PromiseIsKept(p) ==
    kind[p] = "capacity" /\ result[p].verdict = "layout" /\ result[p].fits # <<>> =>
        LET groups == result[p].layout.groups
            share(i) == CASE groups[i].kind = "tail" -> 0
                          [] groups[i].kind = "attention" -> groups[i].block
                          [] groups[i].kind = "mamba" /\ result[p].layout.dense ->
                                groups[i].block
            kept == {x \in (1..result[p].fits[1]) \X (DOMAIN groups)
                           \X (0..(profile.maxlen - 1)) :
                        share(x[2]) # 0 /\ x[3] % share(x[2]) = 0}
        IN  Cardinality(kept) < result[p].layout.blocks

\* What is sized for a request, and what is promised of the cache, fits.
SizedToFit == \A p \in Programs : PromptFits(p) /\ PromiseIsKept(p)
=============================================================================
