---------------------------- MODULE MCHeadChecks ----------------------------
(***************************************************************************)
(* What is asked of a running head and what is measured on it, for TLC.  A *)
(* behaviour has one subject: the checks of a head (HeadChecks), or the hle*)
(* or the freedombench evaluation (Evaluate).  They share no state here,   *)
(* each has the request lock to itself.                                    *)
(***************************************************************************)
EXTENDS HeadChecks

CONSTANTS Drivers, Arguments, Questions, MaxAttempts

VARIABLES subject,
          holder, at, manifest, answers, stopFile, state, report, raced, resent

(* The settings of a head's launch, its tokenizers and its cache layouts.  A   *)
(* tokenizer is the tokens each length of a text comes to.                     *)
\* A launch whose profile lets every check run.
Plain == [native |-> FALSE, lpa |-> TRUE, dev |-> TRUE, caching |-> TRUE, details |-> TRUE,
          mtp |-> TRUE, vision |-> FALSE, long |-> 0, prefix |-> 12,
          maxlen |-> 14, maxtokens |-> 2]

\* A token a line, a template's share first, two tokens a line, half a token.
SomeTokenizers == <<[n \in 1..60 |-> n], [n \in 1..60 |-> n + 6],
                    [n \in 1..60 |-> IF n < 5 THEN n ELSE 2 * n - 4],
                    [n \in 1..60 |-> IF n < 3 THEN 2 ELSE n \div 2 + 1]>>

Both(x, y) == [p \in {"a", "b"} |-> IF p = "a" THEN x ELSE y]
Setting(p, plan, t, first, wrong) ==
    [profile |-> p, kind |-> plan, tok |-> t, faulty |-> wrong, quality |-> <<first, "sound">>]

\* Sizing with every tokenizer, the canary of every kind of launch, the warmup
\* beside the gate, a cache that restores wrongly, and the checks that only ask.
SomeSettings ==
    {Setting([Plain EXCEPT !.mtp = FALSE, !.long = 9], Both("warmup", "ask"), t, "sound", FALSE) :
        t \in 2..4}
    \cup {Setting(Plain, Both("ask", "prefix-gate"), t, "sound", FALSE) : t \in {2, 4}}
    \cup {Setting(Plain, Both("warmup", "ask"), 1, q, FALSE) :
            q \in {"sound", "garbled", "draftless"}}
    \cup {Setting([Plain EXCEPT !.mtp = FALSE, !.dev = d],
                  Both("warmup", "prefix-gate"), 1, "sound", ~d) : d \in BOOLEAN}
    \cup {Setting([Plain EXCEPT !.mtp = FALSE, !.long = 13, !.vision = TRUE],
                  Both("warmup", "capacity"), 1, "sound", FALSE)}
    \cup {Setting([Plain EXCEPT !.native = n, !.lpa = ~n], plan, 1, "sound", FALSE) :
            n \in BOOLEAN, plan \in {Both("mojibake", "agreement"), Both("ask", "capacity")}}

Group(k, b) == [kind |-> k, block |-> b]
SomeLayouts == [groups : {<<Group("attention", 4), Group("mamba", 3), Group("tail", 2)>>,
                          <<Group("attention", 4), Group("other", 3)>>, <<Group("tail", 2)>>},
                dense : BOOLEAN, blocks : {1, 29}]

------------------------------------------------------------------------------
(* Two drivers of a file of two questions: a whole run that may pause after an *)
(* answer, a pilot of one question under another manifest; and freedombench on *)
(* the whole suite, on one question, and on cases with and without a key.      *)
Run(program, run, limit, maxNew, cases) ==
    [program |-> program, run |-> run, limit |-> limit, maxNew |-> maxNew, kind |-> cases]
SomeArguments ==
    {Run("hle", 1, 0, -1, "suite"), Run("hle", 1, 0, 1, "suite"), Run("hle", 2, 1, -1, "suite")}
    \cup {Run("freedombench", 1, limit, -1, "suite") : limit \in {0, 1}}
    \cup {Run("freedombench", 1, 0, -1, cases) : cases \in {"cases", "open"}}
Ev == INSTANCE Evaluate

\* What argparse and the file of questions leave: a run has a number, the lock's
\* holder is no driver's name.
ASSUME EvaluateAssumption ==
    /\ \A a \in Arguments : a.run # 0 /\ a.limit \in Nat
    /\ Ev!None \notin Drivers /\ Questions \in Nat /\ MaxAttempts \in Nat

\* Only hle is left to the drivers of an hle behaviour.
Begins(d) == Ev!Start(d) /\ (at'[d].args.program = "hle" <=> subject = "hle")

------------------------------------------------------------------------------
evaluateVars == <<holder, at, manifest, answers, stopFile, state, report, raced, resent>>

MCInit ==
    /\ subject \in {"checks", "hle", "quiz"}
    /\ Init /\ Ev!Init
    /\ subject # "checks" =>
         [profile |-> profile, kind |-> kind, tok |-> tok, faulty |-> faulty, quality |-> quality]
            = CHOOSE s \in Settings : TRUE

Checks == subject = "checks" /\ UNCHANGED <<subject, evaluateVars>>
Evaluation == subject \in {"hle", "quiz"} /\ UNCHANGED subject /\ UNCHANGED vars
MCNext ==
    \/ \E p \in Programs :
          \/ Checks /\ ReadHead(p)
          \/ Checks /\ TakeLock(p)
          \/ Checks /\ Probe(p)
          \/ Checks /\ ProbeFails(p)
          \/ Checks /\ SizeLong(p)
          \/ Checks /\ AskRung(p)
          \/ Checks /\ ReadCounts(p)
          \/ Checks /\ AskCanary(p)
          \/ Checks /\ AskNext(p)
          \/ Checks /\ EndPhase(p)
          \/ Checks /\ Report(p)
          \/ Checks /\ Decide(p)
          \/ Checks /\ ResetCache(p)
          \/ Checks /\ Unlock(p)
          \/ Checks /\ Write(p)
          \/ Checks /\ Kill(p)
          \/ Checks /\ Evict(p)
          \/ \E t \in Tasks :
               \/ Checks /\ Send(p, t)
               \/ Checks /\ Reply(p, t)
    \/ Checks /\ Replace
    \/ Checks /\ OtherClient
    \/ \E d \in Drivers :
          \/ Evaluation /\ Begins(d)
          \/ Evaluation /\ Ev!Kill(d)
          \/ Evaluation /\ Ev!Manifest(d)
          \/ Evaluation /\ Ev!WriteManifest(d)
          \/ Evaluation /\ Ev!MakeOutput(d)
          \/ Evaluation /\ Ev!Lock(d)
          \/ Evaluation /\ Ev!Step(d)
          \/ Evaluation /\ Ev!Complete(d)
          \/ Evaluation /\ Ev!Answer(d)
          \/ Evaluation /\ Ev!Fail(d)
          \/ Evaluation /\ Ev!Attempt(d)
          \/ Evaluation /\ Ev!Exit(d)
          \/ Evaluation /\ Ev!Interrupt(d)
    \/ subject = "hle" /\ Evaluation /\ Ev!Touch

MCSpec == MCInit /\ [][MCNext]_<<vars, subject, evaluateVars>>

(* Evaluations keep each answer of the run they belong to, and call complete   *)
(* only what was asked and answered to the end (Evaluate).                     *)
RunsAreWhole == subject \in {"hle", "quiz"} => Ev!RunsAreWhole
=============================================================================
