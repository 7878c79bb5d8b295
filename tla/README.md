# Verification of the GLM-5.3 launcher

TLA+ models, TLC runs and TLAPS proofs for the Python package under `src/glm53_setup` and the
overlays under `src/overlays`: the program that launches one vLLM server over two or more DGX
Spark hosts, switches it to another profile over SSH, supervises every rank, checks what runs, and
patches the pinned vLLM where the launcher needs it to behave differently.

## 1. Inventory

### The parts and how they interact

```
 operator -- cluster switch / resume --> coordinator (switch.py) --> SSHBackend (cluster.py)
                                             | result.json               | ssh, 3 attempts
                                             v                           v
                                        journal on disk        per rank: cluster rpc (one process a call)
                                                                   | reserve start stop poll install warmup
   profile text, fabric, checkpoint, source lock                   v
      (server_config, fabric, download,  -------->  supervisor: cluster job -> server start -> docker run
       launch_assets: what is launched)                            | -> supervise     startup-rank<N>.json
                                                                   v
             vLLM engine (external) in an image of pinned patches (runtime/) and overlays/
                        ^                     ^                           ^
   request lock, HTTP   |      collective_rpc |                           | HTTP, no lock
   server ask / warmup / mojibake /     probe, traces, digests    tool-gate proxy (clients' requests)
   prefix-gate / agreement / hle / freedombench
```

| Part | State it keeps | Operations | What is hard about it |
| --- | --- | --- | --- |
| Coordinator, `switch.py` | `report` in memory, `result.json` on disk | `switch`, `resume`, `gate`, `finish`, `stop_owned` | any step may fail or be interrupted; the saved journal is behind the report; a lost observation is not a failure |
| Transport, `cluster.SSHBackend` | none | `call` with up to three attempts, `ready` with a deadline | an answer lost is not a request lost: a request given up on may still be served |
| Rank requests, `cluster.rpc` | `identity.json`, `launch.json`, `cancel.json`, `supervisor.log` in the attempt's record | `current`, `prepare`, `reserve`, `start`, `stop`, `poll`, `install`, `warmup` | delivered late, twice or concurrently; the process serving one may die anywhere |
| Supervisor, `cluster.act_job`, `server.act_launch`, `server.start_rank` | `job.json`, `finished.json`, `startup-rank<N>.json` | announce, look for a cancel, preflight, `docker run`, verify, record, supervise | SIGTERM in every phase; the container outlives a killed supervisor |
| Supervision, `server.supervise` | last progress sample, time it moved, deadline | sample, stop on memory reserve, run deadline or engine stall | a wedged engine answers `/health`; an unreadable `/metrics` is not a stall |
| Direct requests, `server.ask`, `request_lock`, `recorded_on_head` | host lock, the worker's LPA mode | configure, generate, reset | the reset must happen after a failed generation; serial only by the lock |
| Checks of a head, `warmup.py`, `prefix_gate.py`, `mojibake.py`, `agreement.py`, `capacity.py` | one record each | ladder, sized prompts, canary, warm and cold tasks, verdict, reset | a verdict must rest on what this launch answered, while others ask the same head and it is replaced |
| Evaluations, `validation/hle.py`, `freedombench.py` | manifest, answers, `status.json`, `result.json`, `STOP` | start, resume, ask, retry, stop | stopped, killed and resumed for days; two drivers on one directory |
| Launch assets, `launch_assets.py`, `cluster.prepare/install` | the frozen manifest, the recorded profile file and its backups | freeze, thaw, inspect twice, preflight, install | each rank starts from its own disk minutes after it was looked at |
| Profile, `server_config.py`, `tp_padding.py` | none | validate, arguments, padded shapes | many independent rules that must together exclude every launch that would fail |
| Fabric, `fabric.py`, `host.py` | the node list; the hosts' interfaces | validate, address, plan, probe | what each rank makes of the list must fit what the others make of it |
| Download, `download.py`, `verify_download.py` | `download-status.json`, `download.lock`, `checksum-status.json` | download, verify `--wait` | two processes and a status file left by an earlier run |
| Image, `runtime/pinned_patch.py`, `runtime/patch_*.py`, `docker/Dockerfile.reference` | the package's files, a record per patch | check every hash, write, record | patches that build on each other; a run killed between two writes |
| APC-first LPA, `runtime/apc_policy.py`, `apc_runtime.py`, `apc_worker.py`, `lpa.py` | the request's policy, the shared prefix cache, the worker's experiment | admission, publication, resume after preemption, configure | approximate state must never be shared; a preempted request resumes with another cached prefix |
| kpool tail ring, `runtime/patch_kpool_ring.py`, `patch_kpool_seed.py` | the ring of raw keys per request | stash drafts, compress a full pool, redo a rejected draft | a rejected draft's successors overwrite keys its redo reads |
| MLA overlay, `overlays/mla-quant-split.py`, `runtime/pipeline_state.py` | parameters while loading; the mHC state between stages | load in any order, run a stage, hand on | halves that wait for each other; a post that is deferred across a stage boundary |
| KDA overlay, `overlays/kda-quant-split.py` | convolution and recurrent state per request | mixed prompt, decode and draft rows in one step | a rejected draft's state, columns that change owner |
| Choices among equals, `runtime/stable_topk.py`, `candidate_order.py`, `moe_token_order.py`, `reference_attention.py` | none | repair ties, order, compact | one input must give one result whatever the kernel chose |
| Traces, `runtime/memory_probe.py`, `validation/run_repeat_trace.py` | hooks, wrappers, the reference trace | begin, end, forget, compare, digest | the first difference named must be the cause, and nothing may stay attached |
| Prefix page de-duplication, `runtime/prefix_dedup.py` | hash to cached block | skip a duplicate registration | which copy a lookup and an eviction meet |
| Tool gate, `tool_gate/` | none across requests | check, ask once more, relay a stream | content already relayed when the calls are judged |
| Observers, benchmarks, tools, examples | files | reports | numeric or textual, see section 7 |

### What makes each part correct

* Coordinator: two launches of one rank never compete for its GPU; the ranks of a launch are
  never mixed with those of another; whenever the process is lost, `result.json` names
  everything that runs or may run; a verdict once saved holds; an outage is explained.
* Rank: a confirmed stop is final whatever is still in flight; an attempt has one supervisor;
  `startup-rank<N>.json` names what is supervised; a stop answers; stopped supervisors drain.
* Supervision: a launch past a limit is stopped, and only then; a container is not left running
  behind a supervisor that ended.
* Direct requests: after any outcome the worker is in its native mode, or the failure is reported.
* Checks: a check passes only on answers that were good, and fails only on evidence; a prompt
  sized for a limit fits it; a canary condemns no launch that decodes well.
* Evaluations: no answer is lost, replaced, or counted under another run's manifest; a suite is
  complete only when every question was settled.
* Launch: all ranks start one profile from one source, what was inspected; an outage is not begun
  for an old launch that could not be brought back; the profile file becomes what runs.
* Profile and fabric: what is accepted starts on every rank; every rank's view of the fabric
  agrees with the others'.
* Download: what is verified is a complete download of the pinned revision.
* Image: a file is patched once, in order, from the pinned text; a record is true.
* APC-first LPA: no state computed after the first approximation reaches the shared cache, before
  or after preemption; the worker approximates what the scheduler decided.
* Image arithmetic: a pool's entry is of committed keys; two stages compute what one does; a
  token's state is of its own text; one input gives one selection.
* Traces: the place named first is where the computation parted; a trace leaves nothing behind.
* Tool gate: a violating turn reaches the client only as a second answer.

The hazards behind these, each at its line, are listed in `PROJECT.json`.

## 2. The modules

| Module | Models | From |
| --- | --- | --- |
| `Lifecycle` | what a rank promises of one launch attempt (abstract) | stated from `cluster.rpc` |
| `RankHost` | one rank: requests, supervisors, files, container | `cluster.py`, `server.py` |
| `Handover` | what a switch promises its operator (abstract) | stated from `switch.py` |
| `Switch` | the coordinator, its journal, and N ranks reduced to `Lifecycle` | `switch.py`, `cluster.py` |
| `Supervise` | the supervision loop of one launch against an engine and a clock | `server.supervise` |
| `Launch` | what a switch launches, from disks that change under it | `launch_assets.py`, `cluster.py`, `switch.py` |
| `Profile` | the rules of a profile, and what a rank's server makes of an accepted one | `server_config.py`, `runtime/tp_padding.py` and what else reads it |
| `Fabric` | the node list, what each rank takes of it, what the probes see | `fabric.py` |
| `Download` | downloaders, the verifier, and the files they share | `download.py`, `verify_download.py` |
| `Patches` | the patches of the image, in a build or by hand | `runtime/pinned_patch.py`, `patch_*.py`, the Dockerfile |
| `AskLpa` | direct requests with native LPA under the host's request lock | `server.ask`, `server_config.py`, `runtime/lpa.py` |
| `ToolGate` | one request through the tool gate | `tool_gate/` |
| `Probe` | traces of a worker, and digests of a launch | `runtime/memory_probe.py`, `validation/run_repeat_trace.py` |
| `HeadChecks` | the checks of a head | `warmup.py`, `prefix_gate.py`, `mojibake.py`, `agreement.py`, `capacity.py` |
| `Evaluate` | the two resumable evaluations | `validation/hle.py`, `freedombench.py` |
| `ApcLpa` | the prefix cache and the approximation window of APC-first LPA | `runtime/apc_*.py`, `runtime/lpa.py` |
| `KpoolRing` | the raw-tail ring of one request | `runtime/patch_kpool_ring.py`, `patch_kpool_seed.py` |
| `Pipeline` | the MLA model's load, and its layers over two stages | `overlays/mla-quant-split.py`, `runtime/pipeline_state.py` |
| `Kda` | one linear-attention layer's load and states | `overlays/kda-quant-split.py` |
| `Selection` | top-k, its repair and order, compaction, the order of an expert's tokens | `runtime/stable_topk.py`, `candidate_order.py`, `reference_attention.py`, `moe_token_order.py` |
| `MCRankHost`, `MCApcLpa` | instances for TLC | |
| `MCClients` (`AskLpa`, `ToolGate`, `Probe`), `MCHeadChecks` (`HeadChecks`, `Evaluate`), `MCLaunch` (`Launch`, `Profile`, `Fabric`, `Download`, `Patches`), `MCImage` (`KpoolRing`, `Pipeline`, `Kda`, `Selection`) | instances of modules that share no state: a behaviour has one subject, and leaves the other modules' variables alone | |
| `SwitchProofs`, `RankHostProofs`, `SuperviseProofs`, `LaunchProofs`, `ClientsProofs`, `ApcLpaProofs`, `ImageProofs`, `HeadChecksProofs` (with `Evaluate`; `LaunchProofs` with `Download`, `Profile`, `Fabric` and `Patches`; `ImageProofs` of `KpoolRing`, `Pipeline` and `Kda`) | theorems | |

The modules meet where the code's parts do. `RankHost` shows that a rank keeps `Lifecycle`;
`Switch` assumes it: its ranks move by `Lifecycle`'s own tables, so nothing is claimed of them there,
and what it shows is that the coordinator over them implements `Handover`. `RankHost` has one action for the end of the supervision loop (a limit tripped, the
container gone, an interrupt); `Supervise` has the loop itself and shows, against
`RankHost!Next`, that it is such a supervisor. `Launch` is the other half of a switch: its
coordinator has the same stages with every answer arriving, and its state is what `Switch` leaves
out, the text, the assets and the disks. It takes a text as accepted (`Profile`, `Fabric`), a
download as whole or not (`Download`), and an image as one that has its markers (`Patches`).
`HeadChecks` and `Evaluate` take a request sent through `ask` as one step; `AskLpa` has its three
calls. So no detailed module carries another's state, and each is checked with all of its own
interleavings. The two LPA modules exclude each other in a profile (`lpa_configure` refuses prefix
caching), as the launch checks do.

Definitions marked as a fault or a mutant are no part of a specification. Each is what a plausible
mistake would have made of the definition below it; `PROJECT.json` pairs each with the property
that finds it.

### RankHost and the code

Every read and write another process can observe is an action. A delivered request is a process
of its own (`StartCalls`, `StopCalls`), because `cluster rpc` runs one process per call; replays
are further deliveries with the same `Target`.

* `rpc("start")` is `StartCheck` (finished or cancelled), `StartReplay` (`supervisor.log` exists),
  `StartOpen` (`open("x")`), `StartSpawn` (`Popen`). Between any two, anything may happen, and
  `StartDie` loses the process.
* `act_job` and `start_rank` are the `Job...` actions, in the code's order: write `job.json`,
  look for `cancel.json`, install the signal handlers, preflight, refuse while the recorded
  launch runs, `docker run` (create, start, return), verify and record, supervise, clean up,
  write `finished.json`.
* SIGTERM is `JobInterrupt`. Where it leads depends on the phase (`Interrupted`): before the
  handlers it kills, in `docker run` it kills the client while the daemon may still carry out
  what it was asked, in `start_rank`'s `try` it stops the container, in the supervision loop it
  runs `finally`.
* `rpc("stop")` is `StopCancel`, `StopFindJob`, `StopSignal`, `StopJobGone` or `StopTimeout`,
  `StopInspect`, `StopHalt`. The old launch is known to a switch only through `current`, whose
  answer has no record: its stop goes straight to Docker.
* `Disciplined` says whether starts are sent only as a switch sends them (every other launch of
  the rank never started, confirmed stopped, or found not running). Without it any request may
  be delivered at any time.

### Switch and the code

`pc` and `k` are the coordinator's position in `switch` or `resume` and the rank it is at;
`report` is its report, `journal` the report as last saved. A save that fails is a branch of
every action that saves; an answer that is lost, or that never comes, is the failing branch of
every `...Answer` action, while the request stays in `calls` and may be served at any later time.
`Fail` enters the `except` clause, whose cleanup and recovery are `Clean` ... `Close`.
`Interrupt` is Ctrl+C or a lost coordinator anywhere, after which only `resume` may follow.

### Supervise and the code

One pass of the loop is `Look` (`inspect_owned`), `Judge` (memory, deadline), `Snapshot` and
`Compare` or `Unreadable` (`progress_sample` and the stall rule), `Tick`s of the pause, `Wake`.
`Raise` is any error or signal inside the `try`; `Finally`, `Halt` and `Abandon` are its
`finally`. Time passes in ticks, only while the loop sleeps or reads: everything else is
negligible beside the two seconds between samples and the read's timeout.

The loop's sample is four numbers. What the rule does with them depends on two facts only: whether
the running gauge is above zero (`load`), and whether the other three differ from the sample kept
(`mark`). As the engine moves while a read is on its way, `mark` says whether a movement is after
the sample being read (`new`), in it (`since`), or absent (`same`). `left` says in the same way
whether a request left since the sample kept, and `frozen` counts how long a wedged request has
been readable; both exist for the properties only. `deadline` is chosen by the launch, 0 for none.

### AskLpa and the code

A client is a process that holds `startup-request.lock` for one request (`server ask`) or several
(`recorded_on_head`: the warmup and the checks). Its phases are the lines of `ask`: refused
before the `try`, configure, generate, and the `finally` that resets. Any wait may end in an error
(`Reset`, `ResetAnswer`), whatever the server still does with the call; `Kill` drops the lock and
runs no `finally`. The API server hands configure calls to the workers in the order it was sent
them, and each worker may refuse one; generations are scheduled one at a time, late, or after
their client has gone. A generation remembers whether each of its prefill steps was computed in
its own mode on every worker.

### ApcLpa and the code

`PlanPrefill`, `CacheableEnd` and the other operators are `apc_policy.py`'s. `Admit`, `Refuse` and
`Schedule` are the allocation guard of `apc_runtime.py` around vLLM's allocation: attach a
provisional policy, publish up to the cacheable end, take the policy back when there is no room.
`BeforeForward` is `apc_worker.py`'s hook and the step behind it: read the policy of a new or
resumed request, configure the window when the owner changes, check the position, approximate.

vLLM is external: it schedules one request at a time, in chunks, up to `Ahead` steps before the
worker has run them, with drafts the worker may reject; it preempts only when no step of the
request is in flight; it evicts any block nobody holds. Its hash table names a block by the text
up to its end, and a block is entered as its tokens are scheduled, before they are computed.
`bad` holds the table's keys whose block depends on an approximated position. A check that fails
would end the engine; instead of its aftermath, `raised` records that it failed.

### KpoolRing and the code

A key is its position and whether it was computed on the committed text. A verification step
stashes the keys of the last token and its drafts in slot `position % Ring`, compressing a pool
when its last key is stashed; the step after it begins at the first rejected draft. `Ring` is the
size the patch computes from the pool and the depth. `Prefill` seeds the ring with the chunk's
last keys (`Seeds` is the kernel's mask). `Restore` is a preemption or the cache: a prefix of
complete pools, with nothing in the ring that can be trusted.

### Launch, Profile, Fabric, Download, Patches and the code

`Launch`'s actions are the stages of `switch` that read or write a rank's disk: `Read` (the text,
frozen with the allocator of the process), `Current`, `Look` (`prepare` on one rank, four rounds),
`Again` (the comparison of the rounds), `Stop`, `StartNew` and `Recover` (what `start_rank` reads
of its own checkout), `Ready`, `Clean`, `Resume`, and the three steps of `install`. `World` is
everything else that happens to a rank: a checkout, a lock, a shard, a download begun again,
memory taken, the profile file edited, a container gone. A version stands for what a digest or a
`stat` compares. `late` remembers which look a change came after; a property is about the changes
that came in time to be seen.

A profile is its number of nodes and the settings it changes, by name. `Accepted` is `validate`,
rule by rule and in its parts; `ServeArgs`, `Environment` and `Required` are what one rank's server
is told; `Served` says what the server and the patched vLLM ask of that, from the code that asks.
So `AcceptedIsServed` compares the rules with the checks that would fail a launch minutes later.

`Fabric` has no step of its own but an edit. `Valid` is what the launcher accepts of a node list,
`FabricEnv`, `LinkProbe`, `Checks` and `GidFix` what each rank makes of it; `Agrees` puts two
ranks' views beside each other.

`Download` has one action per step another process can come between: the lock, the status, a piece
of the snapshot, the look at the whole (`Inspect`), the verdict (`Finish`, which writes what
`Inspect` found whatever the files have become); `Kill` drops the lock and leaves the status as it was, `Damage` removes or
cuts a piece, and `Verify`/`Checksum` are `verify_download` with and without `--wait`.

`Patches` names, for each patch, the files it changes and what each must have been through. A
build runs the Dockerfile's lines and drops the layer of one that fails; by hand they run in any
order on a package that is pinned, drifted or already built, and `Kill` leaves what was written.
A write is whole: a kill within one would leave a text whose hash no patch accepts, as a drifted
file has. The module `patch_nope_reference` puts beside the package is left out.

### ToolGate, Probe, HeadChecks, Evaluate and the code

`ToolGate` is the handler of one request, from the body (`Refuse`, `Ask`) over the stream's chunks
(`Begin`, `Receive`) or the whole answer (`JudgeWhole`) to the verdict (`JudgeStream`), the one
repair and the last line (`Close`). `Break` is any exception, at any point. `arrived` is what the
model really sent, and exists for the properties.

`Probe` has one action per collective call: `Begin`, `End`, `Forget`, `Fa2Stage`, `Request`, and
`Load` for the digests of a launch. A tensor is a sequence of numbers that tells what it was
computed from, so a fault at one operation shows in everything computed after it; the property
says that the first difference named is that operation.

In `HeadChecks` a check is a process: look at the head, take the lock, probe and size, ask, judge,
reset, unlock, write. The model API answers as it likes, drafts and accepts, keeps a salt's prefix
until it evicts it, serves `OtherClient`s that know no lock, and is replaced by another launch.
`facts` records what the API did to each check; the verdicts are compared with it.

In `Evaluate` a driver is a process of `hle` or `freedombench`; `manifest`, `answers`, `status.json`
and `STOP` are shared by the runs of one output directory, and any driver may be killed or
interrupted between two writes and begun again.

### Pipeline, Kda, Selection and the code

`Pipeline` follows the load of one stage and expert rank (`SkipSpec`, `LoadWhole`, `LoadHalf`,
`EndLoad`: whole tensors, and an FP8 weight and its scale as two halves that come in any order and
wait for each other), then batches through the layers (`Embed`, `RunLayer`, `SendOn`, `Receive`,
`Return`). A hidden state is the sequence of what was applied to it; residual, post and comb are
known by the hidden state they come from.

`Kda` is one layer on one rank: the load of its shards and the merged ones, then forwards over the
rows of one or two requests, each a prompt chunk, a token, or drafts to verify. A state is known by
the last token it has seen; a released column goes to the next request as it is.

`Selection` has what the kernels leave open as a choice (`DecodeTopK`, `PrefillKernel`, `Align`)
and what the image does about it (`RepairTies`, `CanonicalOrder`, `CompactCandidates`,
`CanonicalExperts`).

## 3. The runs

| Run | Question | Instance |
| --- | --- | --- |
| `rank_disciplined` | In the order a switch sends them, can two launches of a rank run at once (`OneContainer`), or the state file name another (`StateNamesSupervised`)? | old launch, new attempt started twice and stopped, recovery |
| `rank_replays` | With requests delivered twice in any order: is a confirmed stop final, is there one supervisor, does the rank implement `Lifecycle` (`KeepsPromise`), does a stop answer and a stopped supervisor end (`StopSettles`)? | one attempt, two starts, two stops |
| `rank_poll` | Is a rank reported as terminated down for good? (no) | one attempt |
| `switch_pair` | Do the verdicts of a switch and two resumes hold (`SettledIsKept`), is a launch given up for failed down on every rank (`FailedIsDown`), does the command end, is it a `Handover`? | N = 2, two more readiness passes, two resumes |
| `switch_ring` | Do launches never compete, does the journal name whatever may run, is an outage explained, where a cleanup or a recovery may stop half way round? | N = 3, one pass, one resume |
| `switch_degenerate` | Was a pair that a resume reports as stopped really stopped? (no) | N = 2 |
| `supervise` | Is a wedge stopped in time, a deadline met in time, and a healthy engine spared? Is the loop `RankHost`'s supervisor? | stall 6, deadline none or 7, pause 2, reads up to 2, progress at least every 3 ticks |
| `launch` | Do all ranks of a launch run what was inspected (`SameLaunch`), is an old launch that is stopped one that can be brought back (`RecoveryIsReady`), does an install keep what it replaces? Does an accepted profile start (`AcceptedIsServed`), do the ranks' views of a fabric agree, is a complete download whole, and a patched image what its records say? | 2 ranks, 3 texts, 2 changes; profiles of 2 to 8 and 16 nodes; 2 edits of a pair or a ring of 2 or 3; 2 downloaders, 3 pieces, 2 damages; 2 patch runs by hand, 1 kill |
| `head_checks` | Is a verdict earned (`VerdictIsEarned`), does a sized prompt fit (`SizedToFit`)? Are the answers of an evaluation kept and its suite complete when it says so (`RunsAreWhole`)? | two checks at once, two launches, four tokenizers; two drivers, two questions, two attempts |
| `clients` | Is what is returned computed in its own mode, and is no mode left behind (`ModeIsOwn`)? Does a violating turn stay with the gate (`Withheld`), is what is logged what happened, is what is shown whole? Does a trace name the cause (`TraceNamesCause`)? | two clients, two requests each, two workers; one gated request of up to 3 + 2 chunks, two tools; two traces of a request |
| `apc` | Is all that is shared exact, and all that is exact shared? Does the worker approximate what the scheduler chose, and does the window stay where it was? | two turns of a conversation, chunks of two, one draft, the scheduler up to two steps ahead, any choice of exact requests |
| `image` | Is every pool compressed from committed keys? Is a load whole and a pair of stages one model (`StagesAreWhole`)? Is a token's state of its own text (`RowsAreTheirOwn`)? Does one input give one selection? | pools of 4, depth 4, 16 positions; three layers, two experts, three batches; two requests at a time of three, two drafts; three columns, two of them taken |

Bounds. `MaxPolls` bounds the readiness passes before the deadline: a pass changes nothing but
the answers, so one more pass than the first shows both continuing and timing out. `MaxResumes`
is two because what a first, interrupted resume leaves in flight matters only to a second. Two
deliveries of a request show a replay before, during and after the first; a third meets the same
files. N = 2 is the reference pair; N = 3 adds a rank between the first and the last of every
loop. In `supervise` a stall is longer than one cycle and shorter than two, and the deadline
falls in a pause or in a read, whichever comes first.

In `launch`, `MaxChanges` is two: one change before a look and one after it, or one on each rank.
The three texts are one that orders the MoE's sum, one with an allocator of its own and a plain
one; the ranks' old launch is one text, or an ordered and an explicit one. A profile has at most
three settings beside the shipped example's on two nodes, two on others: every rule of `validate`
is about one setting and the number of nodes, or two or three settings together. A piece may be
lost twice, so once before and once after it is verified.

In `head_checks` every kind of check meets a client that only asks, and the two that could wrong
each other (the warmup's canary and the prefix gate) run together; the second launch is one that
decodes well. `MaxDrafted` lies above `MinDrafts`, so a canary sees too few drafts and enough. In
`clients` the second request of one client is too short to be approximated; a call's two parts may
arrive in two chunks, interleaved with another call or with text, and the repair has a chunk less.
The traces differ in the prefix hit, the layout of the blocks, what the unused slots hold, and one
fault at any operation of the prefill or at one of the decode step.

In `apc` the long turn decodes past its prompt, so a preemption may restore more than the prompt;
the short one repeats the first and the start of its answer. In `image` the ring of 8 wraps twice
and has every chunk, step length and acceptance; the middle layer of `Pipeline` is MLA, so either
stage begins or ends with either kind; `Kda`'s requests release columns to a third.

Runs say `CHECK_DEADLOCK FALSE` where the system may rightly stop: nothing left to serve, a
supervision that ended, requests that are finished.

Fairness. In `RankHost` every process keeps running (`JobStep`, `StopStep` are weakly fair):
they are ordinary local processes. Nobody has to send a request, a launch need not end by
itself, and no timeout has to expire: `StopSettles` holds without the 60 seconds. In `Switch` the
coordinator's steps are weakly fair, since each of its waits has a timeout (`subprocess.run`'s
120 seconds, `ready`'s deadline); nothing is assumed of the ranks, the network or the operator.
In `Supervise` the loop and the clock go on, a healthy engine at work makes progress, and a
`/metrics` that is read again and again is answered again and again (strong fairness of
`Snapshot` and `Compare`): it may fail any number of times in between. Without that assumption
the guard is rightly blind, since the code takes an unreadable sample for no evidence. The other
modules claim safety only: what they model ends by itself or by its caller's timeout.

## 4. What is proved

**`RankHostProofs`**, for any set of attempts, any number of deliveries of each request, and any
interleaving (assumption: `RankAssumption`, which only says that the constants are what their
names say and that the old launch was started by one request):

* `TypeCorrect`, `StopFinal`, `OneSup`; the lemmas `NoLate` (when a stop reads Docker no
  supervisor of the attempt can still create a container) and those behind it.
* `Inductive`: the invariant `IInv` behind them. `StopIsFinal` is not inductive by itself: that
  no supervisor can start the container after a stop read Docker depends on who wrote which file
  first. `CancelFirst` says that a stop looking at `job.json` has written `cancel.json`;
  `JobFileOwner` that a supervisor looking at `cancel.json` has written `job.json`. So either the
  supervisor finds the cancel or the stop finds the supervisor and waits for it. `LogOwner` makes
  that supervisor unique, `OldIsUp` keeps the old launch, which is never cancelled, out of the
  launching phases.

* `OneUp` and `StateNames`, for requests in the coordinator's order (`Disciplined`): two launches
  never run at once, and the state file names the supervised one. They rest on
  `DisciplinedInductive`, which adds three facts to `IInv`. `OthersOver`: of two attempts that were
  both asked to start, one is over, for a start is sent only when all others are quiet. `Requested`:
  a container is there only for an attempt that was asked to start. `Withdrawn`: once a stop reads
  Docker, the supervisor has exited or still has `cancel.json` to look at; so an attempt whose
  supervisor is about to write the state file is not over, and every other one is.
* `FollowsLifecycle`: every step is one `Lifecycle` allows, in whatever order the requests arrive
  (`KeepsPromise`). `Withdrawn` holds without the coordinator's order, too; with `Logged` (a container
  is there only for an attempt whose `supervisor.log` is) it says that no request of a stopped attempt
  may bring it up (`StoppedIsDown`). `StepOrderly` is the case analysis: each step concerns one
  attempt and does to it none of what `Orderly` excludes; `OnePhase` reads the phases off that.

**`SuperviseProofs`**, for every stall limit, set of deadlines, pause, read time and gap with
`Gap + ReadMax < Stall` (`SuperviseAssumption`: a healthy engine moves a signal well within the
stall limit, the premise `docs/operations.md` states for choosing it):

* `OnTime`: supervision ends less than a cycle after the deadline. `InTime`: a wedge whose
  request shows in the gauge is stopped within the stall limit, two cycles and a read, if it can
  be read. `Spared`: no stall is declared of a healthy engine that still serves the request it
  served.
* `Inductive`: `IInv` ties the loop's two clocks to what the engine did. `Starved` carries
  `Spared`: as long as the kept sample is what a healthy engine still shows, the stall clock is
  behind the time since its last movement. `Noticed` carries `InTime`: once the sample kept shows
  the wedge, `frozen` runs at most a cycle and a read ahead of the stall clock; until then a
  sample is at most a cycle away, or was taken before the wedge (`Stale`).

**`ImageProofs`**, for every pool size, depth up to three pools (`KpoolAssumption`; the
launcher's ceiling is 5 with pools of 4) and context; for every model of a layer or more
(`PipelineAssumption`), each of either kind, with any routed experts and number of batches; for
every number of speculated tokens, kernel size of the convolution, length of a prompt from two
tokens up and number of requests that come on two requests' columns (`KdaAssumption`); and for every
width of the logits, number of candidates, integer logits, tokens, experts and block size
(`SelectionAssumption`):

* `PoolsKept`: every pool of the committed text has the entry of its committed keys, whatever was
  rejected. `Inductive`: `IInv`. The argument is `TailIsKept`: the ring holds the committed keys
  of the pool being written. It survives a stash because the ring has room for a pool and a
  step's drafts (`RingSize`), so two positions less than a ring apart never share a slot
  (`Apart`); and when a pool's last key is stashed, the other keys are its tail.
* `StagesWhole`: `StagesAreWhole`, of a load and of the batches, in whatever order the halves came;
  the argument takes whole tensors in any order too. `Loading` is the load's half of
  the invariant: what has arrived whole is in its shard, and of a pair of FP8 halves the first
  waits under the key of the pair and the second leaves no entry (`Waits`). It keeps because no
  two tensors share a shard (`ShardApart`) and no two pairs a key (`KeyApart`), and because an FP8
  launch has one stage, which owns every half (`OwnIs`). `Forward` is the other half: `Flow` says
  that batches go in one line, returned, second stage, wire, first stage, each as `Batch` has it
  before its next layer. `LayerDoes` is what the stages meet on: a layer that enters with the
  last sublayer's post still deferred leaves it so, in whichever stage it is, and the last layer
  applies it; `ReferenceIs` gives the recursive `Reference` its closed form, by a least
  counterexample.
* `RowsOwn`: `RowsAreTheirOwn`. `RowsWell` is inductive. Its heart is `Known`: the window before
  the last token accepted, and the state in that token's column, are of the request's text so far,
  whatever the columns after it hold; between a step's rows the ones that ran are known up to what
  will be accepted (`Reached`), the others as they were (`Resting`), so the accepted count a row
  starts from is the one its columns were left for. A row that starts so sees its own text and
  tokens only (`StartsFrom`), the recurrence follows them (`AttendedIs`, its local recursive
  function again by a least counterexample) and leaves columns that are known again, however many
  of its drafts are accepted (`LeavesKnown`). `PlaceIs` and `IndexedIs` are the gather and the
  scatter: a token's place in its group and its position in the step determine each other, so each
  output comes back to the token it is of (`MergeIs`). A row that begins a text starts fresh
  because it is itself the chunk that makes its group take the prefill path.
* `OneResult`: `OneInputOneResult`, of a call from its logits to the rows that are read and of a
  routing to its slots. `SelectionInv` is inductive. Its ground is `PlaceTells` and `SortedIs`: where
  keys are distinct, an element's place is how many come before it, places and elements determine
  each other, and sorting loses nothing. `StableIs` says that the sort takes the best, and
  `KernelIs` that a row the repair leaves alone had no other choice: were one of the best left out,
  it and the k taken would all reach the k-th value. What is taken, in any order, has one canonical
  order (`CanonicalIs`), and the page table names its rows there, wherever the padding stood
  (`CompactAttends`). Of a routing, `EndIs` says that each expert's end is the ends before it and
  its own blocks, and `WrittenFits` that the worst-case buffer holds them all. `SortsOut` is the
  sort: the slots of the experts before have lower keys and those after higher ones, so each
  expert keeps the slots it had and its tokens come in order, the padding last.

**`SwitchProofs`**, for every number of ranks from two up, every number of readiness passes and of
resume commands (`SwitchAssumption` says no more), wherever the coordinator is lost, whichever save
fails and whenever a request in flight is served:

* `NeverCompete`, `Covered`, `Explained`: the three safety invariants of the switch. `SettledKept`:
  what the journal concludes stays true. `GivenUpIsDown`: a launch recorded as failed, without a
  cleanup error, is down on every rank, and a start of it that is still on its way finds it stopped
  (`GivenUp` keeps what the cleanups confirmed). `ImplementsHandover`: the switch is a `Handover`, action by action, under the
  mapping the module gives; the refinement's initial state and each of its steps are named steps of
  the proof.
* `Inductive`: `IInv`. None of the properties is inductive, for a request that left is served at
  any time after, so what may happen depends on what was sent, and that on where the coordinator
  was. `RowsAreSaved` orders the three: no call leaves before the row that names it is saved, and
  the journal is never ahead of the report. `OldIsLeft` and `NewIsDown` say which ranks are down for
  good before the next launch begins, `NewFresh` and `RecFresh` which rows have not begun, from the
  highest rank down. `Control`, `StatusTold` and `Asked` say what a resumed command may take for
  granted from the status it read, `IsBegun` that what it waits for was begun. `LiveWasSent` and
  `OldOnlyEnds` bound what the ranks do on their own.

**`LaunchProofs`**, for every finite set of ranks, every profile and any number of changes of a
disk, between any two steps:

* `OneLaunch`: what runs on all ranks after a complete switch is one launch. `RecoveryReady`: the
  old launch a recovery starts was found startable twice, before anything was stopped. `TextKept`:
  an install loses no text that it found.
* `Inductive`: `IInv`. A look holds only as long as the disk is left alone, which `late` records, so
  `LooksHold` is what a good look still says of a rank, and `LooksPassed` which looks are behind the
  coordinator at each stage; together they give the equality of assets. `RunsItsDisk` is the
  same for a rank that was started, `Begun` and `Installs` order starts, stops and installs.

Also in `LaunchProofs`, about `Download`, for every set of downloaders and pieces and any number of
damages, provided no downloader is called as the free lock is:

* `DownloadSettled`, and `CompleteSettled` beside the other parts, as `MCLaunch` composes them: the
  status says "complete" only while nobody fetches, and of a snapshot that was whole.
  `DownloadInductive`: `IInv`, where `HolderWorks` says that the holder of `download.lock` is the
  only downloader at work, from its entry to its last write.

And about the other parts of `MCLaunch`:

* `AcceptedServed`: every profile of 2 to 8 or 16 nodes that the launcher accepts, with any set of
  the settings and not only the three of a run, is one every rank's server takes. `ServeArgsAre`
  says what the steps of `serve_args` come to, `AcceptedAre` what `validate` leaves of the settings;
  `EngineServes`, `WorkersServe` and `SharesServe` are the checks of the engine, of the workers'
  extension and of the padded shares, `LcmOf` and `ShapesAre` the arithmetic of the last.
* `RanksAgree`: `Agrees`, for any number of ranks and any links, rails and addresses of theirs; there
  is no behaviour in it. `FabricAgreed` is the same of the fabrics the run edits, which `FabricTyped`
  shows to be such. The hosts meet at one head because a valid node list has host addresses of its
  own on all ranks, or a single link between the two (`ValidForms`, `SiteIs`); an index that a hint
  offers is right because it is one all rails of the host have (`HintsHelp`), and since it only
  changes `gid` the other checks see the profile they accepted (`RegidFabric`, `RegidSites`).
* `PatchedRecorded`: `PatchedAsRecorded`, whatever is run by hand and whenever a run is killed; the
  argument does not look at how often. `IInv` of `Patches`: `Whole` says that every file of a
  package is as some first lines of the Dockerfile leave it, `Writing` that what the running patch
  has yet to write is as it found it, `Building` what the lines before a build's next one have left.
  What carries it is `LinesFit`: each patch is pinned by exactly what the lines before it leave of
  its files, though three files are patched twice. `UpTo` is recursive: `Grown` writes its
  twelve values out to show that it is what its definition says (`UpToIs`).

**`ClientsProofs`**, about `AskLpa`, for every set of clients and workers, any number of prefill steps and at least
one request a client:

* `ModeKept`: a generation whose client still waits for it was computed in the mode that client
  configured, on every worker, in every prefill step. `LockHeld`: the client at work is the one that
  holds the lock.
* `Inductive`: `IInv`. The server may be left with calls and generations of a client that was
  killed or timed out. `SentBefore` says that all of them are of requests at least that far, so a
  new request shares its name with none; `OwnIsLast` that the call a client waits for is the last
  in the queue, `Answered` that once it is answered nothing is left that could change the workers.

Also in `ClientsProofs`, about `ToolGate` as `MCClients` composes it, for any declared tools, any
chunks and lists of calls, turns of any length and any request (`GateAssumption` gives the pieces of
a call their type):

* `CallsWithheld`, `OutcomesTrue`, `TurnsWhole`: the three properties of the gate.
* `GateHolds`: `GateInv` is inductive. `Gathering` says that what was gathered of a call is what its
  parts hold, in the order they arrived; it makes the gate's verdict (`Violations`) the one read off
  the chunks (`BrokenIn`). `Finishing` says that one finish chunk of a turn waits at most, and none
  is shown before the verdict; `Telling` that the texts shown of the turn being read are those that
  arrived, but for those that wait with its finish chunk. `Finding` carries the first turn's
  violations over to the second, `Listing`, `Logging` and `Showing` say what the verdict left.
* `Quiet`, `Opens`, `Receives` and `Judges` are the four things a step can do (`GateDoes`), and each
  part of the invariant is proved for the four.
* The pieces of a call and the texts of a turn are joined by `FlattenSeq`, which is recursive. What
  the proof needs of it (`FlattenAppend`, `FlattenConcat`) is proved from a least counterexample
  (`Least`: a set of numbers has a least one, by `WFMin`), not by an induction theorem.

Also in `ClientsProofs`, about `Probe` as `MCClients` composes it, for any requests, weights and
number of traces (`ProbeAssumption`: a request has a place of its own for each of its three
positions, at most one fault, in one of its two steps, and step 1 stands for the step of a request
without one):

* `CauseNamed`: `TraceNamesCause`. What a step notes is first shown not to depend on where the
  blocks lie or in which order candidates are found: `PhysicalIs` says that the places come in the
  candidates' order, and `TouchedIs` that what they hold comes out the same for every placement. A
  fault then shows in exactly what is computed after it (`ChangedIs`).
* `FirstAt` is where two like lists of notes part. `JoinFirst` and `JoinLater` join it over parts
  of a step, so `HookIs` and the lemmas of the single modules add up to a step (`StepTells`,
  `RepeatTells`) and to both steps (`RowsTell`); `CauseIs` says which step the earlier fault is in.
  `RepeatDifferenceIs`: the fixture's numbering of equally named calls finds the same difference.
* `ProbeInv` is the inductive invariant. `Traced`: a trace with one request holds that request's
  notes, in the stage that was set, and a verdict is the comparison of two such traces. `Hooked`:
  what is hooked belongs to the running trace and to those begun over, and what a trace restores
  when it ends is of the latter only.
* `DigestsTell` needs no invariant: the set of a layer's prints is another exactly where one of its
  weights changed, came or went.

**`ApcLpaProofs`**, for any requests, texts and prompts within them, cache groups, tail, break-even
point, chunk, drafts and steps ahead (`ApcAssumption` gives the constants their types, at least one
token of exact tail as `apc_policy.py` requires, and a prompt of at least one token;
`NoneAssumption` that `None` is no policy):

* `SharedStaysExact`, `ExactStaysShared`, `OnlyItsWindow`, `WindowIsChosenOnce`: the four properties
  of the run `apc`. `TypeCorrect` adds that a rejected draft never takes a position below zero.
* `Inductive`: `IInv`. The scheduler enters blocks and plans steps before the worker has computed
  them, and hears of a rejected draft after it has planned on. `Sent` and `InOrder` say what is in
  flight and that it is worked on in order; `Worked` what the worker knows of a request once its
  admission was worked on. `Tracked` ties the two sides: along the steps in flight there are two
  paths, where the request is and where the scheduler takes it to be; they begin together, part only
  past the prompt and only with drafts, and never come closer. So within a prompt the position check
  is exact, past it the one `generated` allows, and what the worker has done is planned.
  `Entered` says how far blocks are entered, and `Narrow` that for a request with a window it is
  never past the window's start unless they were restored; `NothingTainted` concludes that no entered
  block depends on an approximated position.

**`HeadChecksProofs`**, for any programs, launches, tasks, tokenizers and settings of a head
(`HeadChecksAssumption` gives them their types, and says that no program is called as the free
lock):

* `VerdictsEarned`: `VerdictIsEarned`. `ChecksInductive`: `CheckInv`. The verdict is made of rows
  and counters, the property of what the API did (`facts`), so `Record` and `Gate` say which rows a
  fact has left behind. The canary needs more: `Sound` bounds the drafts a sound launch may miss in
  a row, whoever they were for, and `Counting` carries that bound from one reading of the counters
  to the other, as long as no other launch took the head's place; `Counted` is what it comes to. `Order` says where the lock is
  held, and that whoever is at work still sees the launch it looked at, or has "moved" against it.
  `Kept` relates a warm answer to the prefix a salt has in the cache: it is there once the cold
  phase is over, unless evicted, lost with its request, or dropped with the launch.
* `PromptsFit`: a prompt that was sized fits, whatever the tokenizer counts (`Tokenized`: a text has
  a token at least, lengths are numbers). It is the half of `SizedToFit` about prompts.
* `PromisesFit`: `SizedToFit`, for any layout of the cache too (`Laid`: a group's blocks hold a
  token at least, and a layout has block 0, which the code sets aside as the null block). `LayInv`
  says that what a check promises is the estimate of a layout the workers reported. That the
  estimate is no promise too many is a count: `SumCounts` shows that the sum over the groups counts
  the cells of a set, one per block a conversation keeps, and `Promised` maps the blocks kept by
  all conversations one to one into the conversations' cells, of which there are fewer than the
  layout has blocks.
* `EvaluationsWhole`, and `RunsWhole` beside the checks, as `MCHeadChecks` composes them: the
  property `RunsAreWhole`, for any drivers, arguments, questions and attempts
  (`EvaluateAssumption`: a run has a number, a limit is one, no driver is called as the free lock).
  `EvaluationInductive`: `EvInv`. `Locked` says that the driver at work holds the lock, `Directory`
  that past the manifest it writes it is the manifest's run, `Rows` that all rows behind it are
  answered and the one it asks is not; for freedombench `Alone` says that one driver only ever got
  past making the directory, `Replies` that its report is at most one attempt ahead of it.

Facts about the models that came out of the proofs: `AskLpa` needs a client to make at least one
request (with none, its counter starts out of range), `ApcLpa` needs `Prompt` to be a function and
`None` to be no request, and `HeadChecks` needs "none" to be no program.

Only model-checked, and why:

* The liveness properties (`Supervise`, `RankHost`, `Switch`) and everything with ENABLED: TLAPS
  does not reach them.

No installed prover takes the induction theorems. What a recursive function computes for every input
is proved from a least counterexample (`FlattenSeq`, `SumFunction`, `Pipeline`'s `Reference`, `Kda`'s
`Attended`); `Selection` has no recursion, its sort is given by how many keys are lower.

## 5. Where the code does not do what it says

* `rank_poll`: `rpc("poll")` takes any listed container that is not running for a failed rank.
  `docker ps -a` lists a container between the create and the start of `docker run`, so a poll in
  that window reports `rank-terminated` for a rank that comes up a moment later, and the switch
  gives the launch up. The window is short and the outcome safe (cleanup, then recovery).
* `switch_degenerate`: `resume` ignores the result of `stop_owned`; its error message says the
  degenerate pair was stopped even when `cleanup_errors` records that a stop failed.

Noted, not counted as findings: a failed rank or the deadline met while resuming only propagates,
without the cleanup that `docs/launch-safety.md` promises for a switch; and when a degenerate
resume is interrupted while stopping, the journal stays `readiness-unconfirmed`, so a second
resume may call complete a pair one of whose stops is still in flight (`CompleteIsKept` names the
exception). The docstring at `warmup.py:94` says the long prompt is counted with the served chat
template, where `tokenize_request` counts the plain text.

### Limits the models show

What follows is how the code behaves; a property that would say otherwise names the exception.

* Supervision: a wedge while the running gauge reads zero looks idle and is never stopped by the
  stall guard; a request that left and another that looks the same, with no sample in between, can
  be taken for a stall (`left` excuses it in `HealthyIsSpared`).
* Direct requests: a reset that fails, or a client killed before it, leaves the workers' mode
  behind until the next configure. `ModeIsOwn` excuses both, and shows the next request is right
  all the same.
* Tool gate: the finish chunk of a withheld first turn is dropped with whatever text it carried,
  though the model is told of that text; one JSON line per checked request, but none for one that
  broke off; when the repair of a whole answer is refused, the client gets the upstream's error
  without the outcome header.
* Checks: the head's state is read before the lock, so the launch may be another by the time a
  check asks, and a canary's drafts may be one launch's before and another's after
  (`CanaryIsTrue` does not judge it then; the rest of `VerdictIsEarned` does); the agreement's reference file is read only after the reading; a record is written
  after the lock is left.
* Evaluations: `hle` looks for and writes its manifest outside the lock, so two first starts may
  race: the second overwrites the manifest and may then be refused the lock, and the first's
  answers lie under the wrong manifest (`raced` excuses them in `AnswersAreKept`). A driver refused
  by the lock has already left its directory or manifest. The head is looked at once, before the
  lock. `result.json` may say `full_suite_complete` while its status is still "running". A cut-off
  reply that shows a letter ends the retries.
* Traces: a trace begun over a running one leaves the older one's hooks and wrapper for ever;
  `trace_differences` zips the calls, so a trace with fewer calls and an equal beginning differs
  only in "calls". Other requests within a trace, a prefix hit on one side only, or another FA2
  stage make traces incomparable, and nothing marks them so. Cache rows are not gathered for more
  than 6 rows: a wrong one is then named at the output.
* Profiles: 9, 10 and 12 to 15 nodes are accepted though a rank would hold only padding heads; a
  memory probe is accepted without the development endpoints it is called through.
* Fabric: two links of one node may share a /30; how the cables run is not checked; a ring without
  host addresses is accepted.
* Launch: with an allocator of the environment frozen over a text that names its own, an install
  refuses the very text that was launched; an edit of the profile file between an install's read
  and its replace is lost; a recovery starts the source the checkout has by then.
* Download: the status a killed download leaves sends a waiting verifier into waiting for nobody,
  and one left by a finished download lets it begin before the next has.
* Patches: a run killed between two files can never be completed in place, since the first file's
  hash is no longer the pinned one: the package must be installed anew. `patch_apc_lpa` writes no
  record.
* MLA overlay: the FP8 halves of a layer that is on another stage would raise `KeyError`; FP8
  checkpoints are modelled with one stage, since they cannot be split into several.

## 6. Plan

The core and all but one of the parts with state are modelled. What is left, the most consequential
first:

1. `ApcLpa` with `prefix_dedup`: which of two copies of a block a lookup and an eviction meet.
2. `HeadChecks` over `AskLpa`'s three calls in place of its one step, if an instance small enough
   is found.

## 7. Not modelled, and why

Numeric kernels and reference implementations, the text the patches replace in the pinned vLLM
(other than what it makes it do), benchmark and report scripts, publication tools and documentation
checks have no state a model checker would explore: they compute from files to files. Contents of
manifests, prompts and answers are abstracted to what the code compares. JSON files and the HTTP
client are pure I/O. The vLLM engine, Docker, SSH and the operating system are external and modelled
only as far as the code depends on them; `prefix_dedup` computes on vLLM's page tables, which no
source here describes. Two faults are outside the models: SIGKILL of a supervisor while its `docker
run` is in progress (the client would outlive it), and a process id reused by a stranger (the stop
refuses to signal it).

Left out of the modelled parts:

* `Switch`: two coordinators at once, which nothing but the guard in `start_rank` keeps apart.
  `Launch`: lost answers and crashes, which are `Switch`'s.
* `Profile`: the CPU lists and their verification; `Fabric`: the host's Docker and memory readings.
* `AskLpa`: the head's recorded state, which is read before the lock, and clients that go to the
  API without it, which `docs/lpa.md` forbids. `ToolGate`: HTTP framing, and the stream of an
  upstream that drops without `[DONE]`, which looks like one that ended.
* `HeadChecks`: the shares a report prints and no verdict uses. `Evaluate`: the files under
  `errors/`. `Probe`: the readings of allocator, host and kernels that only report, and
  samples that are no number; the switch of the candidate order is on, as by default.
* `ApcLpa`: the layer hooks' arithmetic and several requests running at once.
* `KpoolRing`: which memory the seed's strides address, where the seed patch's own fault lay.
* `Pipeline`: the MTP layer and the vision tower; sequence parallelism and expert load balancing
  are off in every launch. One order of the whole tensors stands for all, before the halves in
  every order: a whole tensor touches its own shard only.
* `Kda`: what vLLM schedules is taken as its scheduler gives it (a first chunk of two tokens at
  least; a launch drafts for every request past its prompt or for none), and the profiling forward
  changes nothing. `Selection`: the switches are on, as by default; infinite and undefined logits
  are left out.
