# TLA+ models of GB10-Engine

GB10-Engine serves one language model on one GPU: a Rust HTTP server
(`crates/gb10-server`), a hybrid decoder of 48 DeltaNet and 16 attention layers
(`crates/gb10-model`), CUDA wrappers and kernels (`crates/gb10-cuda`, `kernels/`),
and programs that verify and measure it. This directory holds TLA+ modules for the
parts of it whose correctness is a matter of state, order and failure rather than of
arithmetic, the TLC configurations that check them, and proofs checked by TLAPS.
Line numbers refer to the commit the directory was written against; `main.rs` alone
means `src/crates/gb10-server/src/main.rs`. `PROJECT.json` maps every definition to
the lines it models.

## The system

| component | state it keeps | operations | what makes it correct |
|---|---|---|---|
| **serving engine** `Engine`, `run_group` (main.rs) | `ModelState`, `prefix_ids`, `prefix_next`; per group `done`, `limit`, `fed`, `fresh`, `next`, `ids` | tokenize, restore or reset, chunked prefill, snapshot, emit, batched step, deliver | every answer is the greedy continuation of its own prompt, whatever was cached, batched, chunked or refused before; a group ends |
| **decoder state** `ModelState`, `LayerState` (gb10-model), `kv_cache_append_multi` | recurrence, conv history and KV length of every slot and layer, the flat KV cache, one snapshot of the first three | `prefill_seq`, `step_batch`, `snapshot_recurrent`, `restore_recurrent`, `reset` | recurrence, length and KV rows of a slot stand for one context; slots do not touch one another |
| **batching scheduler** `scheduler`, `remote_generate` (main.rs) | the job channel, the group being formed, one channel per job | receive, batching window, run, deliver, drop | a client gets its own answer; nobody waits for ever; a lost group is told |
| **connection threads** `handle*` (main.rs) | the socket, the stream's frame, one `ThinkGate` | accept, write, hear token, done or failure, close | one well-formed response in every case |
| **reasoning gate** `ThinkGate`, `visible` (main.rs) | held text, open flag | push, flush | nothing of an answer is lost, doubled or reordered, however a tag is cut |
| **start-up sizing** `Args::parse`, `resolve_concurrency` | the window and the number of slots | parse, resolve | the KV cache fits its budget |
| HTTP parsing, static routes | none | read a request, answer | every request that was read is answered |
| speculative decoding `mtp_generate` (gb10-verify), `mtp.rs` | draft state, position, rollback snapshot | draft, verify, restore, re-feed | its output is that of greedy decoding (it is, up to the end of sequence: `mtp_stop`) |
| **forward pass** `Layer::forward*`, `Linear`, `Model` (gb10-model) | one scratch shared by all layers and passes, the two buffers of the residual stream, `TcScratch`, per-layer state | one token, chunk, batch, verify; snapshot, restore, reset | each row is that of its own context on every path; a pass changes the state as a whole or is known not to have |
| wrappers and kernels (gb10-cuda, `kernels/`) | device buffers; grids, shared memory | check shapes, launch | every element computed once, nothing outside a buffer |
| **checkpoint loading** `safetensors.rs`, `Store` (weights.rs) | the mapped shards, the index by name, the uploaded model | open, look up, upload | what is uploaded for a tensor is that tensor, whole; a server has all of them |
| tokenizer, chat template | none | encode, decode, render | - |
| round driver `loop/run_round.sh` | gate results, `state.json` | build, test, gates, verdict | a failed gate fails the round |

How they meet. A connection thread parses a request, sends a `Job` with the sending
end of a fresh channel into the scheduler's channel and reads `Msg`s from the other
end. The scheduler thread owns the `Engine` and is the only one to touch the GPU: it
blocks for a first job, waits the batching window, takes up to `n_seq` jobs and runs
them as a group. `run_group` sends `Token`s while it decodes and `Done` at the end; an
error drops the jobs and with them their senders, which the connections hear as a
closed channel. Slots of a group share one `ModelState`; groups share it too, through
the snapshot and the KV rows below it, which are the prefix cache.

What is hard:

* The prefix cache is a snapshot of *some* of the state (recurrences and lengths) plus
  KV rows that nothing protects. Between the snapshot and its use other slots decode,
  finished slots go on appending, prefills fail half way.
* `step_batch` appends a KV row for **every** slot of the state at a position that is
  never compared with the window.
* A group is lost to the error of any of its requests, at any of eight calls, each of
  which leaves a different part of the state changed.
* Clients hang up or stop reading while their slot decodes; jobs arrive before, in and
  after the batching window; a channel closes behind messages still to be read.
* The tag that ends the reasoning comes in pieces, with text on both sides.
* A sum of sizes is compared after it may have wrapped.
* A pass is some hundred launches over buffers that the next layer, the next pass and
  the other path use too, at other lengths. Half of the wrappers check their shapes; the
  other half are in bounds because of those before them, and some of these check nothing
  of the cache. No pass looks at the room left there. Any launch may fail, and the
  layers before it have by then stored state.
* The tensor-core path stages its operands in one place for all projections; projections
  of one input skip the staging because the one before has done it.
* Shards are opened as the index names them, and a name may be in several.

## Modules

| module | models | source |
|---|---|---|
| `ModelState` | the decoder state and its operations, whole and cut short by a device error | model.rs 130-458, layer.rs 863-963, ops.rs 493-528, elementwise.cu 1638-1650 |
| `Engine` | `run_group` and the prefix cache; EXTENDS `ModelState` | main.rs 243-272, 1060-1252 |
| `GreedyServe` | what the engine promises: an abstract specification without cache, slots, chunks | main.rs 1096-1236 as clients see it |
| `Server` | scheduler and connection threads; uses `GreedyServe` for the group's work and `ThinkGate` for streams | main.rs 562-967, 1004-1053 |
| `ThinkGate`, `ThinkStream` | the gate's three functions; one streamed answer through it | main.rs 282-349, 881-900 |
| `Admission` | start-up sizing | main.rs 54-130 |
| `Checkpoint` | the shards, their index, what `Store` accepts and uploads | safetensors.rs 36-246, weights.rs 552-665 |
| `Startup` | the order of `main` and `Engine::new`; EXTENDS `Admission` and `Checkpoint` | main.rs 359-409, 1254-1274, model.rs 62-95 |
| `Kernels` | device memory, every launch the passes make: what its wrapper checks, what it does | ops.rs, kernels.rs, elementwise.cu, gemm.cu; layer.rs 932-1042 |
| `Projection` | which launches a matrix product becomes; EXTENDS `Kernels` | weights.rs 72-522 |
| `ForwardPass` | the layers, the passes and the state's copies as sequences of launches; EXTENDS `Projection`, implements the operations of `ModelState` | layer.rs 134-857, 1047-1214, model.rs 104-536 |
| `MtpDecode` | speculative decoding; EXTENDS `ModelState` | gb10-verify main.rs 1487-1602, mtp.rs 109-140 |
| `ModelState_proofs`, `Engine_proofs` | theorems about the decoder's state and about `Engine`; the second EXTENDS the first | - |
| `Server_proofs`, `MtpDecode_proofs`, `Startup_proofs`, `ThinkStream_proofs`, `ForwardPass_proofs` | theorems about the module of that name | - |
| `Rows_proofs` | what the passes of `ForwardPass` compute; EXTENDS `ForwardPass_proofs` | - |
| `MCEngine`, `MCServer`, `MCThinkStream`, `MCMtpDecode`, `MCStartup`, `MCForwardPass` | small instances for TLC | - |

`Engine` implements `GreedyServe` (property `ServesGreedily`), and `Server` is built on
`GreedyServe`, so what `Server` says of responses holds of the engine below it without
the product of the two state spaces. Below, `ForwardPass` implements the operations of
`ModelState` that `Engine` and `MtpDecode` take as single steps (property `StateRefines`).
Client to kernel, the chain is `Server`, `GreedyServe`, `Engine`, `ModelState`,
`ForwardPass`, `Projection`, `Kernels`.

### ModelState

Numbers are abstracted to *the tokens they were computed from*. A context is the
sequence of tokens a slot has consumed. The recurrence of a slot (`rec`, which stands
for the DeltaNet and convolution buffers of all layers) is the context it has folded
in; a KV row is the context that ends with its token; `Junk` is a value computed from
anything else, and any token may come out of it. So `PrefillSeq` and `StepBatch` yield
the greedy continuation exactly when recurrence, length and every row the attention
reads agree on one context, and an arbitrary token otherwise. `Greedy` is a constant:
nothing is assumed of the model but that it is a function of its context.

The cache is one flat allocation, slot-major, with rows addressed as the kernel does
(`Offset`); a slot past its window reaches the next slot's rows. The stores of one
launch have no order between slots: `OneWinner` picks any. A slot whose rows another
overwrites in a batched step (`Undisturbed` is false of it) attends to the foreign row in
the first attention layer and computes Junk in those above. What lies behind the last
slot is not modelled. Layers of one kind move together, except when a call fails:
`Torn...` leave Junk wherever layers may disagree.

### Engine

One action per turn of each loop of `run_group` and one for each branch in it:
`StartGroup`, `Tokenize`, `Resume` / `StartOver`, `PrefillRepeat` / `PrefillStep`,
`CachePrompts`, `EmitStop` / `EmitToken`, `DecodeStep`, `Deliver`, and `Drop` for each
`?`. The per-slot vectors of the code have the length of the group; here they range
over all slots and one outside the group is done from the start. A failing `send` needs
no action: its result is discarded (main.rs 1231), the slot decodes on. Locals are set
to their initial values when the group ends, which keeps equal states equal.
`Engine::generate` is called from nowhere and is not modelled, nor is the arm of the
prefill loop that its comment calls unreachable.

### Server

The connection thread is `Accept`, `Write`, `WriteFails`, `Submit`, `HearToken`,
`HearDone`, `HearFail`, `Close`; the scheduler is `TakeFirst`, `TakeWaiting`,
`StartGroup`, `RefuseJob`, `EmitToken`, `GroupDone`, `SendDone`, `GroupDropped`. Writes
are events ("head", "role", a delta, "end"), not bytes: `wire` is the events that have
reached a client, `shown` the text of its deltas, however it was cut. A write to a client that hung
up is lost or fails, as the kernel decides. `HangUp` may come at any time; a client
that stops reading is one whose thread takes no step. The routes answered without a job
(`StaticReply`: health, models, 404, 405, a body that is not JSON) go straight to
closing; `NoRequest` is a connection that ends before its request. `slots` is what the
start-up resolved, one or two here.

### ThinkGate, ThinkStream, Admission

Text is a sequence over five symbols that keep the tag's structure: `<`, `T` (the
tag's inside), `>`, white space, anything else; `HoldLimit` is the 64 bytes at which
the gate gives up. `Admission` counts memory in KV rows of 131072 bytes, by which the
budget, every cache and 2^64 are divisible, so the width of the `u64` product is kept.

### Checkpoint, Startup

A file is its header: a record (type, shape, length) for each tensor. `VisitName` and
`VisitFile` are the turns of the two loops of `ShardedSafeTensors::open`, `Load` is one
tensor or matrix of `Model::load_from`. A payload is the file and tensor it comes from and its
length. `Startup` joins these to `Admission`: the slots are resolved after the model is in
memory, `Exit` is an error anywhere before `Listen`. The code opens the files twice, once
with a name prefix and once without, for `lm_head`; one index stands for both.

### Kernels, Projection, ForwardPass

A number is the *term* that computes it, `<<operation, weight, arguments>>`; a buffer is
an array of rows of terms, one per token. The reference (`RefDelta`, `RefAttn`, ...) is
what a row should be, written as a function of the context alone, without buffers, strides
or paths. What no launch of the pass computed is `Stale`. A layer's output is given a name
(`Named`) once it is that of some context, so that terms stay small.

A wrapper of gb10-cuda is the record it puts on the stream, with what it `checked`; `Run`
is the kernel. A checked launch that does not fit is `Refused` and ends the pass; an
unchecked one would be a `WildAccess`. A layer's method is the sequence of launches it
makes (`DeltaForwardPrefill`, `AttnForwardBatch`, ...), `Projection` the part of it
decided by length, shape and the environment variables `GB10_TC_GEMM`, `GB10_TC_SPLIT`,
`GB10_CAST_HOIST`. `Launch` runs the head of the stream, `NextLayer` is the turn of the
loop in `forward_normed`, `step` or `step_batch` with its swap, `CopyLayer` that of the
snapshot. `DeviceError` strikes at each launch that stores state and at each end of a
layer; an error between leaves what one of these leaves. The lengths (`n_keys`) are
written by the host when the launch before has been queued; queue and device are one
here, since every pass ends with a copy back that waits for all of it. Each attention layer
keeps its own counts, and an operation cut short leaves them different (`Level` is false).
`ModelState` has one count per slot, so `RowsExact` and `StateRefines` say nothing of a
pass that computes from counts that are not level; `run_group` starts every group with a
restore or a reset, which level them, and no theorem of `Engine` needs more. The model has
what the test in config.rs (lines 387-399) asks of `layer_types`, as far as it matters here:
attention only where `(i + 1) % full_attention_interval == 0`, so a DeltaNet layer first, and
somewhere an attention layer (`HybridAssumption`).

Each launch carries the sizes its wrapper compares (`checked`): the buffers it is given,
the cache at the position it is given, the staging. `bf16_gemv`, the fp32 GEMM and the
batched wrappers compare nothing; `rmsnorm_gated` leaves out its output, `rope_neox` all
but the tables, `kv_cache_append_multi` and `attn_decode_multi` the positions, which are on
the device. A launch that does not fit what its wrapper compares is `Refused`; one that fits
that and not the rest is a `WildAccess`. The comment at ops.rs 5 ("Every wrapper validates its
shapes before launching") is not true of the second kind; the rows of the scratch are safe
all the same, because some wrapper before has compared them (`NoWildAccess`). The room in the
cache is not: `step`, `step_batch` and `forward_normed` do not look at it, and callers start
passes without it (`run_group` steps a finished last slot on, `mtp_generate` feeds a full
cache). The model starts such passes too. A batched append then stores behind the allocation,
a single append or `attn_prefill` is refused when the layers below have stored theirs, and
`NoWildAccess` and `CleanRefusal` except just these launches (`PastCache`): what they promise
of appends and attention holds of a pass that began with room (`HasRoom`). A store behind the
cache is taken to fall on no other memory of the model, and a read there to give `Stale`
(`CacheRow`): an assumption, as in the program it may hit anything.

Left out of `ForwardPass`: `GB10_TC_SPLIT=0` (stages three parts and multiplies one),
`n_tokens` (in `MtpDecode`), `embed` of a token that is not in the vocabulary.

### MtpDecode

One action per call of a round: `BeginRound` (the hidden row), `Draft` K times,
`Snapshot`, `Verify`, `Restore`, `Commit`; `Start` and `Stop` are the prompt's prefill and
the cut, `OutOfRoom` the errors of a full cache, which end the program. A draft is any
token, so nothing rests on what the head computes. Beside `ModelState` it keeps what only
this program reads: `n_tokens` and its snapshot, and the final hidden rows `normed`, each
as the context it is the last hidden of. `IsPlainAnswer` is what the loop
of plain decoding before it (lines 1514-1521) returns: it stops at an end of sequence or after `n_new` tokens. The
speculative loop looks for an end of sequence in the first token of a round only, so the two
answers agree as far as the plain one goes (`BeginsAsPlain`) and not beyond (`SameAsPlain`).

## Runs

| run | instance | shows |
|---|---|---|
| `engine_serve` | 2 slots, window 5, chunk 2, 5 requests, 2 errors that leave the snapshot alone; 677 000 states | `ServesGreedily` (refinement of `GreedyServe`), `CacheSound`, `AnswersExact`, `OwnRowsOnly`, `LiveSlotsFit` (the cap on the answer keeps a live slot inside its window), `GroupEnds`, `TypeOK` |
| `engine_torn` | window 3, 2 errors at any call | `ResetHeals`: a group that starts with a reset is answered exactly and leaves a sound cache, whatever was torn before |
| `engine_overrun` | prompts and quotas beyond the window, no error | **violation** of `OwnRowsOnly` |
| `engine_stale` | one error in a prefill after a reset | **violation** of `AnswersExact` |
| `server_answers` | 2 clients, 1 or 2 slots, three routes, whole and streamed, and the static ones, groups that may end in an error; 910 000 states | `OwnAnswer`, `TextInPlace`, `Answered`, `TypeOK` (a group never outgrows the slots) |
| `think_stream` | all texts of up to 7 symbols in every cut; hold limit below that | `AnswerIntact`, `Incremental`, `TagRemoved`, `TypeOK` |
| `think_whole` | the same | **violation** of `StreamsVisibleText` |
| `startup` | every window and concurrency without overflow; 23 checkpoints of two shards and three modules, sound and not; an error at any call; 305 000 states | `FitsBudget`, `OwnPayload`, `OperandsCover`, `StartsWhole`, `TypeOK` |
| `forward_pass` | a DeltaNet and two attention layers, 2 slots, window 4, chunks of 1 to 4 tokens over a scratch of 3 rows, 3 settings of the environment, 3 operations, 1 device error, also at a full cache; 458 000 states | `RowsExact`, `StateRefines`; `CleanRefusal` and `NoWildAccess` of passes that began with room in the cache; `TypeOK` |
| `mtp_rounds` | window 10, 7 tokens, 3 drafts a round, 4 prompts, any drafts; 9 800 states | `CommittedOnly`, `BeginsAsPlain`, `RoundsNeverCut`, `TypeOK` |
| `mtp_hidden` | the same | **violation** of `DraftsFromLastHidden` |
| `mtp_stop` | the same | **violation** of `SameAsPlain` |

What the properties say is written above each in its module. `TypeOK` apart, each
relates two pieces of state or two moments: the snapshot and the list it stands for
after any number of steps that could have damaged it; a slot's next token and its own
prompt; what reached a socket and what the engine would say to that client alone.

Why the bounds are enough. Two slots give every pair of roles a slot can have (live,
finished, refused, idle) beside another, and one next row range to run into. The
requests hold a prompt, two extensions of it, one with no common prefix and one too
long, so repeats, extensions, misses and refusals follow one another in every order
over unboundedly many groups. With chunk 2 prompts end on, before and after a chunk's
end. The continuation function of `MCEngine` depends on the length and both ends of
the context, so a wrong context shows in the token; an inexact one shows in every
token. Two errors allow one to strike in the group that recovers from another. `MaxFaults`,
`MaxText`, `MaxRequested` and the request sets are bounds of the models, not of the
code. In `Server` the attentive client and the other are not alike (one is fair), so
no symmetry is used; `CHECK_DEADLOCK FALSE` there, and in `ThinkStream` and
`Admission`, `MtpDecode`, because every client may have been served, the text may end and
start-up and the program end.

With two connections and one slot a job waits for the group before it, with two slots
they share one; a third connection adds a longer queue and no new step.
In `forward_pass` the sizes are chosen so that each threshold of the code is met from both
sides: one token runs as a GEMV, two run small matrices as GEMVs and large ones on tensor
cores, three all on tensor cores, four do not fit the scratch; a staging launch covers
more elements than the capped grid has threads (`MaxThreads` 5 for 65535 blocks of 256),
`gate` and `up` have more rows than a two-dimensional grid (`MaxGridRows` 4 for 65535).
A DeltaNet layer before attention and attention above attention give each buffer a second
user and leave two counts that an error can part; a history is one conv input;
window and scratch differ, so a stride of one is not that of the other. Three operations
let one tear, or leave its rows in the scratch, the next continue and the last return.
The checkpoints of `MCStartup` differ from a sound one by one tensor: missing, listed in
the wrong shard, in both, of another type, rank, width or length.

`engine_serve` restricts the requests to those that fit the window *together* (`Fits`
in `Engine`): a prompt plus any neighbour's answer within the window. The code does
not check this, and `engine_overrun` is what happens without it. Of the properties of that
run only `LiveSlotsFit` and `TypeOK` hold without `Fits`; that they do beside neighbours that
run over is the theorem `LiveSlotsStayInside` (and `TypeCorrect`), not a run.
In `forward_pass` the second chunk of three tokens overruns the last slot, whose window ends
with the cache, and the third the first slot's two windows, so three operations reach
unchecked stores behind the cache as well as a late refusal (with `HasRoom` replaced by TRUE
TLC finds `NoWildAccess` and `CleanRefusal` violated).

### What the violations show

* `engine_overrun`: a finished slot keeps appending a row per step while its neighbour
  decodes, past its window and into the next slot's rows. The comment at main.rs 1078
  says the cap on the slot's own answer prevents this.
* `engine_stale`: a miss clears `prefix_ids` but leaves the snapshot. After a prefill
  that fails, the next group sees every prefix empty, which counts as resumable,
  restores the older snapshot and prefills on top of it. main.rs 1113: "it can only
  ever make a group slower, never wrong".
* `think_whole`: the gate holds only what may begin a tag, so a stream shows the
  reasoning; the type's comment (main.rs 292) says it is held until the tag closes.
* `mtp_hidden`: `normed` holds the rows of the last forward, counted from 0, and the
  row the head drafts from is addressed by the count of all tokens. From the second
  round on it is a row of an earlier call or one never written. The answer does not
  suffer (`BeginsAsPlain`), the acceptance does; `docs/TARGETS.md:245` reports one of
  11 % against 91 % for single drafts, and 10.4 % for a head that is given zeros in
  place of the hidden state.
* `mtp_stop`: an end of sequence among the accepted drafts, or the decoder's own token
  behind them, is pushed to the answer and fed, and the rounds go on past it; plain decoding
  stops there without emitting it. The gate's comment (gb10-verify main.rs 1466-1472) calls
  the two "identical by construction" and line 1616 compares them.

Facts that need no run. `per_seq * n` wraps in the release build, so an absurd
`--concurrency` passes the comparison with the budget (`FitsBudget` is false of
`MaxRequested = 64` in the instance of `startup`). An explicit concurrency is
compared with the budget only, while USAGE.md gives it a maximum of 16. The head of
speculative decoding appends K rows a round to a cache nothing winds back, so for long answers
the head's cache is full while the decoder's has room (`OutOfRoom`). A tag of the reasoning
that straddles the gate's release at 64 bytes is passed on, and the gate never opens again for
it: `TagRemoved` speaks of answers that fit the limit. `Incremental` speaks of texts without
an opening bracket; one that begins no tag holds the text up to the limit.

`ShardedSafeTensors::open` accepts a name of the index found in any shard opened so far,
where its message says "shard {file} does not contain it" (safetensors.rs 197); the
tensor is then read from the shard that has it, which `OwnPayload` allows. The rows of
`weight_scale` are not compared with those of the weight, nor a matrix's dimensions with
the configuration: `OperandsCover` says that a matrix agrees with itself only. In
`loop/run_round.sh` the condition of a PASS (line 204) does not name tc-parity or
batch-parity, so a round in which one of them fails passes, while the header (line 5)
has a round that fails a gate marked FAIL.

Three comments disagree with the code in a way that changes nothing a client sees: the doc
of `FullAttnLayer::forward_prefill` has it valid for an empty cache only (it continues
a cached prefix, `AttnForwardPrefill`); main.rs 261
has the snapshot one token short of the prompt (the next field's comment and the code
take it after the whole prompt), and main.rs 1057 has a finished slot stepped with its
own last token (it is stepped with what the model made of it).

### Fairness

`Engine!FairSpec` has weak fairness of "some step while a group is open": `run_group`
is a sequential function on a thread that nothing suspends for good, every step of it
is a call that returns, and the abstraction of a call is one step. Fairness of single
actions is not needed. `Server!Spec` has weak fairness of the scheduler thread as a
whole, for the same reason, and of the connection thread of each client in
`Attentive`: such a thread blocks only in a write, which returns if the client reads.
Other connection threads have none, so `Answered` says that a client that reads is
answered even when the others stop reading for ever. Nothing is assumed about when
clients connect or hang up.

## Proofs

| theorem | says | from |
|---|---|---|
| `Engine_proofs!TypeCorrect` | `Spec => []TypeOK`, any error anywhere | the constants' assumptions |
| `Engine_proofs!LiveSlotsStayInside` | `Spec => []LiveSlotsFit` | and no error in a prefill after a reset or in the snapshot |
| `Engine_proofs!CacheStaysSound` | `Spec => []CacheSound` | `Fits`, and errors only in `HarmlessSites` |
| `Engine_proofs!AnswersStayExact` | `Spec => []AnswersExact` | the same |
| `Engine_proofs!ImplementsGreedyServe` | `Spec => ServesGreedily`: the engine implements `GreedyServe` | the same |
| `Engine_proofs!DecodeStaysInOwnRows` | `Spec => OwnRowsOnly` | the same |
| `ModelState_proofs!PrefillExact` | a chunk on an exact slot leaves it exact and yields the greedy token | room for the chunk |
| `ModelState_proofs!StepExact` | a batched step leaves each exact slot of the batch exact and yields its greedy token | every slot's next row is inside its window |
| `Engine_proofs!ResetAlwaysHeals` | `Spec => []ResetHeals`, any error anywhere | `Fits` |
| `MtpDecode_proofs!MtpTypeCorrect` | `Spec => []TypeOK` | the prompt and the tokens asked for fit the window |
| `MtpDecode_proofs!SpeculationBeginsAsPlain` | `Spec => []BeginsAsPlain`: speculative decoding emits what plain decoding emits, and behind that nothing or the end of sequence plain decoding breaks at | the same |
| `MtpDecode_proofs!NothingRejectedStays` | `Spec => []CommittedOnly` | the same |
| `MtpDecode_proofs!RoundsSuffice` | `Spec => []RoundsNeverCut` | the same |
| `Startup_proofs!StartsWithinBudget`, `StartFitsBudget` | `Spec => []FitsBudget`, `StartSpec => [](TypeOK /\ FitsBudget)` | the requested product does not overflow (`NoWrap`) |
| `Startup_proofs!UploadsOwnPayload` | `StartSpec => []OwnPayload`, for every checkpoint | the constants' assumptions |
| `Startup_proofs!UploadsCover` | `StartSpec => []OperandsCover` | the same |
| `Startup_proofs!ListensWhole` | `StartSpec => []StartsWhole` | the same |
| `ThinkStream_proofs!GateTypeCorrect` | `Spec => []TypeOK`, texts of any length in any pieces | the same |
| `ThinkStream_proofs!NothingOfTheAnswerLost` | `Spec => []AnswerIntact` | the same |
| `ThinkStream_proofs!StreamsAtOnce` | `Spec => []Incremental` | the same |
| `ThinkStream_proofs!OnlyTagRemoved` | `Spec => []TagRemoved` | the same |
| `Server_proofs!ServerTypeCorrect` | `Spec => []TypeOK`, any number of clients and slots, any requests | the same |
| `Server_proofs!ResponsesOwn` | `Spec => []OwnAnswer`, any texts and continuation, groups that fail anywhere | the same |
| `Server_proofs!TextBetween` | `Spec => TextInPlace` | the same |
| `ForwardPass_proofs!PassTypeCorrect` | `Spec => []TypeOK`, any number of layers and slots, any shapes, an error at any launch, a full cache | the same |
| `ForwardPass_proofs!StaysInside` | `Spec => []NoWildAccess`: with room in the cache no launch leaves its buffers, without it no other than an append or an attention | the same |
| `ForwardPass_proofs!RefusedClean` | `Spec => []CleanRefusal`: the same of a refusal after a store | the same |
| `Rows_proofs!RowsAreExact` | `Spec => []RowsExact`, any number of layers, sequences and tokens, every path through a layer | the same |

**TypeCorrect.** `TypeOK` is not inductive: that a live slot's `fed` stays a length,
that `fresh` is a token when the prompts are cached, and that `limit` is a natural
number need to know which prompts were admitted and where the loops stand. `TypeInv`
adds this as `Struct`: live slots are members with admissible prompts, `cur` is within
its loop, what was fed does not exceed the prompt. One step per action.

**LiveSlotsStayInside.** The cap `limit <= Ctx - Len(prompt)` says nothing by itself of
the KV length, which comes from the snapshot when a group resumes. `LensInv` carries the
link: the snapshot's length of every slot is that of its `prefix_ids` (`SnapLens`),
during prefill a live slot's KV length is what it was fed (`PrefillLens`), and while it
decodes it is the prompt plus what was sent, the token under way apart
(`DecodeLens`). `SnapLens` is false after a failed prefill that follows a reset
(`engine_stale`) and may be after a failed snapshot, hence the hypothesis on
`FaultSites`.

**PrefillExact, StepExact** are the two facts of the decoder state that the exactness
of answers rests on: no slot's rows are touched by another's while all append inside
their windows, because `Offset` separates them.

**CacheStaysSound, AnswersStayExact.** The invariant is `ExactInv`, on top of `TypeInv`.
`Backed`: what the snapshot, the rows below its length and `prefix_next` hold of a slot
stands for `prefix_ids`, whenever the loops may rely on it. `PrefillExactly`: a live
slot holds the part of its prompt it was fed. `DecodeExactly`: it holds the prompt with
all it said, and its next token is the greedy one. `StepsCounted` is the conjunct one
would not guess. A batched step appends for finished and idle slots too, so the rows of
a live slot are safe only if *no* slot is past its window; during decode every slot's
length is its snapshot's plus the number of steps taken, a live slot has taken as many
steps as it sent tokens, and so `Fits` (a prompt and a neighbour's quota together fit
the window) bounds them all (`AllInWindow`). With that, `StepExact` and `PrefillExact`
do the rest: an append above the snapshot's length leaves the cached rows alone. Both
hypotheses are needed: without `Fits`, `engine_overrun`; with an error in a prefill
after a reset, `engine_stale`.

**ImplementsGreedyServe.** The mapping takes `group`, `ids`, `refused` and `outcome` as
they are; cache, slots' state, chunks and loops have no image. `Accounted` links the two
views (every member is refused, live or answered; a live slot whose turn has not come
is below its quota). `StartGroup`, `Tokenize` of a prompt too long, `EmitToken`,
`Deliver` and the errors map to steps, the rest to stutters; an emitted token is the one `GreedyServe` prescribes by `DecodeExactly`.
**DecodeStaysInOwnRows** is `AllInWindow` read off a step.

**SpeculationBeginsAsPlain, NothingRejectedStays, RoundsSuffice** (and `MtpTypeCorrect`) come
from `MtpInv`. `Phase` says what each call leaves for the next: after the snapshot the
saved state stands for what was said (`Saved`), after the verification the predictions
are the decoder's own along the feed (`Scored`) and the rows below the snapshot are
untouched, so the restore brings back `AtRest`. `KeptFacts` is the point of speculative
decoding: what is kept before each accepted draft is what was fed before it, so its
score was taken in the right context. `Progress` (two tokens a round) shows that
`rounds < n_new * 4` is never what ends the loop. Nothing is assumed of the drafts, nor of
their number but that there is one.

**ResetAlwaysHeals** is the converse of `engine_stale`: with errors at *any* call `ExactInv`
is lost, but not in a group that begins with a reset. `HealInv` claims `ExactInv` of the
phases `prefill` and `decode` when `~hit`. A reset establishes it from nothing
(`ExactStartOver` needs no exactness before it), the lemmas of the steps carry it on, and
wherever else an error strikes the group is over, so no other action ends in those phases.

**StartsWithinBudget, StartFitsBudget** are arithmetic about the integer division and the
clamp; without `NoWrap` they are false. The second says that loading and the other fallible calls
around the sizing do not disturb it.

**UploadsOwnPayload, UploadsCover, ListensWhole.** `LoadInv` follows a tensor from the
directory to the device. `ReaderInv`: the index names a shard by its number in the list
of opened ones, and the record kept with it is that shard's own, although a later shard may
replace the entry of a name and a file may be opened for another name. `LoadedSoFar`: what
is uploaded and what is still wanted are together the wanted list. `UploadsInv`: each upload is a whole
payload (`Stored`) whose length was checked against its record and from which the columns
were recovered (`Covers`). `SizeInv` of the sizing is not needed, so neither is `NoWrap`.

**GateTypeCorrect, NothingOfTheAnswerLost, StreamsAtOnce, OnlyTagRemoved** rest on
`StreamInv`: before the tag is found, what was sent with what is held is what was generated
and the held part can begin only at the first place a tag may be forming; once it is
found, what was sent is `IsCut`, the text without one stretch. The gate searches its buffer
again at each piece, and the least closing bracket of the held part must be shown to be
that of the text (`MinFound`: the least place of a set, by the well-foundedness of the
naturals). `OnlyTagRemoved`: in a text that
fits the limit nothing that may begin a tag was let go before the cut, so a single tag lies inside it.

**ResponsesOwn, ServerTypeCorrect, TextBetween.** `OwnAnswer` speaks of closed connections,
so the invariant, `ServerInv`, follows a request through every thread on its way there.
`JobsInv` is the scheduler's half: a job is in one place, the job channel or the group
(`QueueInv`); a client whose job is on its way has sent it and its sender exists, one whose
group was lost has nothing more to come (`JobInv`); what a slot `Says` is a first part of the
answer to the request of its own client, with `SlotOf` to name the slot of a client when those
before it have been answered (`GroupInv`). `Orderly` is the client's half: what has reached
it, what its thread has still to write, what its gate holds and what its channel carries are
together the response to its request. In the channel are the tokens from the one it has
`Heard` to the one its slot has `Sent`, and the result behind them (`Carries`); a refused
client has been `Told` before the result it will not read; after the last message the rest
is a `Script`. Of a client that hung up nothing is claimed but its place in the queue: its
writes are lost. The answer and the gate's text are recursive functions of the number
of tokens: `SequelFacts` and `FedFacts` take them apart by a least counterexample, and
`AnswerGrows` shows that a token of `GreedyServe` is the next of `Answer`. `OthersKept`
and `OrderlyKept` leave the clients alone that a step is not about.

**PassTypeCorrect, StaysInside, RefusedClean.** A launch that checks nothing is in bounds
because of the launches before it, so the invariant, `PassInv`, speaks of the whole stream left of a
layer. It is `Calm` when each launch fits by its own shape (`Quiet`) and finds its
operands staged by a buffer that is large enough already or is grown by a launch before it
(`Covered`); `Ready` when it also sets the count of its layer; a `Queue` when it is the
batched attention layer, where sync, append, count, sync and attend must come in that order.
The first half of the module shows that every layer method, on each of its paths and for every choice of
projection, puts such a stream on the device; the second that running its head leaves one.
With room in the cache a refusal can only be the first norm of the first layer, before
anything is stored (`Blocked`): every later checked launch has the shape that one admitted.
What a launch does to the cache is kept apart: that its rows are inside (`GivenRows`, and
`AttendRoom` for positions on the device) is claimed only of a pass that began with room
(`Roomy`), so the rest of the invariant holds of the others as well. The counts are bounded by
what the passes can have appended (`Limit`), since nothing bounds them by the cache.

**RowsAreExact.** `RowsExact` speaks of the end of a pass; in the middle of a layer nothing
about its rows is simple. So the invariant, `RowsInv` (with `PassInv` for the types), looks
forward: wherever the launches still on the stream lead, the layer the pass stands at is
`Exact`, that is, its rows are the reference of their contexts and the layers above are as
the pass found them. Running the head of the stream keeps this whatever the launch is
(`TowardLaunch`), so no invariant per launch is needed; it remains to show that the launches
of one layer lead from the rows of the layer before to the rows of this one (`LayerRun`).
For that a launch is a relation of the device before and after it (`Effect`, proved of every
kernel in `RunEffect`), and each path is taken apart into the parts the layers share: a
projection by GEMV, as a product of split parts or over one shared staging
(`TensorCoreProjects`, `SharedProjects`: nothing between the cast and the last product moves
the staging), the DeltaNet mixer over a lane (`ConvWindows`, `RuleReads`), rotation, append
and attention over a lane (`AppendsAttends`, `SpotFacts`: no two sequences share a row, and
all rows of a context are `Inside` the cache, the room of other sequences whatever it is), the
MLP and the residual (`ResidualWorks`). `DeltaWhole` and `AttnWhole` put any such parts
together, and the three paths of each kind of layer are instances. Three things have to be
shown besides. A name that `Named` gives to a layer's output stands for one context
(`OutTells`): the recurrence of the first layer holds the whole of it, which is why the first
layer must be a DeltaNet layer. The state a pass begins with, as `ModelState` sees it, is
what every layer keeps (`BeginStands`), which needs the counts level. And a batched step
appends for every sequence, so all must be inside their windows, those outside the batch
included (`CoreSixWorks`). The invariant quantifies over where a stream leads, which TLC
cannot enumerate; TLC checks what follows from it, `RowsExact`.

Only model-checked: `StateRefines` of `ForwardPass`. `RowsAreExact` has most of what it says
of a pass that ends well, but it also speaks of passes cut short in the middle of a layer, of
the copies of the snapshot layer by layer and of appends that collide past a window, each
with its own set of outcomes in `ModelState`. Out of the prover's
reach: liveness (`GroupEnds`, `Answered`), which needs ENABLED and fairness, and induction
over data through the library's theorems, whose parameters are operators; where a proof
needs induction it takes a least counterexample in a well-founded set (`ThinkStream_proofs`,
`Server_proofs`), which does not reach what a fold computes.

## Not modelled

* The inside of a kernel: threads, shared memory, barriers, the running maximum of the
  tiled, split and FA2 attention, rounding. A kernel is its effect on rows.
* The bytes of an HTTP request and of a safetensors header, with the width of their sums.
* `config.json`: the model's dimensions are constants.
* The tokenizer and chat template, wrappers of external libraries: a token's piece is a
  constant.
* `gb10-verify` and `gb10-bench` but for `mtp_generate`: programs that run a pass and
  compare or time it; they keep no state of their own.
* The round driver: a sequential script whose verdict is one condition.
* `Engine::generate` and the layer events of the timing modes.

## Plan

Order: what serves clients first, then what computes, then what guards the
development.

1. Done: `ModelState`, `Engine`, `GreedyServe`, `Server`, `ThinkGate`, `Admission`, with
   the theorems above.
2. Done: `MtpDecode`, speculative decoding over the same `ModelState`.
3. Done: `Checkpoint` and `Startup`; `Kernels`, `Projection` and `ForwardPass`, with
   `StateRefines` joining them to `ModelState`.
4. Done: the theorems of `Startup`, `ThinkStream`, `ForwardPass` and `Server`, and
   `ResetHeals` with errors at any site.
5. Done: the theorem of `RowsExact`. Left: that of `StateRefines`, for which the state a pass
   leaves must be followed as its rows are, and the states of a pass cut short besides.
6. Open: block-level models of the split attention and of the barriers of the tiled
   kernels.
