# GopherLLM in TLA+

A TLA+ specification of the concurrent and stateful core of GopherLLM, model-checked with TLC
on small instances; its safety properties are proved with TLAPS for every value of the constants
that meets the assumptions of section 5. Paths are relative
to the repository root, the directory the project's records call `src/`; `engine/` is short for `internal/engine/`.

## 1. The system

| Component | State | Operations | Talks to |
|---|---|---|---|
| **Runner lifecycle** (`engine/runner.go`, `inference_admission.go`) | `inferencePending`, `modelMu`, `genLock`, `visionMu`, `closed`, weights, vision tower | chat and embedding requests, `AutoTune`, `LoadAutoTune`, `NearestTokens`, cache controls, `PrepareChatContext`, `Close` | everything below runs under its lease |
| **Conversation reuse** (`engine/runtime.go`, `kv_workspace.go`, `conversation_cache.go`) | one K/V workspace, the metadata of its last prompt with its logits, LRU of immutable snapshots | `generateChatStreamUntil`, embeddings, calibration, cache controls | guarded by `genLock`; process-wide K/V format |
| **Row worker pool** (`engine/simd_workerpool.go`) | the process's one pool, its queue, `retiring`/`active`/`stopped`, pooled batches and WaitGroups | `parallelForRows`, `parallelForRowsBatched`, a changed thread count | every matrix product, of any runner |
| **Served models** (`server/runner_state.go`, `model_routes.go`, `autotune_routes.go`, `middleware.go`) | chat and embedding runner, each behind an RWMutex; `modelLoadMu`, `autoTuneMu`, semaphores, process-wide tuning | generation routes, model and embedder load, calibration, `Handler.Close` | opens and closes Runners; calls the host's `ModelLoaded` |
| **Mobile engine** (`mobile/engine.go`) | model, `gen`, `life`, the cancel function under `mu`, `closed` | `Load`, `Unload`, `Close`, `Cancel`, generate/chat, `CountTokens` | owns one Runner; bindings call it |
| **Mistral static prefix** (`engine/mistral_kv_prefix_cache.go`) | LRU of cloned prefixes, byte account, epoch | enable, disable, clear, look up, copy, put | called by `generateWithSampler` under `genLock`; control calls take its own mutex only |
| **Speculative decoding** (`engine/speculative_*.go`, `qwen35_*.go`, `runtime.go`) | one block in flight, checkpoint, draft-head boundary | prepare, accept, abort, finish, serial drafting | the workspace's rows and recurrent state |
| **Downloads** (`internal/huggingface`) | blob locks with user counts, blobs, partial files, snapshots, refs | resolve and download, cancel, resume, link | file system; the server's `activeDownloads` |
| **Live sessions and the Voxtral cache** (`server/audio_routes.go`, `engine/voxtral_api.go`) | one resident model, one live session with a deadline | create, push, delete, expire, transcribe, close | own models, outside `runnerState` |
| **Chat history** (`server/chat_history.go`) | one file, its ETag | read, conditional write, clear | file system, browser tabs |
| **RAG** (`rag/`, `server/rag_state.go`) | index, snapshot file, document directory | add, remove, reload, save, start-up | embedder, file system |
| Chat memory (`chatmemory/`) | turns, memories, checkpoints | recall, append, restore | caller's goroutine |

The rest of the repository (model graphs, kernels and device backends, file formats, tokenizers,
sampling, image and speech pipelines, the agent loop, bindings, applications) is either
floating-point arithmetic, sequential text processing or one request at a time;
`PROJECT.json` lists each part with the reason it is left out.

**What makes it hard.** A hot swap or `Close` unmaps weights that goroutines may be reading.
Readers come in two kinds, blocking `RLock` and a cancellable `TryRLock` poll, and Go's RWMutex
keeps both out once a writer has announced itself. Requests can be cancelled while queued and
in the middle of a prefill. Rows, logits and snapshots of one request are kept to spare the next
one work, across image requests, format changes and restored conversations. Tuning knobs and the
worker pool are global to the process. What each component must guarantee:

* *Runner*: no weight or tower is used after it was given up; one user of the workspace;
  no admission slot is leaked and the bound holds; cancelled callers leave; `Close` returns.
* *Conversation reuse*: a warm completion emits what a cold one would; whatever metadata or a
  snapshot advertises is what the rows contain; memory limits hold.
* *Worker pool*: every row is computed exactly once; retired pools end and strand no job; no pooled
  object is shared by two calls.
* *Served models*: a request works with one open model from start to end; each runner is
  installed or closed; `Close` releases what was installed whatever is still on its way; callbacks, tuning and
  semaphores match what is served.
* *Mobile engine*: as a served model; `Cancel` reaches the running generation; every call returns.
* *Static prefix*: nothing computed before a boundary is stored behind it; rows match their key; the byte account is exact.
* *Speculative decoding*: the tokens are those of plain greedy decoding, whatever is drafted, rejected or cancelled,
  and what the next request may reuse is the committed text.
* *Downloads*: one writer per blob; a published ref whose sizes are listed names complete files, also after kills and
  resumed transfers and beside references without sizes; every call returns.
* *Live sessions*: one token, given back once; weights stay mapped while a session uses them; every session can expire.
* *Chat history, RAG*: no half-written file; no tab's edit is lost; the snapshot on disk is the index last saved.

## 2. Modules

```
 GoRWMutex      sync.RWMutex as the code relies on it (external): a record
   |            [readers, writer, waiting] and its transitions
   |-- RunnerLifecycle  ........ implements  ModelLease      MCRunnerLifecycle
   |     '-- RunnerLifecycleProofs  (TLAPS)
   |-- ModelHotSwap  ........... implements  ModelSlot x 2   MCModelHotSwap
   |     '-- ModelHotSwapProofs  (TLAPS)
   '-- MobileEngine  ........... implements  ModelSlot       MCMobileEngine
         '-- MobileEngineProofs  (TLAPS)
 RowPartition
   '-- RowWorkerPool  .......... implements  ParallelFor     MCRowWorkerPool
         '-- RowWorkerPoolProofs  (TLAPS)
 PromptCache  .................. implements  ColdCompletion  MCPromptCache
   '-- PromptCacheProofs  (TLAPS)
 SpeculativeDecode  ............ implements  ColdCompletion -.
 MistralKVPrefix                                            |
 ChatHistory                                                +- Components      MCComponents
 RagStore                                                   |     '-- ComponentsProofs  (TLAPS)
 LiveSessions  ---------------------------------------------'
 BlobDownload                                               MCBlobDownload
   '-- BlobDownloadProofs  (TLAPS)
 TextLemmas  (TLAPS): numbers, texts and lists, for PromptCacheProofs and ComponentsProofs
```

**GoRWMutex.** `Shared` is "no writer holds or has announced itself"; `Announce`
closes the door to later readers, a blocked `RLock` is admitted by the next `Unlock`.

**RunnerLifecycle.** Each goroutine has a program counter, named after the call it is about to
make. A caller is `acquireInference` (count, compare, `TryRLock`, poll, closed check, `genLock`
with its context), the generation, which may render images under `visionMu`, and the release
function in its order. Tuners are `AutoTune` (lease, then `genLock`) and `LoadAutoTune` (lease alone),
controllers the cache controls (`genLock` without a lease), planners `PrepareChatContext` (the vision
lease alone), closers `Close` with its intermediate states "cleared" and "unmapped".
*ModelLease* promises that users come and go while the model is open and that it is disposed
of only when none is left.

**RowWorkerPool / RowPartition.** The dispatcher's steps are reuse or replace the pool
under `rowPoolMu`, take a pooled object, send the jobs, run one's own share, wait, put back, release
the lease; a worker selects a job or the closed stop channel, runs chunks (static, or claimed
from the shared counter) and calls `Done`. The stop channel and the job queue are separate, as
in the code, so a worker may stop with jobs queued unless the leases prevent it. *RowPartition* is the
arithmetic `n*w/c`. *ParallelFor* is a loop that returns when each chunk has run once.

**ModelHotSwap.** Native, Ollama, proposal and embedding requests, chat and embedder loads,
calibration and `Handler.Close`; per step: the middleware's check (`Check`, a read lock given up before the route runs), semaphore,
lock, callback, unlock. Requests may come at any time, also while the handler closes and afterwards, and `BeginClose` waits for none
of them: the handler has no such wait, and `Serve` closes it five seconds into a `Shutdown` whoever is still there. So a callback may
get a nil runner (section 6); it then has no model in the sense of *ModelSlot*. `Door(p)` is where a request stands when it
comes to `withLimit`; one that the check turns away leaves no trace and is no step. The history variable `overtaken` holds the runners
that loads have brought or will bring after Close began. A swap is announce, drain, exchange and restore the baseline
tuning, unlock, close the old runner, tell the host. *ModelSlot* promises that each user has one model from start to end, not closed under it.

**MobileEngine.** `run` in order (`gen`, `life`, find the model, arm `cancel`, stream, disarm,
unlock), `CountTokens`, `Load` with its three early returns, `release` for `Unload` and `Close`.
`mu` guards single assignments, so it is not a variable.

**PromptCache.** A K/V row is the *text it was computed from*; a row computed over rows of
another text is `Broken`. A row that reads right although it is stale is thus visible, which a
Boolean "valid" would hide. The recurrent state of Qwen3.5 is the text it consumed; logits are the
text they follow plus whether penalties were applied in place. `Begin`
to `Finish` are the stages of `generateChatStreamUntil`: prefix reuse, retiring metadata before an image or
an outgrown workspace, restoring a snapshot after cloning the displaced conversation, workspace growth
or a one-off cache, chunked prefill, prompt logits, decode, saving. `genLock` serialises requests (proved
in RunnerLifecycleProofs), so one request is in progress; it may be
cancelled wherever the code looks at its context. Embedding, calibration, a format change and cache
controls run between requests. *ColdCompletion* chooses each token from the text before it and
nothing else.

**SpeculativeDecode.** One greedy request from its prompt to the metadata it leaves, over rows, recurrent state
and draft-head rows that are again the text they were computed from. `Prepare` reads the emitted token and the drafts
as one block (the checkpoint is taken before, penalty histories are per position), `Accept` emits an agreeing draft,
`Finish` commits a prefix: rows behind it stay but are not read, the recurrent state is restored and replays what was
accepted, the draft head's boundary moves back. `Serial` is the token-at-a-time draft head, `Plain` the fallback,
the `...Cancelled` actions are the places where the context is looked at. Any draft up to `MaxDraft` tokens may be proposed,
which covers lookup and draft head of any quality. It implements *ColdCompletion* as PromptCache does.

**MistralKVPrefix.** A request captures the epoch (`Begin`), takes `genLock` (`Start`), looks up (`Lookup`, `Copy`) and,
after a complete prefill, stores in three steps: `Check` under the cache's mutex, `Clone` outside it, `Insert` under it again.
Control calls fall between any two of them. The history variable `fenced` holds the requests older than the latest boundary.

**BlobDownload.** A call resolves its reference, its workers take the files (`Enter` is `lockHFBlob`'s look-up, `Token` the
channel, `LeaveLock` its `leave`), and `hfDownload` runs under the lock: stat, request (a mirror may ignore `Range`), write piece by
piece, rename. `linkHFCacheFile` runs after the release: remove, link, fallback copy. `Crash` kills the process; files stay.
A blob's content is the number of right bytes, and `Symlink` in a snapshot is a link to the blob. A reference is `Listed` when its repository tells file sizes:
`hfDownload` compares lengths only then, so the model lets any other transfer end early and be stored, and `DownloadFiles` compares what is there
with 0 and fetches it again. `Start` has both entry points, resolving a model (`exact` false) and `DownloadFiles`.

**ChatHistory.** Tabs read, edit and save with or without an ETag; a save is compare, write temporary file, sync, rename,
sync directory, each a step at which it may fail or the machine stop. A version is the set of edits in it.

**RagStore.** Requests change the index, then save it under `saveMu`; encoding and renaming are separate steps; `Restart` loads
the snapshot (or passes it over) and reads the directory again.

**LiveSessions.** Creating, pushing, deleting, transcribing, expiring and closing, over `VoxtralModel`'s reservation
(one session, weights kept until it closes) and the one-model cache that evicts on another path.

**Components** puts these five, which share no state, beside each other: the variable `subject`, chosen initially, says which of
them moves. Its state space is the sum, not the product, of theirs, so one run and one module of proofs serve all five.

Definitions marked `Defect:` are deliberate mistakes of the kind a change to the code could
introduce, each tied in `PROJECT.json` to a property that catches it. They are not
part of any next-state relation.

## 3. Runs

Run `tlc -config X.cfg M`. Times are for two workers.

| Run | Shows | Instance |
|---|---|---|
| `runner` (40 s) | no use after close, one workspace user, exact admission, tower held, refinement of ModelLease; cancelled callers, close, calibration, controls and planners return (`CallsReturn`) | two callers with `MaxPending` 1 (so that one is refused, and after a refusal retries), one goroutine of each other kind, each calling for ever |
| `row_pool` (80 s) | rows computed once, stopped exactly when retired and empty, object isolation, refinement of ParallelFor | two dispatchers, thread counts 2 and 3, static and batched, 3 pools, 2 objects, 7 rows (no chunk count divides 7) |
| `row_pool_liveness` (80 s) | dispatches return and retired workers end (`ReplacementEnds`) | two pools, so that replacement has to wait for the retired one |
| `hot_swap` (110 s) | Close releases what was installed (`CloseReleases`), tuning belongs to the model, callback order, every runner installed or closed and every slot given back (`NothingLeaked`), tuning fixed under chat, two ModelSlots | two chat loaders, one embedder loader, two runners, calibration, two closers, one blocking request and one embedding |
| `hot_swap_liveness` (95 s) | writers and blocked readers return (`LockTurns`) | one loader, calibration, Close, one polling and one blocking request, two runners |
| `prompt_cache` (40 s) | reusable rows match, exact logits, bounded snapshots, warm = cold, displaced conversation kept | three prompts that extend and diverge, two penalties, greedy and sampled, K/V-only and recurrent graphs, two snapshot entries, limit changed or off |
| `prompt_cache_budget` (110 s) | the context read is the prompt's, the budget holds | an image that its tokens do not show, two formats of different size, a budget some requests exceed |
| `mobile_engine` (25 s) | cancel targets the running generation, ModelSlot, every call returns | two generations, one count, load, release, two models |
| `components` (110 s) | `PrefixCacheExact`, `FenceHolds`; `HistoryWhole`, `EditsKept`; `SnapshotCurrent`; `SessionsTracked`, `ModelOwned`; `CommittedStateMatches`, `SpeculationIsLossless` | see Bounds |
| `downloads` (85 s) | `BlobLocked`, `PublishedComplete`, every call returns (`DownloadsReturn`) | two calls; one reference with listed sizes and one without, to a commit with two files of one content and another commit with that content, to two commits with a blob each, or to the same commit; blobs of two pieces |

Two more runs, `stale_logits_serial` and `link_race`, show where the code departs from what it says; see section 6.

**Bounds.** `Runners`, `Models`, `Pools` and `Objects` bound the objects alive at once or ever
loaded: two runners allow a model to be replaced, and brought after Close by a load it overtook, three pools allow two
retired pools beside the current one. In `downloads`, blobs of two pieces let a transfer stop at the beginning, in the middle and at the end;
the two files of one content make three tasks meet at one lock. `MaxSeqLen` 6 holds the longest prompt (3), its completion (2) and
one position more; `MinTokens` 2 stands for `conversationCacheMinTokens`, `Chunk` 1 makes every
token a cancellation point and a growth step. Byte sizes are chosen so
that two of the longest snapshots fit exactly (`prompt_cache`), or one of them, or two short ones in the
smaller format (`prompt_cache_budget`). In `components`, two requests with one clone in flight and three boundaries let a boundary
fall before, between and after the two holds of the mutex, and prefixes of lengths 1, 2 and 1 with two formats and a limit of 3 make
insertions evict, replace and be refused; two tabs and two edits make a lost update; three models let a closed one with a live session coexist with
two successors; prompts `<<1>>`, `<<1,2>>`, `<<2,1>>`, three drafted tokens, at most five emitted (fewer than two blocks can hold), a
penalty window of 2 shorter than a block, and `MaxSeqLen` 7 make blocks be accepted in full, in part and not at all, hit the context's end, and be reused
by the next request. Goroutines call again and again, so protocol sequences are not
bounded by the number of processes. The `runner` instance is small because its safety
properties are proved for any number of goroutines and any `MaxPending`.

**Symmetry** is used in `hot_swap`, `row_pool` and for the sets of `LiveSessions` in `components`, whose properties are invariants and
action formulas (refinements without fairness); runs with liveness properties use none.
**Deadlock** is checked except in the hot-swap runs: once the runners are used up and the handler is closed,
a route may find nothing it can do. In all other runs some operation is always
enabled, so there a stuck goroutine shows in the liveness properties instead.

## 4. Fairness

Weak fairness says that a goroutine inside a call is scheduled. Beyond it:

* A blocked sender on a channel, a `sync.Mutex` waiter and an announced writer are served in turn in
  Go, so these steps get strong fairness (`TakeGenLock`, `Announce`, `Send`, `rowPoolMu`).
* A generation renders a bounded number of images and decodes a bounded number of tokens, hence
  its end is strongly fair.
* The `sync.Pool` and the allocator never run dry, so reuse and allocation of a pool or an
  object, which the model takes from finite sets, are strongly fair.
* The workers of a download run, its transfers end or fail, and Go's channels serve blocked senders in
  order, so `Token` is strongly fair.
* Never assumed: that a call begins, that a request is cancelled, that a `TryRLock` poll
  wins. `CancelledReturns` therefore promises a polling caller its way out only through its
  context, and no property says that a poller is ever admitted.

## 5. Proofs

Each `...Proofs` module is checked with `tlapm`. The theorems hold for all constants that satisfy the
assumptions named in the modules, which TLC evaluates on every run:

* RunnerLifecycle: the five kinds of goroutines are disjoint and the callers finite (`ProcAssumption`), `MaxPendingAssumption`.
* ModelHotSwap: the kinds of routes are disjoint, requests finite (their semaphores are counted), no runner is also a name
  for "none", "baseline" or "trial" (`RoutesAssumption`).
* RowWorkerPool: dispatches are finite, pool sizes have a maximum, the oversubscription factor is positive (`SizesAssumption`).
* BlobDownload: calls and files are finite, references resolve to commits, blobs are not empty (`DownloadAssumption`).
* PromptCache: prompts are nonempty and shorter than the context, an image is no token, a repeat penalty is not 0
  (`GenerationOptions.validate`), sizes are numbers, `conversationCacheMinTokens` and `conversationCacheMaxEntries` are not 0
  (they are 32 and 4 in the code) (`PromptAssumption`, `KindAssumption`, `SizeAssumption`).

* Components: "nobody" is no goroutine and no model (`NobodyAssumption`), a version of the chat history is neither a missing nor a
  torn file (`VersionAssumption`), lengths and limits are numbers, a position has bytes and one entry may be kept
  (`mistralKVPrefixCacheMaxEntries` is 8; `PrefixAssumption`).
* SpeculativeDecode: prompts are not empty and fit the context (`DecodeAssumption`), the greedy choice is of the vocabulary (`ChoiceAssumption`).
* MobileEngine: the kinds of threads are disjoint (`ThreadsAssumption`).

In RunnerLifecycle the safety properties are not inductive: that a lease holder is inside `Close`'s exclusion
depends on who holds which lock at which line. `LockInv` says this for each of the three locks
(a caller is among `modelMu`'s readers exactly between its lease and its unlock; the token of
`genLock` belongs to whoever is at a line that owns it; from "genwait" on `Close` has drained the
readers and `closed` is set; past the closed check the model is open; while it is open nothing
has been given up). `CounterInv` states the admission count. The inductive invariant is
`IInv == TypeOK /\ LockInv /\ CounterInv`.

| Theorem | Statement | Argument |
|---|---|---|
| `Correctness` | `Spec => []IInv` | one lemma per kind of goroutine for the locks, `EnterCounts`/`LeaveCounts` with the library's cardinality facts for the counter |
| `TypeCorrect`, `AdmissionCorrect` | `[]TypeOK`, `[]AdmissionExact` | conjuncts of `IInv`; a caller is past the comparison only if the count it read was in the bound |
| `UseBeforeClose`, `WorkspaceExclusion` | `[]NoUseAfterClose`, `[]OneWorkspaceUser` | from `LockInv` |
| `LockOrder` | a leased generation never blocks on `visionMu` (`[]NoTowerWait`) | only `Close` announces itself there, and it has drained all leases first |
| `TowerNeverTorn` | the action property `TowerHeld` | the step that releases the tower needs an empty reader set |
| `LeaseImplemented` | `Spec => ImplementsModelLease` | `Init` maps to `Init`, each action to a lease action or a stutter, under `IInv` |
| `CancelReaches`, `SlotImplemented` | `[]CancelTargetsRunning`, `ImplementsModelSlot` of MobileEngine, for any number of threads and models | below |
| `RowsPartitioned`, `ChunksInRange`, `ChunksBalanced` | for all n and c the cuts cover each row once, stay in range and differ by at most one row | monotone integer division |
| `EpochFence`, `PrefixesAreExact` | `FenceHolds`, `[]PrefixCacheExact`: nothing older than a boundary enters the static-prefix cache; rows match their key; the byte account is exact, for any prefixes, formats and limits | below |
| `FileWhole`, `NoEditLost` | `[]HistoryWhole`, `EditsKept` for any number of tabs | below |
| `SnapshotIsIndex` | `[]SnapshotCurrent` for any number of writers, documents and restarts | below |
| `ModelsOwned`, `SessionsAreTracked` | `[]ModelOwned`, `[]SessionsTracked` for any number of clients, sessions and models | below |
| `SpeculationTakesBack`, `SpeculativeIsSerial` | `[]CommittedStateMatches`, `SpeculationIsLossless` (a refinement of ColdCompletion) for any vocabulary, prompts, drafts and penalty window | below |
| `OneWriter`, `PublishedWhole` | `[]BlobLocked`, `[]PublishedComplete` for any number of calls, files, commits, and of references with and without sizes | below |
| `CloseComplete`, `TuningCorrect`, `CallbackOrder`, `Leakless` | `[]CloseReleases`, `[]TuningBelongsToModel`, `[]CallbackNamesServedModel`, `[]NothingLeaked`, for any number of routes and runners | below |
| `TuningFixed`, `SlotsImplemented` | the action property `TuningFixedDuringChat`; chat model and embedder each refine a ModelSlot | below |
| `PoolsRetire`, `ObjectsApart`, `RowsDone` | `[]StoppedExactlyWhenRetired`, `[]ObjectIsolation`, `[]RowsComputedOnce`, for any numbers of dispatches, pools, objects, threads, rows | below |
| `LoopImplemented` | `Spec => ImplementsParallelFor` | below |
| `RowsMatch`, `PromptRead`, `WithinBudget` | `[]ReusableRowsMatch`, `[]ContextIsPrompt`, `[]RetainedWithinBudget`, for any vocabulary, prompts, sizes, formats and budgets | below |
| `ConversationKept`, `SnapshotsWithinLimits` | `DisplacedIsKept`, `[]SnapshotsBounded` | below |
| `WarmIsCold` | `Spec /\ []SourceIsExact => ImplementsColdCompletion` | below |
| `SourceExact`, `WarmAnswersAsCold` | `[]SourceIsExact`, `ImplementsColdCompletion`, where `LogitsApart` holds | below |

*MobileEngine.* `LifeInv` plays the part of `LockInv`: between the read lock and its release a thread is among `life`'s
readers, whoever owns the lock has seen them all leave, and nobody is both a reader and waiting to become one. With it the
model a user found is still the engine's (`MineInv`), and the mapped model is the engine's or what the one writer took out
(`OpenInv`), so that a release replaces the model while the slot is idle and retires it afterwards.

*MistralKVPrefix.* `FenceHolds` speaks of steps; what makes it inductive is `Fence` (a request's epoch is at most the
cache's, and below it once a boundary passed) and `Owner` (`genLock` belongs to whoever is at a line between `Start` and the
end). `InsertStores` and the `...Keeps` lemmas
about `Touch`, `Without` and `MakeRoom` show that eviction only removes. The account (`Account`: the order lists each key once, the byte
count is the sum over the entries, both limits hold) needs facts about that sum, which the library defines by a recursive function over
subsets: `SumsExist` and `SumsAgree` build the function and show it unique, `BytesWithout`, `BytesSame` and `BytesLeft` follow by an induction over the
subsets of a finite set that is proved from the least cardinality (`SetInduction`). `AccountTouched`, `AccountWithout`, `AccountRoom` and `AccountAdded`
then treat the list of keys and the sum together, one lemma per thing that happens to a cache.

*ChatHistory.* The ETag stays the file's version from the comparison to the rename (`Compared`), because the lock belongs to
one tab (`HistoryLocked`, `HistoryCompared`); a file is renamed only after its sync.

*RagStore.* `SnapshotCurrent` speaks of a moment without pending saves. Inductive with it is `TempCurrent`: what is encoded is the index, or a
request that changed the index since still waits to save it; two encodings cannot overtake each other because `saveMu` is held to the rename (`SaveLocked`).

*LiveSessions.* A flag (`active`, a model's `active`) is taken exactly when one owner exists, and an owner is a request on its way or a living
session: `OneOwner` says so for two sets and a flag, and each step takes, passes on or gives back (`OwnerTakes`, `OwnerPasses`, `OwnerLeaves`). Which owner a request
may give back depends on what it holds at its line (`RequestsAt`), and that weights outlive the cache entry on `Lifetimes`. With batch transcription the model is
reserved for a push, otherwise for a session's life, hence the case split on `batch`.

*SpeculativeDecode.* `DecodeInv` has one clause per stage: between requests the advertised tokens are resident (`Advertised`), outside a block the state is that
of the resident tokens (`Settled`), inside one the rows are those of the whole block, the checkpoint is the boundary before it, and hidden states and predictions are those of the
block's beginnings (`Speculating`). That a rejection takes back exactly the block needs what was *not* overwritten: rows behind the boundary may be anything, so every
clause speaks of the first rows only. Losslessness follows because a prediction is compared under the penalty history of its own position.

*BlobDownload.* That two holders work on different blobs rests on the life of the lock entry: a user finds its entry in the
map (`EntryFound`), users of an entry have one blob (`OneBlob`), an entry in the map has a user (`EntryUsed`), the count is
the number of users (`UsersCounted`, with the library's cardinality facts), and the token in the channel is the holder's
(`TokenHeld`). None of them is inductive alone: without the exact count the last user could not be told from one of two.
`PublishedWhole` adds what the calls know of the disk (`DiskInv`): a partial file is a beginning of its blob, a transfer writes where
that file ends and what it replaces is not whole (`Transferring`, which needs `OneWriter`), a file without a task is there in full (`Skipped`), one that was
fetched stays so (`Fetched`), and the links of a commit lead to complete blobs (`LinksWhole`). A reference without sizes may remove, replace and cut short what is not complete, but never a complete
blob; so the clauses ask completeness only of calls that know their sizes (`Sized`) and of commits all of whose references do (`Measured`), and
`SizesKnown` relates the two. All but `KnownWhole` and `Transferring` are claimed only when no two references name one commit, since `link_race` breaks them.

*ModelHotSwap.* `ChatLock` and `EmbedLock` say which lines are inside the two state locks and that a writer past `drain` is alone there;
`Callbacks` that a route works with the model installed under the lock it holds, `Closing` that one `Close` at a time is past `closeOnce`. `Released` says, for
each line of `Close`, which slots it has emptied: what is installed after that came from a load it overtook, which is what `CloseReleases` needs. `Serial` gives `modelLoadMu` and `autoTuneMu` to whoever is between their lines, without which a second load could swap between
the first one's swap and its callback. `Brought` and `Apart` follow a loaded runner: it is with its loader, installed, or taken out to be closed,
and in one of these places only. `Slots` counts semaphore tokens and requests past `withLimit` (`SlotKept`, `SlotTaken`, `SlotGiven`).

*RowWorkerPool.* `Owners` puts each pooled object with one dispatch or in its `sync.Pool`, `JobsSent` ties every job, queued or with a worker,
to a dispatch that leases its pool, and `Leases` makes `active` the number of lessees: hence a stopped pool is empty. `PerCall` relates
one dispatch's variables, its object, and the jobs and workers that refer to it: the WaitGroup counts what is queued, running and unsent
(`Counted`), a chunk has been run exactly if it was given out and nobody holds it any more (`RunOnce`), and nobody holds two or shares one
(`Claims`). That a dispatch past `Wait` has no participant left, which is what lets its object be pooled again, needs all of them. The lemmas `Sharing...`
state each step on values alone, so that another dispatch's step, which leaves these values, keeps them.
The arithmetic of the cuts (`RowsPartitioned`) turns chunks into rows.

*PromptCache.* `IInv` has one clause per stage of `generateChatStreamUntil`: an admitted request fits its cache and retires the metadata if it may not
use it (`Admitted`), the rows chosen for reuse are its prompt's (`Reused`), and from the first write to the end nothing of the rows in use is advertised and
they are the prompt's and the answer's (`Written`); at rest, resident rows and snapshots match their tokens and the workspace is within the budget (`Budgeted`). `Written` is what a
cancellation needs and what `ReusableRowsMatch`, which speaks of the metadata only, does not say. The lemmas on beginnings of texts, the longest common prefix and
copied rows carry it. For the limits, `Lean` says that the snapshots' sizes sum to at most the limit, that they are few enough and that none repeats another; the sum over a
sequence is a recursive function, whose equations are derived from the well-foundedness of the naturals.

`SourceIsExact` (the first token comes from complete, unpenalised logits, or a greedy choice, of this prompt) does *not* hold of the code without condition:
section 6 lists the three ways to stale or penalised logits. `SourceExact` therefore assumes `LogitsApart`, which excludes exactly these: prompts are prefilled
in batches, a head that materialises its logits meets no penalty other than 1, and no cache exceeds the retention budget. `MCPromptCache` is such an instance. Its invariant
(`LInv`) follows the one live buffer: metadata without logits has a greedy choice made without any, and the buffer is still empty (`Remembered`); during a prefill the
buffer is empty or holds the last row's logits (`Prepared`); what is captured for an identical prompt was taken before the first penalty (`Captured`).
`WarmIsCold` has no such condition: it says that the source of the first token is all that a warm and a cold completion can differ in.

Model-checked only: all liveness (`CallsReturn` of RunnerLifecycle and of MobileEngine, `ReplacementEnds`, `LockTurns`, `DownloadsReturn`; fairness and `ENABLED`
are beyond the prover). Every invariant, refinement and other action property of the passing runs is also proved; `SourceIsExact` and with it the refinement
of ColdCompletion by PromptCache under `LogitsApart`, as said above.

## 6. Where code and comments disagree

Two are runs that must be violated:

* `stale_logits_serial`: after a serial greedy prefill that reduces the output on the device, no logits of
  this prompt exist, yet the buffer of an earlier one is kept as `promptLogits`; an identical sampled
  request starts from it.
* `link_race`: two references to one commit download at the same time. `linkHFCacheFile` runs outside the blob's lock; the second
  call's symlink and hard link fail because the first one's link is there, and its fallback copy (`internal/huggingface/huggingface.go:1314`)
  truncates the finished blob through that link. `PublishedComplete` therefore excepts such references.

Others were found by the models and can be reproduced with small instances of them:

* `/agentos/propose` (`server/agentos_routes.go:58`) is not among the routes that `server/middleware.go:96-98` checks for a loaded model and
  uses a nil Runner on a server started without one (`Proposers` with no initial model: a state with `pc[p] = "use"` and `mine[p] = None`).
* By that comment such routes "return a clear 503 until the user chooses a model instead of dereferencing a nil Runner". The check gives up its lock before the route takes
  it again, and `Close` may empty the slot in between: `/generate` and the Ollama routes (`server/openai_routes.go:27`, `server/ollama_routes.go:26`, `:54`) then use
  nil (the same state, for `Natives` and `Ollamas`). The panic is recovered by net/http and the deferred unlock and slot release run, so nothing else is
  affected; the `/v1` routes check again under the lock.
* `DownloadFiles` compares a cached file with the listed size (`internal/huggingface/artifacts.go:171-172`), which is 0 where the repository lists none: it queues
  a file that is there, and `linkHFCacheFile` removes the link of a commit that is already published (`internal/huggingface/huggingface.go:1299`). A crash there leaves a published
  commit without the file, although "refs are published only
  after the entire requested set succeeds" (`artifacts.go:130-131`). For the same references a range that ends early or a response without
  length is stored as the whole file (`huggingface.go:1143`). `PublishedComplete` excepts commits of such references; without `Measured(c)` it is violated.
* `server/runner_state.go:95` says all inference paths hold the chat model's read lock; requests served by the dedicated embedder
  hold only the embedder's (`server/context_lock.go:42-46`), so calibration and a swap change the process-wide knobs while they compute.
* `mobile/engine.go`: `Unload` and `Close` cancel once, before waiting for the writer lock (`:104`, `:91`). A
  generation that starts or arms its cancel function afterwards is waited for, not cancelled.

Met while modelling and not given a run of their own: logits penalised in place by the materialising output head
(`engine/model_forward.go:60`) are kept as a prompt's (set `OutputHead = "materialize"` and `Penalties = {1, 2}` and
check `SourceIsExact`); the same property fails in `MCPromptCacheBudget.cfg` after a request in a
one-off cache (`engine/runtime.go:274-281`, `:416`); after `Serve`'s five-second `Shutdown` a `/models/load` that is still reading
may install its runner into a closed handler (`server/server.go:153-155` against `:181-182`), the exception `overtaken` of `CloseReleases`.

## 7. Not modelled, and the plan

In order of what they would add:

1. Proofs: the composition of 5. below, and `PublishedComplete` for references that name one commit or list no sizes, once `linkHFCacheFile` and
   `DownloadFiles` are repaired.
2. **ChatMemory**: recall, consolidation, checkpoints and restore of one session.
3. **DownloadJobs**: the job table with progress, cancellation and the catalog refresh; several processes on one cache.
4. **AutotuneFile**: the saved calibration, written in place and checked when read.
5. The composition of PromptCache with the static prefix and the speculative block, which `generateChatStreamUntil` calls in
   sequence under one lock; at present each is checked with the part of the workspace it touches.
6. The JSON constraint automaton and the prompt-lookup search as pure algorithms against a reference definition.

Not planned: Hestia and the CSV workbench (applications of their own), agent loop, tools and policy (sequential text
processing), model formats, graphs, kernels and device backends (floating point, binary parsing), tokenizers, request decoding and
wire formats. These are most of the repository's lines; what they share with other goroutines is in the models above.

Limits of the present models: loading a model is one step that succeeds or fails; a nested dispatch from inside a
row job does not occur in the code and is excluded; the text of responses, wire formats, chunking and numerical
results are left out; the speculative and the Mistral-prefix branches of `generateChatStreamUntil` are not taken in PromptCache;
the adaptive draft window, which compares measured times, is any number of drafts; the Parakeet, vision and image caches repeat
the Voxtral cache's eviction without sessions.
