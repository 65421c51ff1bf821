---------------------------- MODULE ModelHotSwap ----------------------------
(***************************************************************************)
(* The server's two replaceable models: runnerState (chat) and              *)
(* embeddingState (the optional dedicated embedder), each a runner behind a *)
(* sync.RWMutex, and the routes that meet there.                            *)
(*                                                                          *)
(*   Natives      /generate: precheck, slot, withRunnerContext              *)
(*   Ollamas      /api/generate, /api/chat: precheck, slot, withRunner      *)
(*   Proposers    /agentos/propose: slot, withRunner, no precheck           *)
(*   Embeds       /v1/embeddings: slot, withEmbeddingRunnerContext          *)
(*   Loaders      /models/load: load, then swap and ModelLoaded under       *)
(*                modelLoadMu                                               *)
(*   EmbedLoaders /models/embed/load                                        *)
(*   Tuners       /autotune/run: calibration under the writer lock          *)
(*   Closers      Handler.Close                                             *)
(*                                                                          *)
(* Every route is called any number of times; each load opens a new runner, *)
(* so Runners bounds the number of loads.                                   *)
(***************************************************************************)
EXTENDS Naturals, FiniteSets

CONSTANTS
    Natives, Ollamas, Proposers, Embeds, Loaders, EmbedLoaders, Tuners, Closers,
    Runners,        \* runner objects; one of them may be there from the start
    MaxRequests,    \* HandlerOptions.MaxConcurrentRequests, per category
    Baseline,       \* the process tuning captured before any calibration
    Trial,          \* some tuning calibration is just measuring
    None

Chatters == Natives \cup Ollamas \cup Proposers
Writers  == Loaders \cup EmbedLoaders \cup Tuners \cup Closers
Requests == Chatters \cup Embeds \cup Loaders \cup EmbedLoaders \cup Tuners
Proc     == Chatters \cup Embeds \cup Writers

ASSUME RoutesAssumption ==
    /\ Natives \cap Ollamas = {} /\ (Natives \cup Ollamas) \cap Proposers = {}
    /\ Chatters \cap Embeds = {} /\ (Chatters \cup Embeds) \cap Writers = {}
    /\ Loaders \cap EmbedLoaders = {} /\ Tuners \cap Closers = {}
    /\ (Loaders \cup EmbedLoaders) \cap (Tuners \cup Closers) = {}
    /\ IsFiniteSet(Requests)
    /\ None \notin Proc \cup Runners
    /\ Baseline # Trial /\ {Baseline, Trial} \cap Runners = {}
    /\ MaxRequests \in Nat \ {0}

VARIABLES
    pc,
    mine,      \* the runner a route works with or has loaded
    old,       \* the runner a swap or Close has taken out and must close
    chat,      \* runnerState: its mu, its r, and whether autoTune is set
    embed,     \* embeddingState: its mu and its r
    knobs,     \* the process-wide tuning: Baseline, Trial, or measured for a runner
    open,      \* runners loaded and not yet closed
    loaded,    \* runners ever loaded
    loadMu,    \* the holder of modelLoadMu
    told,      \* the runner of the last ModelLoaded callback
    tuneMu,    \* the holder of autoTuneMu
    slots,     \* tokens in each category's semaphore
    closeOnce, \* "no", "running" or "done"
    overtaken  \* history: the runners brought by loads that Close has overtaken

vars == <<pc, mine, old, chat, embed, knobs, open, loaded, loadMu, told, tuneMu,
          slots, closeOnce, overtaken>>

RW == INSTANCE GoRWMutex

Categories == {"chat", "model", "autotune", "agent"}

Category(p) ==
    IF p \in Proposers THEN "agent"
    ELSE IF p \in Tuners THEN "autotune"
    ELSE IF p \in Loaders \cup EmbedLoaders THEN "model"
    ELSE "chat"

\* needsLoadedModel: the routes whose path the middleware checks.
Prechecked(p) == p \in Natives \cup Ollamas \cup Tuners

PC == {"idle", "enter", "pick", "lock", "blocked", "use", "load", "serial",
       "announce", "drain", "close", "announceE", "drainE", "closeE",
       "calibrate", "tell", "clear", "once"}

TypeOK ==
    /\ pc \in [Proc -> PC]
    /\ mine \in [Proc -> Runners \cup {None}]
    /\ old \in [Proc -> Runners \cup {None}]
    /\ chat \in [mu : RW!Lock, r : Runners \cup {None}, tuned : BOOLEAN]
    /\ embed \in [mu : RW!Lock, r : Runners \cup {None}]
    /\ knobs \in Runners \cup {Baseline, Trial}
    /\ open \subseteq loaded /\ loaded \subseteq Runners
    /\ loadMu \in Loaders \cup {None}
    /\ told \in Runners \cup {None}
    /\ tuneMu \in Tuners \cup {None}
    /\ slots \in [Categories -> 0 .. MaxRequests]
    /\ closeOnce \in {"no", "running", "done"}
    /\ overtaken \subseteq loaded

\* NewHandler: with or without an initial runner, which the host may have tuned.
Init ==
    /\ pc = [p \in Proc |-> "idle"]
    /\ mine = [p \in Proc |-> None]
    /\ old = [p \in Proc |-> None]
    /\ \E r \in Runners \cup {None}, tuned \in BOOLEAN :
         /\ tuned => r # None
         /\ chat = [mu |-> RW!Unlocked, r |-> r, tuned |-> tuned]
         /\ knobs = IF tuned THEN r ELSE Baseline
         /\ loaded = {r} \ {None}
    /\ embed = [mu |-> RW!Unlocked, r |-> None]
    /\ open = loaded
    /\ loadMu = None /\ told = None /\ tuneMu = None
    /\ slots = [c \in Categories |-> 0]
    /\ closeOnce = "no" /\ overtaken = {}

Goto(p, from, to) == pc[p] = from /\ pc' = [pc EXCEPT ![p] = to]
Enter(p) == slots' = [slots EXCEPT ![Category(p)] = @ + 1]
Leave(p) == slots' = [slots EXCEPT ![Category(p)] = @ - 1]

hold   == <<mine, old>>
models == <<chat, embed, knobs, open, loaded>>
loads  == <<loadMu, told, tuneMu>>
host   == <<closeOnce, overtaken>>

-----------------------------------------------------------------------------
(* remoteOrLoadedModel and withLimit, in front of every route.  A request  *)
(* may come at any time: it is the host, not the handler, that keeps them   *)
(* out once Close begins.  One turned away at the door leaves no trace.     *)

\* The checked paths read the loaded model under a read lock of their own, which
\* is given up again before the route runs.  Without a model: 503.
Check(p) ==
    /\ Prechecked(p)
    /\ RW!Shared(chat.mu) /\ chat.r # None
    /\ Goto(p, "idle", "enter")
    /\ UNCHANGED <<hold, models, loads, slots, host>>

\* The first step of each route's handler.
AfterAdmission(p) ==
    IF p \in Embeds THEN "pick"
    ELSE IF p \in Chatters THEN "lock"
    ELSE IF p \in Tuners THEN "serial" ELSE "load"

\* Where a request stands when it comes to withLimit.
Door(p) == IF Prechecked(p) THEN "enter" ELSE "idle"

\* withLimit: a free slot, or 429 at once.
Admit(p) ==
    /\ Goto(p, Door(p), AfterAdmission(p))
    /\ slots[Category(p)] < MaxRequests
    /\ Enter(p)
    /\ UNCHANGED <<hold, models, loads, host>>

Refuse(p) ==
    /\ slots[Category(p)] = MaxRequests
    /\ Goto(p, Door(p), "idle")
    /\ UNCHANGED <<hold, models, loads, slots, host>>

-----------------------------------------------------------------------------
(* Readers: withRunnerContext, withRunner, withEmbeddingRunnerContext.      *)

\* The request's context is done while readLockContext polls.
GiveUp(p) ==
    /\ p \in Natives \cup Embeds
    /\ pc[p] \in {"pick", "lock"}
    /\ pc' = [pc EXCEPT ![p] = "idle"]
    /\ Leave(p)
    /\ UNCHANGED <<hold, models, loads, host>>

\* withEmbeddingRunnerContext: the dedicated embedder, its lock kept for the
\* whole callback; without one the lock is given up and the chat model serves.
PickEmbedder(p) ==
    /\ RW!Shared(embed.mu)
    /\ IF embed.r = None
       THEN Goto(p, "pick", "lock") /\ UNCHANGED <<mine, embed>>
       ELSE /\ Goto(p, "pick", "use")
            /\ mine' = [mine EXCEPT ![p] = embed.r]
            /\ embed' = [embed EXCEPT !.mu = RW!AfterRLock(@, p)]
    /\ UNCHANGED <<old, chat, knobs, open, loaded, loads, slots, host>>

\* The read lock of the chat model at once; what the callback gets is s.r.
ReadLock(p) ==
    /\ RW!Shared(chat.mu)
    /\ Goto(p, "lock", "use")
    /\ mine' = [mine EXCEPT ![p] = chat.r]
    /\ chat' = [chat EXCEPT !.mu = RW!AfterRLock(@, p)]
    /\ UNCHANGED <<old, embed, knobs, open, loaded, loads, slots, host>>

\* RLock behind an announced writer, and the moment the writer's Unlock lets it in.
Block(p) ==
    /\ p \in Ollamas \cup Proposers /\ ~RW!Shared(chat.mu)
    /\ Goto(p, "lock", "blocked")
    /\ chat' = [chat EXCEPT !.mu = RW!AfterBlockedRLock(@, p)]
    /\ UNCHANGED <<hold, embed, knobs, open, loaded, loads, slots, host>>

Unblock(p) ==
    /\ p \in chat.mu.readers
    /\ Goto(p, "blocked", "use")
    /\ mine' = [mine EXCEPT ![p] = chat.r]
    /\ UNCHANGED <<old, models, loads, slots, host>>

\* The callback returns (or refuses a nil runner, or panics with it), the deferred
\* unlock runs, and then the deferred slot release.
Finish(p) ==
    /\ Goto(p, "use", "idle")
    /\ mine' = [mine EXCEPT ![p] = None]
    /\ chat' = [chat EXCEPT !.mu = RW!AfterRUnlock(@, p)]
    /\ embed' = [embed EXCEPT !.mu = RW!AfterRUnlock(@, p)]
    /\ Leave(p)
    /\ UNCHANGED <<old, knobs, open, loaded, loads, host>>

-----------------------------------------------------------------------------
(* /models/load and /models/embed/load                                      *)

\* RunnerFromPathWithOptions, before any lock.
Load(p, r) ==
    /\ r \notin loaded
    /\ Goto(p, "load", IF p \in Loaders THEN "serial" ELSE "announceE")
    /\ mine' = [mine EXCEPT ![p] = r]
    /\ open' = open \cup {r}
    /\ loaded' = loaded \cup {r}
    /\ overtaken' = IF closeOnce = "no" THEN overtaken ELSE overtaken \cup {r}
    /\ UNCHANGED <<old, chat, embed, knobs, loads, slots, closeOnce>>

LoadFails(p) ==
    /\ Goto(p, "load", "idle")
    /\ Leave(p)
    /\ UNCHANGED <<hold, models, loads, host>>

\* modelLoadMu.Lock()
Serialize(p) ==
    /\ p \in Loaders /\ loadMu = None
    /\ Goto(p, "serial", "announce")
    /\ loadMu' = p
    /\ UNCHANGED <<hold, models, told, tuneMu, slots, host>>

\* state.mu.Lock(): first it keeps new readers out, then the earlier ones drain.
Announce(p) ==
    /\ chat.mu.writer = None
    /\ Goto(p, "announce", "drain")
    /\ chat' = [chat EXCEPT !.mu = RW!AfterAnnounce(@, p)]
    /\ UNCHANGED <<hold, embed, knobs, open, loaded, loads, slots, host>>

Owns(p) == pc[p] = "drain" /\ chat.mu.writer = p /\ RW!Exclusive(chat.mu)

\* Defect: the tuning measured for the old model stays in effect.
SwapKeepsTuning(p) ==
    /\ p \in Loaders /\ Owns(p)
    /\ pc' = [pc EXCEPT ![p] = "close"]
    /\ old' = [old EXCEPT ![p] = chat.r]
    /\ chat' = [mu |-> RW!AfterUnlock(chat.mu), r |-> mine[p], tuned |-> FALSE]
    /\ UNCHANGED <<mine, embed, knobs, open, loaded, loads, slots, host>>

\* Defect: the swap does not wait for the readers.
SwapAtOnce(p) ==
    /\ p \in Loaders /\ pc[p] = "drain"
    /\ pc' = [pc EXCEPT ![p] = "close"]
    /\ old' = [old EXCEPT ![p] = chat.r]
    /\ chat' = [mu |-> RW!AfterUnlock(chat.mu), r |-> mine[p], tuned |-> FALSE]
    /\ knobs' = Baseline
    /\ UNCHANGED <<mine, embed, open, loaded, loads, slots, host>>

\* Defect: the replaced runner is forgotten.
SwapForgets(p) ==
    /\ p \in Loaders /\ Owns(p)
    /\ pc' = [pc EXCEPT ![p] = "close"]
    /\ chat' = [mu |-> RW!AfterUnlock(chat.mu), r |-> mine[p], tuned |-> FALSE]
    /\ knobs' = Baseline
    /\ UNCHANGED <<mine, old, embed, open, loaded, loads, slots, host>>

\* Defect: readers that blocked behind the swap are not let in.
SwapStrands(p) ==
    /\ p \in Loaders /\ Owns(p)
    /\ pc' = [pc EXCEPT ![p] = "close"]
    /\ old' = [old EXCEPT ![p] = chat.r]
    /\ chat' = [mu |-> RW!Unlocked, r |-> mine[p], tuned |-> FALSE]
    /\ knobs' = Baseline
    /\ UNCHANGED <<mine, embed, open, loaded, loads, slots, host>>

\* runnerState.swap up to Unlock: the new runner, the baseline tuning.
Swap(p) ==
    /\ p \in Loaders /\ Owns(p)
    /\ pc' = [pc EXCEPT ![p] = "close"]
    /\ old' = [old EXCEPT ![p] = chat.r]
    /\ chat' = [mu |-> RW!AfterUnlock(chat.mu), r |-> mine[p], tuned |-> FALSE]
    /\ knobs' = Baseline
    /\ UNCHANGED <<mine, embed, open, loaded, loads, slots, host>>

\* old.Close(), outside the lock.
CloseOld(p) ==
    /\ Goto(p, "close", IF p \in Loaders THEN "tell" ELSE "clear")
    /\ open' = open \ {old[p]}
    /\ old' = [old EXCEPT ![p] = None]
    /\ UNCHANGED <<mine, chat, embed, knobs, loaded, loads, slots, host>>

\* Defect: the callback runs after modelLoadMu has been released.
TellUnlocked(p) ==
    /\ pc[p] = "tell"
    /\ IF loadMu = p
       THEN loadMu' = None /\ UNCHANGED <<pc, mine, told, slots>>
       ELSE /\ pc' = [pc EXCEPT ![p] = "idle"]
            /\ told' = mine[p]
            /\ mine' = [mine EXCEPT ![p] = None]
            /\ Leave(p)
            /\ UNCHANGED loadMu
    /\ UNCHANGED <<old, models, tuneMu, host>>

\* opts.ModelLoaded(path), then the deferred modelLoadMu.Unlock and the answer.
Tell(p) ==
    /\ Goto(p, "tell", "idle")
    /\ told' = mine[p]
    /\ loadMu' = None
    /\ mine' = [mine EXCEPT ![p] = None]
    /\ Leave(p)
    /\ UNCHANGED <<old, models, tuneMu, host>>

\* embeddingState.mu.Lock(), of /models/embed/load and of Close.
AnnounceEmbedder(p) ==
    /\ embed.mu.writer = None
    /\ Goto(p, "announceE", "drainE")
    /\ embed' = [embed EXCEPT !.mu = RW!AfterAnnounce(@, p)]
    /\ UNCHANGED <<hold, chat, knobs, open, loaded, loads, slots, host>>

\* Defect: the embedder is replaced under its readers.
SwapEmbedderAtOnce(p) ==
    /\ pc[p] = "drainE"
    /\ pc' = [pc EXCEPT ![p] = "closeE"]
    /\ old' = [old EXCEPT ![p] = embed.r]
    /\ embed' = [mu |-> RW!AfterUnlock(embed.mu), r |-> mine[p]]
    /\ mine' = [mine EXCEPT ![p] = None]
    /\ UNCHANGED <<chat, knobs, open, loaded, loads, slots, host>>

\* embeddingState.swap and close up to Unlock.
SwapEmbedder(p) ==
    /\ pc[p] = "drainE" /\ RW!Exclusive(embed.mu)
    /\ pc' = [pc EXCEPT ![p] = "closeE"]
    /\ old' = [old EXCEPT ![p] = embed.r]
    /\ embed' = [mu |-> RW!AfterUnlock(embed.mu), r |-> mine[p]]
    /\ mine' = [mine EXCEPT ![p] = None]
    /\ UNCHANGED <<chat, knobs, open, loaded, loads, slots, host>>

\* Defect: the dedicated embedder's error ends Close early.
CloseOldEmbedderOnly(p) ==
    /\ Goto(p, "closeE", IF p \in EmbedLoaders THEN "idle" ELSE "clear")
    /\ open' = open \ {old[p]}
    /\ old' = [old EXCEPT ![p] = None]
    /\ IF p \in EmbedLoaders THEN Leave(p) ELSE UNCHANGED slots
    /\ UNCHANGED <<mine, chat, embed, knobs, loaded, loads, host>>

\* old.Close(), outside the lock.  Close goes on with the chat model.
CloseOldEmbedder(p) ==
    /\ Goto(p, "closeE", IF p \in EmbedLoaders THEN "idle" ELSE "announce")
    /\ open' = open \ {old[p]}
    /\ old' = [old EXCEPT ![p] = None]
    /\ IF p \in EmbedLoaders THEN Leave(p) ELSE UNCHANGED slots
    /\ UNCHANGED <<mine, chat, embed, knobs, loaded, loads, host>>

-----------------------------------------------------------------------------
(* /autotune/run                                                            *)

\* autoTuneMu.TryLock()
LockTuning(p) ==
    /\ p \in Tuners /\ tuneMu = None
    /\ Goto(p, "serial", "announce")
    /\ tuneMu' = p
    /\ UNCHANGED <<hold, models, loadMu, told, slots, host>>

\* 409, already running; or 400, an unknown effort, with the lock given back.
RefuseTuning(p) ==
    /\ p \in Tuners
    /\ Goto(p, "serial", "idle")
    /\ Leave(p)
    /\ UNCHANGED <<hold, models, loads, host>>

\* runAutoTune owns the lock: AutoTune applies one trial after another.
Calibrate(p) ==
    /\ p \in Tuners /\ Owns(p) /\ chat.r # None
    /\ pc' = [pc EXCEPT ![p] = "calibrate"]
    /\ knobs' = Trial
    /\ UNCHANGED <<hold, chat, embed, open, loaded, loads, slots, host>>

\* No model, an out-of-core model: an error before any trial.
CalibrationFails(p) ==
    /\ p \in Tuners /\ Owns(p)
    /\ pc' = [pc EXCEPT ![p] = "idle"]
    /\ chat' = [chat EXCEPT !.mu = RW!AfterUnlock(@)]
    /\ tuneMu' = None
    /\ Leave(p)
    /\ UNCHANGED <<hold, embed, knobs, open, loaded, loadMu, told, host>>

\* The measured result, or the cached one without any trial, is in effect.
Calibrated(p) ==
    /\ p \in Tuners
    /\ pc[p] = "calibrate" \/ (Owns(p) /\ chat.r # None)
    /\ pc' = [pc EXCEPT ![p] = "idle"]
    /\ knobs' = chat.r
    /\ chat' = [chat EXCEPT !.mu = RW!AfterUnlock(@), !.tuned = TRUE]
    /\ tuneMu' = None
    /\ Leave(p)
    /\ UNCHANGED <<hold, embed, open, loaded, loadMu, told, host>>

-----------------------------------------------------------------------------
(* Handler.Close                                                            *)

\* A route has loaded a runner that is not installed yet.
Bringing(p) == \/ p \in Loaders /\ pc[p] \in {"serial", "announce", "drain"}
               \/ p \in EmbedLoaders /\ pc[p] \in {"announceE", "drainE"}

\* closeOnce.Do: the first caller closes, later ones wait for it.  Nothing in Close
\* waits for the routes on their way: Serve gives them five seconds, a host may give none.
BeginClose(p) ==
    /\ p \in Closers
    /\ closeOnce = "no"
    /\ Goto(p, "idle", "announceE")
    /\ closeOnce' = "running"
    /\ overtaken' = {mine[q] : q \in {l \in Loaders \cup EmbedLoaders : Bringing(l)}}
    /\ UNCHANGED <<hold, models, loads, slots>>

WaitClose(p) ==
    /\ p \in Closers /\ closeOnce = "running"
    /\ Goto(p, "idle", "once")
    /\ UNCHANGED <<hold, models, loads, slots, host>>

WaitedClose(p) ==
    /\ closeOnce = "done"
    /\ Goto(p, "once", "idle")
    /\ UNCHANGED <<hold, models, loads, slots, host>>

\* runnerState.close up to Unlock.
ClearChat(p) ==
    /\ p \in Closers /\ Owns(p)
    /\ pc' = [pc EXCEPT ![p] = "close"]
    /\ old' = [old EXCEPT ![p] = chat.r]
    /\ chat' = [mu |-> RW!AfterUnlock(chat.mu), r |-> None, tuned |-> FALSE]
    /\ UNCHANGED <<mine, embed, knobs, open, loaded, loads, slots, host>>

EndClose(p) ==
    /\ Goto(p, "clear", "idle")
    /\ closeOnce' = "done"
    /\ UNCHANGED <<hold, models, loads, slots, overtaken>>

-----------------------------------------------------------------------------
Read(p) == GiveUp(p) \/ PickEmbedder(p) \/ ReadLock(p) \/ Block(p) \/ Unblock(p) \/ Finish(p)

LoadModel(p) ==
    \/ (\E r \in Runners : Load(p, r)) \/ LoadFails(p) \/ Serialize(p)
    \/ Announce(p) \/ Swap(p) \/ CloseOld(p) \/ Tell(p)
    \/ AnnounceEmbedder(p) \/ SwapEmbedder(p) \/ CloseOldEmbedder(p)

Tune(p) == LockTuning(p) \/ RefuseTuning(p) \/ Announce(p) \/ Calibrate(p) \/ CalibrationFails(p) \/ Calibrated(p)

Close(p) ==
    \/ BeginClose(p) \/ WaitClose(p) \/ WaitedClose(p) \/ EndClose(p)
    \/ AnnounceEmbedder(p) \/ SwapEmbedder(p) \/ CloseOldEmbedder(p)
    \/ Announce(p) \/ ClearChat(p) \/ CloseOld(p)

Next ==
    \/ \E p \in Requests : Check(p) \/ Admit(p) \/ Refuse(p)
    \/ \E p \in Chatters \cup Embeds : Read(p)
    \/ \E p \in Loaders \cup EmbedLoaders : LoadModel(p)
    \/ \E p \in Tuners : Tune(p)
    \/ \E p \in Closers : Close(p)

Spec == Init /\ [][Next]_vars

-----------------------------------------------------------------------------
(* Properties.                                                              *)

UsingChat(p) == pc[p] = "use" /\ p \in chat.mu.readers
UsingEmbedder(p) == pc[p] = "use" /\ p \in embed.mu.readers

\* "Close releases the currently active chat and embedding runners" (Handler), with
\* requests, calibrations and loads still on their way: when it returns, no runner that
\* was installed when it began is open, unless a load has replaced it and is closing it.
\* Only what a load that Close overtook has brought may be left.
CloseReleases ==
    closeOnce = "done" => open \subseteq overtaken \cup {old[q] : q \in Loaders \cup EmbedLoaders}

\* Outside the writer lock the process-wide knobs are those measured for the
\* model being served, or the baseline when it has not been tuned.
TuningBelongsToModel ==
    chat.mu.writer = None /\ chat.r # None => knobs = IF chat.tuned THEN chat.r ELSE Baseline

\* Every open runner is installed, or in the hands of the one route that will
\* install or close it: no replaced model is lost, also while the handler closes.
EveryRunnerOwned ==
    open = ({chat.r, embed.r} \cup {old[p] : p \in Writers}
            \cup {mine[p] : p \in {q \in Loaders \cup EmbedLoaders : Bringing(q)}}) \ {None}

\* modelLoadMu: whenever no replacement is under way, the host's last ModelLoaded
\* callback named the model that is really being served.
CallbackNamesServedModel ==
    loadMu = None /\ told # None /\ closeOnce = "no" => told = chat.r

\* A category's semaphore holds one token for each of its requests past withLimit.
SlotsExact ==
    \A c \in Categories :
      slots[c] = Cardinality({p \in Requests : Category(p) = c /\ pc[p] \notin {"idle", "enter"}})

\* Nothing that one route takes and another step gives back is lost or given back
\* twice: runners by Close, swap or an early return, slots by withLimit.
NothingLeaked == TypeOK /\ EveryRunnerOwned /\ SlotsExact

\* swap's comment: "no generation observes a mixture of old and restored
\* process-global knobs": they never change under a callback of the chat model.
\* (The dedicated embedder has a lock of its own: a swap may change them under it.)
TuningFixedDuringChat == [][(\E p \in Proc : UsingChat(p)) => knobs' = knobs]_vars

\* The chat model and the embedder each are a ModelSlot.
Slot(mu, r) == [p \in Proc |-> IF pc[p] = "use" /\ p \in mu.readers THEN mine[p] ELSE None]

ChatSlot == INSTANCE ModelSlot WITH
    Model <- Runners, current <- chat.r, closed <- loaded \ open, using <- Slot(chat.mu, chat.r)
EmbedSlot == INSTANCE ModelSlot WITH
    Model <- Runners, current <- embed.r, closed <- loaded \ open, using <- Slot(embed.mu, embed.r)

\* Requests work with one model from beginning to end, and it is open all the
\* while: "the lock is kept for the entire callback" (withRunner, swap, close).
ImplementsModelSlots == ChatSlot!Spec /\ EmbedSlot!Spec

-----------------------------------------------------------------------------
(* Liveness: goroutines are scheduled, generations and loads end, and a     *)
(* lock that stays free is taken.  Polling readers are promised nothing     *)
(* while writers keep coming; blocked ones are let in by the next Unlock.   *)

\* The steps of a route that has been called: its own code, no arrival, no
\* client that gives up, no load (which may always fail instead).
Proceed(p) ==
    \/ pc[p] = "enter" /\ (Admit(p) \/ Refuse(p))
    \/ p \in Ollamas \cup Proposers /\ (ReadLock(p) \/ Block(p))
    \/ Unblock(p) \/ Finish(p)
    \/ LoadFails(p) \/ Serialize(p) \/ Announce(p) \/ Swap(p) \/ CloseOld(p) \/ Tell(p)
    \/ AnnounceEmbedder(p) \/ SwapEmbedder(p) \/ CloseOldEmbedder(p)
    \/ LockTuning(p) \/ RefuseTuning(p) \/ CalibrationFails(p) \/ Calibrated(p)
    \/ WaitedClose(p) \/ ClearChat(p) \/ EndClose(p)

\* Strong for writers: a sync.Mutex, and so a writer's turn, is handed on in order.
Fairness ==
    /\ \A p \in Chatters \cup Embeds : WF_vars(Proceed(p))
    /\ \A p \in Writers : SF_vars(Proceed(p))

LiveSpec == Spec /\ Fairness

\* A replacement, a calibration and Close get the lock and return.
WritersReturn == \A p \in Writers : pc[p] # "idle" ~> pc[p] = "idle"

\* A request on the blocking path (withRunner) is never stranded behind writers.
BlockedReadersReturn == \A p \in Ollamas \cup Proposers : pc[p] = "lock" ~> pc[p] = "idle"

\* Writers and blocked readers get their turn, whatever requests keep arriving:
\* an announced writer keeps new readers out, and its Unlock lets the blocked in.
LockTurns == WritersReturn /\ BlockedReadersReturn

=============================================================================
