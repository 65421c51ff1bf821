------------------------- MODULE ModelHotSwapProofs -------------------------
(***************************************************************************)
(* Proofs about ModelHotSwap, for any number of routes, runners and slots.  *)
(***************************************************************************)
EXTENDS ModelHotSwap, FiniteSetTheorems, TLAPS

-----------------------------------------------------------------------------
(* The inductive invariant.                                                 *)

\* Where each kind of route can be.
Lines ==
    /\ \A p \in Natives : pc[p] \in {"idle", "enter", "lock", "use"}
    /\ \A p \in Ollamas \cup Proposers : pc[p] \in {"idle", "enter", "lock", "blocked", "use"}
    /\ \A p \in Embeds : pc[p] \in {"idle", "enter", "pick", "lock", "use"}
    /\ \A p \in Loaders : pc[p] \in {"idle", "enter", "load", "serial", "announce", "drain", "close", "tell"}
    /\ \A p \in EmbedLoaders : pc[p] \in {"idle", "enter", "load", "announceE", "drainE", "closeE"}
    /\ \A p \in Tuners : pc[p] \in {"idle", "enter", "serial", "announce", "drain", "calibrate"}
    /\ \A p \in Closers : pc[p] \in {"idle", "once", "announceE", "drainE", "closeE", "announce", "drain",
                                     "close", "clear"}

\* The chat model's lock: who reads works with it or is about to wake, and its writer has
\* waited for all of them before it changes anything.
ChatLock ==
    /\ \A p \in Proc : /\ p \in chat.mu.readers => pc[p] \in {"use", "blocked"}
                       /\ p \in chat.mu.waiting => pc[p] = "blocked"
                       /\ pc[p] \in {"drain", "calibrate"} <=> chat.mu.writer = p
                       /\ pc[p] = "calibrate" => chat.mu.readers = {}
    /\ chat.mu.readers \cap chat.mu.waiting = {}

\* The embedder's lock, which is only ever polled for reading.
EmbedLock ==
    /\ \A p \in Proc : /\ p \in embed.mu.readers => pc[p] = "use"
                       /\ pc[p] = "drainE" <=> embed.mu.writer = p
    /\ embed.mu.waiting = {}

\* A callback works with the model that is installed under the lock it holds.
Callbacks ==
    /\ \A p \in Chatters \cup Embeds :
         /\ pc[p] = "use" /\ p \in chat.mu.readers => p \notin embed.mu.readers /\ mine[p] = chat.r
         /\ p \in embed.mu.readers => p \in Embeds /\ mine[p] = embed.r
         /\ pc[p] = "use" => p \in chat.mu.readers \cup embed.mu.readers
         /\ pc[p] # "use" => mine[p] = None

\* One Close at a time is past closeOnce.
Working(p) == pc[p] \notin {"idle", "once"}

Closing ==
    /\ \A p \in Closers : Working(p) => closeOnce = "running"
    /\ \A p, q \in Closers : Working(p) /\ Working(q) => p = q

\* modelLoadMu and autoTuneMu belong to the route between Serialize and Tell, and between
\* LockTuning and the end of the calibration; the callback is told what is served,
\* unless Close has taken it away.
Serial ==
    /\ \A p \in Loaders : pc[p] \in {"announce", "drain", "close", "tell"} <=> loadMu = p
    /\ \A p \in Loaders : pc[p] \in {"close", "tell"} /\ closeOnce = "no" => mine[p] = chat.r
    /\ \A p \in Tuners : pc[p] \in {"announce", "drain", "calibrate"} <=> tuneMu = p

\* A loaded runner is in one place: with its loader, installed, or taken out to be closed.
Brought ==
    /\ \A p \in Loaders \cup EmbedLoaders : Bringing(p) => mine[p] \in open
    /\ \A p \in Loaders \cup EmbedLoaders :
         ~Bringing(p) /\ pc[p] \notin {"close", "tell"} => mine[p] = None
    /\ \A p \in Tuners \cup Closers : mine[p] = None
    /\ \A p \in Writers : old[p] # None => pc[p] \in {"close", "closeE"} /\ old[p] \in open
    /\ \A p \in Chatters \cup Embeds : old[p] = None
    /\ chat.r \in open \cup {None} /\ embed.r \in open \cup {None}

Apart ==
    /\ chat.r # None => chat.r # embed.r
    /\ \A p \in Writers : old[p] # None => old[p] # chat.r /\ old[p] # embed.r
    /\ \A p, q \in Writers : old[p] # None /\ p # q => old[p] # old[q]
    /\ \A p \in Loaders \cup EmbedLoaders : Bringing(p) =>
         /\ mine[p] # chat.r /\ mine[p] # embed.r
         /\ \A q \in Writers : mine[p] # old[q]
         /\ \A q \in Loaders \cup EmbedLoaders : Bringing(q) /\ p # q => mine[p] # mine[q]

\* What Close has found installed it takes out: behind it, each model is None or what a load
\* that it overtook has brought.
Overtaken(r) == r \in overtaken \cup {None}

Released ==
    /\ closeOnce # "no" => \A p \in Loaders \cup EmbedLoaders : Bringing(p) => Overtaken(mine[p])
    /\ \A p \in Closers :
         /\ pc[p] \in {"closeE", "announce", "drain", "close", "clear"} => Overtaken(embed.r)
         /\ pc[p] \in {"close", "clear"} => Overtaken(chat.r)
         /\ pc[p] = "clear" => old[p] = None
    /\ closeOnce = "done" => Overtaken(chat.r) /\ Overtaken(embed.r)

\* Outside a calibration the knobs are those of the model that is served.
Tuned ==
    /\ \A p \in Tuners : pc[p] = "calibrate" => chat.r # None
    /\ chat.r # None /\ (\A p \in Tuners : pc[p] # "calibrate") =>
           knobs = IF chat.tuned THEN chat.r ELSE Baseline

\* The part of TypeOK that does not depend on how the slots are counted.
Types ==
    /\ pc \in [Proc -> PC]
    /\ mine \in [Proc -> Runners \cup {None}]
    /\ old \in [Proc -> Runners \cup {None}]
    /\ chat \in [mu : RW!Lock, r : Runners \cup {None}, tuned : BOOLEAN]
    /\ embed \in [mu : RW!Lock, r : Runners \cup {None}]
    /\ knobs \in Runners \cup {Baseline, Trial}
    /\ open \subseteq loaded /\ loaded \subseteq Runners
    /\ loadMu \in Loaders \cup {None}
    /\ told \in Runners \cup {None}
    /\ tuneMu \in Tuners \cup {None}
    /\ closeOnce \in {"no", "running", "done"}
    /\ overtaken \subseteq loaded

ModelsInv ==
    /\ Types /\ Lines /\ ChatLock /\ EmbedLock /\ Callbacks /\ Closing /\ Serial
    /\ Brought /\ Apart /\ Released /\ EveryRunnerOwned /\ Tuned /\ CallbackNamesServedModel

Slots == slots \in [Categories -> 0 .. MaxRequests] /\ SlotsExact

IInv == ModelsInv /\ Slots

-----------------------------------------------------------------------------
(* Every step keeps the invariant about the models.                         *)

USE DEF RW!Unlocked, RW!Shared, RW!Exclusive, RW!AfterRLock, RW!AfterBlockedRLock, RW!AfterRUnlock,
        RW!AfterAnnounce, RW!AfterUnlock, RW!Lock

\* A request arrives and is admitted, or refused.
LEMMA ArrivalKeeps ==
    ASSUME ModelsInv, NEW p \in Requests, Check(p) \/ Admit(p) \/ Refuse(p)
    PROVE  ModelsInv'
<1> USE RoutesAssumption DEF ModelsInv, Types, Lines, ChatLock, EmbedLock, Callbacks, Closing, Serial, Brought, Apart,
        Released, Overtaken, EveryRunnerOwned, Tuned, CallbackNamesServedModel, Working, Bringing, PC, Proc, Requests,
        Chatters, Writers, Goto, hold, models, loads, host
<1>1. CASE Check(p)
  BY <1>1 DEF Check, Prechecked
<1>2. CASE Admit(p)
  BY <1>2 DEF Admit, AfterAdmission, Door, Prechecked
<1>3. CASE Refuse(p)
  BY <1>3 DEF Refuse, Door, Prechecked
<1> QED BY <1>1, <1>2, <1>3

\* A callback runs.
LEMMA ReadKeeps ==
    ASSUME ModelsInv, NEW p \in Chatters \cup Embeds, Read(p)
    PROVE  ModelsInv'
<1> USE RoutesAssumption DEF ModelsInv, Types, Lines, ChatLock, EmbedLock, Callbacks, Closing, Serial, Brought, Apart,
        Released, Overtaken, EveryRunnerOwned, Tuned, CallbackNamesServedModel, Working, Bringing, PC, Proc, Requests,
        Chatters, Writers, Goto, hold, models, loads, host
<1>1. CASE GiveUp(p)
  BY <1>1 DEF GiveUp
<1>2. CASE PickEmbedder(p)
  BY <1>2 DEF PickEmbedder
<1>3. CASE ReadLock(p)
  BY <1>3 DEF ReadLock
<1>4. CASE Block(p)
  BY <1>4 DEF Block
<1>5. CASE Unblock(p)
  BY <1>5 DEF Unblock
<1>6. CASE Finish(p)
  <2>1. Types'
    BY <1>6 DEF Finish
  <2>2. Lines'
    BY <1>6 DEF Finish
  <2>3. ChatLock'
    BY <1>6 DEF Finish
  <2>4. EmbedLock'
    BY <1>6 DEF Finish
  <2>5. Callbacks'
    BY <1>6 DEF Finish
  <2>6. Closing'
    BY <1>6 DEF Finish
  <2>7. Serial'
    BY <1>6 DEF Finish
  <2>8. Brought'
    BY <1>6 DEF Finish
  <2>9. Apart'
    BY <1>6 DEF Finish
  <2>10. EveryRunnerOwned'
    BY <1>6 DEF Finish
  <2>11. Tuned'
    BY <1>6 DEF Finish
  <2>12. CallbackNamesServedModel'
    BY <1>6 DEF Finish
  <2>13. Released'
    BY <1>6 DEF Finish
  <2> QED BY <2>1, <2>2, <2>3, <2>4, <2>5, <2>6, <2>7, <2>8, <2>9, <2>10, <2>11, <2>12, <2>13 DEF ModelsInv
<1> QED BY <1>1, <1>2, <1>3, <1>4, <1>5, <1>6 DEF Read

\* A model or an embedder is loaded.
LEMMA LoadKeeps ==
    ASSUME ModelsInv, NEW p \in Loaders \cup EmbedLoaders, LoadModel(p)
    PROVE  ModelsInv'
<1> USE RoutesAssumption DEF ModelsInv, Types, Lines, ChatLock, EmbedLock, Callbacks, Closing, Serial, Brought, Apart,
        Released, Overtaken, EveryRunnerOwned, Tuned, CallbackNamesServedModel, Working, Bringing, PC, Proc, Requests,
        Chatters, Writers, Goto, hold, models, loads, host
<1>1. CASE \E r \in Runners : Load(p, r)
  BY <1>1 DEF Load
<1>2. CASE LoadFails(p)
  BY <1>2 DEF LoadFails
<1>3. CASE Serialize(p)
  BY <1>3 DEF Serialize
<1>4. CASE Announce(p)
  BY <1>4 DEF Announce
<1>5. CASE Swap(p)
  BY <1>5 DEF Swap, Owns
<1>6. CASE CloseOld(p)
  BY <1>6 DEF CloseOld
<1>7. CASE Tell(p)
  BY <1>7 DEF Tell
<1>8. CASE AnnounceEmbedder(p)
  BY <1>8 DEF AnnounceEmbedder
<1>9. CASE SwapEmbedder(p)
  BY <1>9 DEF SwapEmbedder
<1>10. CASE CloseOldEmbedder(p)
  BY <1>10 DEF CloseOldEmbedder
<1> QED BY <1>1, <1>2, <1>3, <1>4, <1>5, <1>6, <1>7, <1>8, <1>9, <1>10 DEF LoadModel

\* The chat model is calibrated.
LEMMA TuneKeeps ==
    ASSUME ModelsInv, NEW p \in Tuners, Tune(p)
    PROVE  ModelsInv'
<1> USE RoutesAssumption DEF ModelsInv, Types, Lines, ChatLock, EmbedLock, Callbacks, Closing, Serial, Brought, Apart,
        Released, Overtaken, EveryRunnerOwned, Tuned, CallbackNamesServedModel, Working, Bringing, PC, Proc, Requests,
        Chatters, Writers, Goto, hold, models, loads, host
<1>1. CASE LockTuning(p)
  BY <1>1 DEF LockTuning
<1>2. CASE RefuseTuning(p)
  BY <1>2 DEF RefuseTuning
<1>3. CASE Announce(p)
  BY <1>3 DEF Announce
<1>4. CASE Calibrate(p)
  BY <1>4 DEF Calibrate, Owns
<1>5. CASE CalibrationFails(p)
  BY <1>5 DEF CalibrationFails, Owns
<1>6. CASE Calibrated(p)
  <2>1. Types'
    BY <1>6 DEF Calibrated, Owns
  <2>2. Lines'
    BY <1>6 DEF Calibrated, Owns
  <2>3. ChatLock'
    BY <1>6 DEF Calibrated, Owns
  <2>4. EmbedLock'
    BY <1>6 DEF Calibrated, Owns
  <2>5. Callbacks'
    BY <1>6 DEF Calibrated, Owns
  <2>6. Closing'
    BY <1>6 DEF Calibrated, Owns
  <2>7. Serial'
    BY <1>6 DEF Calibrated, Owns
  <2>8. Brought'
    BY <1>6 DEF Calibrated, Owns
  <2>9. Apart'
    BY <1>6 DEF Calibrated, Owns
  <2>10. EveryRunnerOwned'
    BY <1>6 DEF Calibrated, Owns
  <2>11. Tuned'
    BY <1>6 DEF Calibrated, Owns
  <2>12. CallbackNamesServedModel'
    BY <1>6 DEF Calibrated, Owns
  <2>13. Released'
    BY <1>6 DEF Calibrated, Owns
  <2> QED BY <2>1, <2>2, <2>3, <2>4, <2>5, <2>6, <2>7, <2>8, <2>9, <2>10, <2>11, <2>12, <2>13 DEF ModelsInv
<1> QED BY <1>1, <1>2, <1>3, <1>4, <1>5, <1>6 DEF Tune

\* The handler is closed.
LEMMA CloseKeeps ==
    ASSUME ModelsInv, NEW p \in Closers, Close(p)
    PROVE  ModelsInv'
<1>0. ASSUME BeginClose(p) PROVE Types'
  <2>1. overtaken' \subseteq loaded
    BY <1>0 DEF ModelsInv, Types, Brought, BeginClose
  <2> QED BY <1>0, <2>1 DEF ModelsInv, Types, BeginClose, Goto, PC, hold, models, loads
<1> USE RoutesAssumption DEF ModelsInv, Types, Lines, ChatLock, EmbedLock, Callbacks, Closing, Serial, Brought, Apart,
        Released, Overtaken, EveryRunnerOwned, Tuned, CallbackNamesServedModel, Working, Bringing, PC, Proc, Requests,
        Chatters, Writers, Goto, hold, models, loads, host
<1>1. CASE BeginClose(p)
  <2>1. Types'
    BY <1>1, <1>0
  <2>2. Lines'
    BY <1>1 DEF BeginClose
  <2>3. ChatLock'
    BY <1>1 DEF BeginClose
  <2>4. EmbedLock'
    BY <1>1 DEF BeginClose
  <2>5. Callbacks'
    BY <1>1 DEF BeginClose
  <2>6. Closing'
    BY <1>1 DEF BeginClose
  <2>7. Serial'
    BY <1>1 DEF BeginClose
  <2>8. Brought'
    BY <1>1 DEF BeginClose
  <2>9. Apart'
    BY <1>1 DEF BeginClose
  <2>10. EveryRunnerOwned'
    BY <1>1 DEF BeginClose
  <2>11. Tuned'
    BY <1>1 DEF BeginClose
  <2>12. CallbackNamesServedModel'
    BY <1>1 DEF BeginClose
  <2>13. Released'
    BY <1>1 DEF BeginClose
  <2> QED BY <2>1, <2>2, <2>3, <2>4, <2>5, <2>6, <2>7, <2>8, <2>9, <2>10, <2>11, <2>12, <2>13 DEF ModelsInv
<1>2. CASE WaitClose(p)
  BY <1>2 DEF WaitClose
<1>3. CASE WaitedClose(p)
  BY <1>3 DEF WaitedClose
<1>4. CASE EndClose(p)
  BY <1>4 DEF EndClose
<1>5. CASE AnnounceEmbedder(p)
  BY <1>5 DEF AnnounceEmbedder
<1>6. CASE SwapEmbedder(p)
  BY <1>6 DEF SwapEmbedder
<1>7. CASE CloseOldEmbedder(p)
  BY <1>7 DEF CloseOldEmbedder
<1>8. CASE Announce(p)
  BY <1>8 DEF Announce
<1>9. CASE ClearChat(p)
  BY <1>9 DEF ClearChat, Owns
<1>10. CASE CloseOld(p)
  BY <1>10 DEF CloseOld
<1> QED BY <1>1, <1>2, <1>3, <1>4, <1>5, <1>6, <1>7, <1>8, <1>9, <1>10 DEF Close

-----------------------------------------------------------------------------
(* The slots.                                                               *)

Admitted(c) == {p \in Requests : Category(p) = c /\ pc[p] \notin {"idle", "enter"}}

\* A step of one route that neither takes nor gives a slot,
SlotKept(p) ==
    /\ p \in Requests => (pc[p] \in {"idle", "enter"} <=> pc'[p] \in {"idle", "enter"})
    /\ UNCHANGED slots

\* ... one that takes its slot, and one that gives it back.
SlotTaken(p) == /\ p \in Requests /\ pc[p] \in {"idle", "enter"} /\ pc'[p] \notin {"idle", "enter"}
                /\ slots[Category(p)] < MaxRequests /\ Enter(p)

SlotGiven(p) == p \in Requests /\ pc[p] \notin {"idle", "enter"} /\ pc'[p] = "idle" /\ Leave(p)

LEMMA SlotStep ==
    ASSUME Types, Slots, NEW p \in Proc, NEW to, pc' = [pc EXCEPT ![p] = to],
           SlotKept(p) \/ SlotTaken(p) \/ SlotGiven(p)
    PROVE  Slots'
<1> USE RoutesAssumption
<1>1. \A c \in Categories : slots[c] = Cardinality(Admitted(c)) /\ IsFiniteSet(Admitted(c))
  <2> TAKE c \in Categories
  <2>1. Admitted(c) \in SUBSET Requests
    BY DEF Admitted
  <2> QED BY <2>1, FS_Subset DEF Slots, SlotsExact, Admitted
<1>2. Category(p) \in Categories
  BY DEF Category, Categories
<1>3. \A q \in Requests : q # p => pc'[q] = pc[q]
  BY DEF Types, Requests, Proc, Writers
<1>4. CASE SlotKept(p)
  <2>1. \A c \in Categories : Admitted(c)' = Admitted(c)
    BY <1>3, <1>4 DEF SlotKept, Admitted
  <2> QED BY <1>1, <1>4, <2>1 DEF SlotKept, Slots, SlotsExact, Admitted
<1>5. CASE SlotTaken(p)
  <2>1. Admitted(Category(p))' = Admitted(Category(p)) \cup {p} /\ p \notin Admitted(Category(p))
    BY <1>3, <1>5 DEF SlotTaken, Admitted
  <2>2. \A c \in Categories : c # Category(p) => Admitted(c)' = Admitted(c)
    BY <1>3, <1>5 DEF SlotTaken, Admitted
  <2>3. Cardinality(Admitted(Category(p))') = slots[Category(p)] + 1
    BY <1>1, <1>2, <2>1, FS_AddElement
  <2>4. slots' = [slots EXCEPT ![Category(p)] = @ + 1] /\ slots[Category(p)] < MaxRequests
    BY <1>5 DEF SlotTaken, Enter
  <2>5. slots' \in [Categories -> 0 .. MaxRequests]
    BY <1>2, <2>4 DEF Slots
  <2>6. ASSUME NEW c \in Categories PROVE slots'[c] = Cardinality(Admitted(c)')
    <3>1. CASE c = Category(p) BY <2>3, <2>4, <3>1 DEF Slots
    <3>2. CASE c # Category(p) BY <1>1, <2>2, <2>4, <3>2 DEF Slots
    <3> QED BY <3>1, <3>2
  <2> QED BY <2>5, <2>6 DEF Slots, SlotsExact, Admitted
<1>6. CASE SlotGiven(p)
  <2>1. Admitted(Category(p))' = Admitted(Category(p)) \ {p} /\ p \in Admitted(Category(p))
    BY <1>3, <1>6 DEF SlotGiven, Admitted, Types, Requests, Proc, Writers
  <2>2. \A c \in Categories : c # Category(p) => Admitted(c)' = Admitted(c)
    BY <1>3, <1>6 DEF SlotGiven, Admitted
  <2>3. Cardinality(Admitted(Category(p))') = slots[Category(p)] - 1
    BY <1>1, <1>2, <2>1, FS_RemoveElement
  <2>4. slots' = [slots EXCEPT ![Category(p)] = @ - 1]
    BY <1>6 DEF SlotGiven, Leave
  <2>5. slots[Category(p)] >= 1
    <3>1. Admitted(Category(p)) # {}
      BY <2>1
    <3> QED BY <1>1, <1>2, <3>1, FS_EmptySet DEF Slots
  <2>6. slots' \in [Categories -> 0 .. MaxRequests]
    BY <1>2, <2>4, <2>5 DEF Slots
  <2>7. ASSUME NEW c \in Categories PROVE slots'[c] = Cardinality(Admitted(c)')
    <3>1. CASE c = Category(p) BY <2>3, <2>4, <3>1 DEF Slots
    <3>2. CASE c # Category(p) BY <1>1, <2>2, <2>4, <3>2 DEF Slots
    <3> QED BY <3>1, <3>2
  <2> QED BY <2>6, <2>7 DEF Slots, SlotsExact, Admitted
<1> QED BY <1>4, <1>5, <1>6

\* The slots of an arriving request,
LEMMA ArrivalSlots ==
    ASSUME Types, Lines, Slots, NEW p \in Requests, Check(p) \/ Admit(p) \/ Refuse(p)
    PROVE  Slots'
<1> USE RoutesAssumption DEF Types, Lines, Proc, Requests, Chatters, Writers, Goto, hold, models, loads, host
<1>1. CASE Check(p) \/ Refuse(p)
  <2>1. PICK to : pc' = [pc EXCEPT ![p] = to]
    BY <1>1 DEF Check, Refuse
  <2>2. SlotKept(p)
    BY <1>1 DEF Check, Refuse, Door, SlotKept
  <2> QED BY <2>1, <2>2, SlotStep
<1>2. CASE Admit(p)
  <2>1. PICK to : pc' = [pc EXCEPT ![p] = to]
    BY <1>2 DEF Admit, AfterAdmission
  <2>2. SlotTaken(p)
    BY <1>2 DEF Admit, AfterAdmission, Door, SlotTaken
  <2> QED BY <2>1, <2>2, SlotStep
<1> QED BY <1>1, <1>2

\* ... of a callback,
LEMMA ReadSlots ==
    ASSUME Types, Lines, Slots, NEW p \in Chatters \cup Embeds, Read(p)
    PROVE  Slots'
<1> USE RoutesAssumption DEF Types, Lines, Proc, Requests, Chatters, Writers, Goto, hold, models, loads, host
<1>1. CASE PickEmbedder(p) \/ ReadLock(p) \/ Block(p) \/ Unblock(p)
  <2>1. PICK to : pc' = [pc EXCEPT ![p] = to]
    BY <1>1 DEF PickEmbedder, ReadLock, Block, Unblock
  <2>2. SlotKept(p)
    BY <1>1 DEF PickEmbedder, ReadLock, Block, Unblock, SlotKept
  <2> QED BY <2>1, <2>2, SlotStep
<1>2. CASE GiveUp(p) \/ Finish(p)
  <2>1. PICK to : pc' = [pc EXCEPT ![p] = to]
    BY <1>2 DEF GiveUp, Finish
  <2>2. SlotGiven(p)
    BY <1>2 DEF GiveUp, Finish, SlotGiven
  <2> QED BY <2>1, <2>2, SlotStep
<1> QED BY <1>1, <1>2 DEF Read

\* ... of a load,
LEMMA LoadSlots ==
    ASSUME Types, Lines, Slots, NEW p \in Loaders \cup EmbedLoaders, LoadModel(p)
    PROVE  Slots'
<1> USE RoutesAssumption DEF Types, Lines, Proc, Requests, Chatters, Writers, Goto, hold, models, loads, host
<1>1. CASE (\E r \in Runners : Load(p, r)) \/ Serialize(p) \/ Announce(p)
  <2>1. PICK to : pc' = [pc EXCEPT ![p] = to]
    BY <1>1 DEF Load, Serialize, Announce
  <2>2. SlotKept(p)
    BY <1>1 DEF Load, Serialize, Announce, SlotKept
  <2> QED BY <2>1, <2>2, SlotStep
<1>2. CASE Swap(p) \/ CloseOld(p)
  <2>1. PICK to : pc' = [pc EXCEPT ![p] = to]
    BY <1>2 DEF Swap, CloseOld
  <2>2. SlotKept(p)
    BY <1>2 DEF Swap, CloseOld, Owns, SlotKept
  <2> QED BY <2>1, <2>2, SlotStep
<1>3. CASE AnnounceEmbedder(p) \/ SwapEmbedder(p)
  <2>1. PICK to : pc' = [pc EXCEPT ![p] = to]
    BY <1>3 DEF AnnounceEmbedder, SwapEmbedder
  <2>2. SlotKept(p)
    BY <1>3 DEF AnnounceEmbedder, SwapEmbedder, SlotKept
  <2> QED BY <2>1, <2>2, SlotStep
<1>4. CASE LoadFails(p) \/ Tell(p)
  <2>1. PICK to : pc' = [pc EXCEPT ![p] = to]
    BY <1>4 DEF LoadFails, Tell
  <2>2. SlotGiven(p)
    BY <1>4 DEF LoadFails, Tell, SlotGiven
  <2> QED BY <2>1, <2>2, SlotStep
<1>5. CASE CloseOldEmbedder(p)
  <2>1. PICK to : pc' = [pc EXCEPT ![p] = to]
    BY <1>5 DEF CloseOldEmbedder
  <2>2. SlotKept(p) \/ SlotGiven(p)
    BY <1>5 DEF CloseOldEmbedder, SlotKept, SlotGiven
  <2> QED BY <2>1, <2>2, SlotStep
<1> QED BY <1>1, <1>2, <1>3, <1>4, <1>5 DEF LoadModel

\* ... of a calibration,
LEMMA TuneSlots ==
    ASSUME Types, Lines, Slots, NEW p \in Tuners, Tune(p)
    PROVE  Slots'
<1> USE RoutesAssumption DEF Types, Lines, Proc, Requests, Chatters, Writers, Goto, hold, models, loads, host
<1>1. CASE LockTuning(p) \/ Announce(p) \/ Calibrate(p)
  <2>1. PICK to : pc' = [pc EXCEPT ![p] = to]
    BY <1>1 DEF LockTuning, Announce, Calibrate
  <2>2. SlotKept(p)
    BY <1>1 DEF LockTuning, Announce, Calibrate, Owns, SlotKept
  <2> QED BY <2>1, <2>2, SlotStep
<1>2. CASE RefuseTuning(p) \/ CalibrationFails(p) \/ Calibrated(p)
  <2>1. PICK to : pc' = [pc EXCEPT ![p] = to]
    BY <1>2 DEF RefuseTuning, CalibrationFails, Calibrated
  <2>2. SlotGiven(p)
    BY <1>2 DEF RefuseTuning, CalibrationFails, Calibrated, Owns, SlotGiven
  <2> QED BY <2>1, <2>2, SlotStep
<1> QED BY <1>1, <1>2 DEF Tune

\* ... and of Close, which takes none.
LEMMA CloseSlots ==
    ASSUME Types, Lines, Slots, NEW p \in Closers, Close(p)
    PROVE  Slots'
<1> USE RoutesAssumption DEF Types, Lines, Proc, Requests, Chatters, Writers, Goto, hold, models, loads, host
<1>1. CASE BeginClose(p) \/ WaitClose(p) \/ WaitedClose(p) \/ EndClose(p)
  <2>1. PICK to : pc' = [pc EXCEPT ![p] = to]
    BY <1>1 DEF BeginClose, WaitClose, WaitedClose, EndClose
  <2>2. SlotKept(p)
    BY <1>1 DEF BeginClose, WaitClose, WaitedClose, EndClose, SlotKept
  <2> QED BY <2>1, <2>2, SlotStep
<1>2. CASE AnnounceEmbedder(p) \/ SwapEmbedder(p) \/ CloseOldEmbedder(p)
  <2>1. PICK to : pc' = [pc EXCEPT ![p] = to]
    BY <1>2 DEF AnnounceEmbedder, SwapEmbedder, CloseOldEmbedder
  <2>2. SlotKept(p)
    BY <1>2 DEF AnnounceEmbedder, SwapEmbedder, CloseOldEmbedder, SlotKept
  <2> QED BY <2>1, <2>2, SlotStep
<1>3. CASE Announce(p) \/ ClearChat(p) \/ CloseOld(p)
  <2>1. PICK to : pc' = [pc EXCEPT ![p] = to]
    BY <1>3 DEF Announce, ClearChat, CloseOld
  <2>2. SlotKept(p)
    BY <1>3 DEF Announce, ClearChat, CloseOld, SlotKept
  <2> QED BY <2>1, <2>2, SlotStep
<1> QED BY <1>1, <1>2, <1>3 DEF Close

-----------------------------------------------------------------------------
(* The invariant, and what follows from it.                                 *)

LEMMA InitHolds == Init => IInv
<1> SUFFICES ASSUME Init PROVE IInv
  OBVIOUS
<1> USE RoutesAssumption DEF Init
<1>1. Types
  BY DEF Types, PC
<1>2. Lines /\ ChatLock /\ EmbedLock /\ Callbacks /\ Closing
  BY DEF Lines, ChatLock, EmbedLock, Callbacks, Closing, Working, Proc, Requests, Chatters, Writers
<1>3. Serial /\ Brought /\ Apart /\ Tuned /\ CallbackNamesServedModel
  BY DEF Serial, Brought, Apart, Bringing, Tuned, CallbackNamesServedModel, Proc, Requests, Chatters, Writers
<1>6. Released
  BY DEF Released, Overtaken, Bringing, Proc, Writers
<1>4. EveryRunnerOwned
  BY DEF EveryRunnerOwned, Proc, Writers
<1>5. Slots
  <2>1. \A c \in Categories : Admitted(c) = {}
    BY DEF Admitted, Proc, Requests, Writers
  <2>2. \A c \in Categories : slots[c] = Cardinality(Admitted(c))
    BY <2>1, FS_EmptySet
  <2>3. slots \in [Categories -> 0 .. MaxRequests]
    OBVIOUS
  <2> QED BY <2>2, <2>3 DEF Slots, SlotsExact, Admitted
<1> QED BY <1>1, <1>2, <1>3, <1>4, <1>5, <1>6 DEF IInv, ModelsInv

\* The invariant holds in every state.
THEOREM Invariance == Spec => []IInv
<1>1. IInv /\ [Next]_vars => IInv'
  <2>1. ASSUME IInv, Next PROVE ModelsInv'
    BY <2>1, ArrivalKeeps, ReadKeeps, LoadKeeps, TuneKeeps, CloseKeeps DEF Next, IInv
  <2>2. ASSUME IInv, Next PROVE Slots'
    BY <2>2, ArrivalSlots, ReadSlots, LoadSlots, TuneSlots, CloseSlots DEF Next, IInv, ModelsInv
  <2>3. ASSUME IInv, UNCHANGED vars PROVE IInv'
    BY <2>3 DEF vars, IInv, ModelsInv, Types, Lines, ChatLock, EmbedLock, Callbacks, Closing, Working, Serial,
       Brought, Apart, Bringing, Released, Overtaken, EveryRunnerOwned, Tuned, CallbackNamesServedModel, Slots, SlotsExact
  <2> QED BY <2>1, <2>2, <2>3 DEF IInv
<1> QED BY <1>1, InitHolds, PTL DEF Spec

\* However many requests, calibrations and loads are on their way, Close lets go of both models
\* it found: one still open is being closed by the load that replaced it, or was brought by a
\* load that Close overtook.
THEOREM CloseComplete == Spec => []CloseReleases
<1>1. ASSUME IInv, closeOnce = "done", NEW r \in open PROVE r \in overtaken \cup {old[q] : q \in Loaders \cup EmbedLoaders}
  <2>1. r # None
    BY <1>1, RoutesAssumption DEF IInv, ModelsInv, Types
  <2>2. CASE r \in {chat.r, embed.r}
    BY <1>1, <2>1, <2>2 DEF IInv, ModelsInv, Released, Overtaken
  <2>3. CASE \E p \in Writers : r = old[p]
    <3>1. PICK p \in Writers : r = old[p]
      BY <2>3
    <3>2. p \notin Tuners /\ p \notin Closers
      BY <1>1, <2>1, <3>1 DEF IInv, ModelsInv, Brought, Lines, Closing, Working
    <3> QED BY <3>1, <3>2 DEF Writers
  <2>4. CASE \E p \in Loaders \cup EmbedLoaders : Bringing(p) /\ r = mine[p]
    BY <1>1, <2>1, <2>4 DEF IInv, ModelsInv, Released, Overtaken
  <2> QED BY <1>1, <2>2, <2>3, <2>4 DEF IInv, ModelsInv, EveryRunnerOwned
<1>2. IInv => CloseReleases
  BY <1>1 DEF CloseReleases
<1> QED BY <1>2, Invariance, PTL

\* What calibration measured for one model is not in effect for another.
THEOREM TuningCorrect == Spec => []TuningBelongsToModel
<1>1. IInv => TuningBelongsToModel
  BY RoutesAssumption DEF IInv, ModelsInv, Tuned, ChatLock, TuningBelongsToModel, Proc, Writers
<1> QED BY <1>1, Invariance, PTL

\* ModelLoaded callbacks arrive in the order of the swaps.
THEOREM CallbackOrder == Spec => []CallbackNamesServedModel
<1>1. IInv => CallbackNamesServedModel
  BY DEF IInv, ModelsInv
<1> QED BY <1>1, Invariance, PTL

\* Every runner that is open has one owner that installs or closes it, and every slot taken
\* is given back once.
THEOREM Leakless == Spec => []NothingLeaked
<1>1. IInv => NothingLeaked
  BY DEF IInv, ModelsInv, Types, Slots, TypeOK, NothingLeaked
<1> QED BY <1>1, Invariance, PTL

\* The steps that change the knobs own the chat model's lock, or hold it for a calibration.
LEMMA KnobsStep ==
    ASSUME IInv, Next, knobs' # knobs
    PROVE  chat.mu.readers = {}
<1> USE RoutesAssumption DEF Goto, models, Owns
<1>1. ASSUME NEW p \in Requests, Check(p) \/ Admit(p) \/ Refuse(p) PROVE knobs' = knobs
  BY <1>1 DEF Check, Admit, Refuse
<1>2. ASSUME NEW p \in Chatters \cup Embeds, Read(p) PROVE knobs' = knobs
  BY <1>2 DEF Read, GiveUp, PickEmbedder, ReadLock, Block, Unblock, Finish
<1>3. ASSUME NEW p \in Loaders \cup EmbedLoaders, LoadModel(p) PROVE chat.mu.readers = {} \/ knobs' = knobs
  BY <1>3 DEF LoadModel, Load, LoadFails, Serialize, Announce, Swap, CloseOld, Tell, AnnounceEmbedder,
     SwapEmbedder, CloseOldEmbedder
<1>4. ASSUME NEW p \in Tuners, Tune(p) PROVE chat.mu.readers = {} \/ knobs' = knobs
  BY <1>4 DEF Tune, LockTuning, RefuseTuning, Announce, Calibrate, CalibrationFails, Calibrated, IInv, ModelsInv,
     ChatLock, Proc, Writers
<1>5. ASSUME NEW p \in Closers, Close(p) PROVE knobs' = knobs
  BY <1>5 DEF Close, BeginClose, WaitClose, WaitedClose, EndClose, AnnounceEmbedder, SwapEmbedder,
     CloseOldEmbedder, Announce, ClearChat, CloseOld
<1> QED BY <1>1, <1>2, <1>3, <1>4, <1>5 DEF Next

\* No generation of the chat model sees the process-wide knobs change.
THEOREM TuningFixed == Spec => TuningFixedDuringChat
<1>1. IInv /\ [Next]_vars => [(\E p \in Proc : UsingChat(p)) => knobs' = knobs]_vars
  BY KnobsStep DEF UsingChat, vars
<1> QED BY <1>1, Invariance, PTL DEF Spec, TuningFixedDuringChat

-----------------------------------------------------------------------------
(* The two models are model slots.                                          *)

\* A step of a route that neither enters nor leaves a callback is invisible to a slot, if the
\* lock's readers at work and the runners they have stay the same.
Undisturbed(p) ==
    /\ pc[p] # "use" /\ pc'[p] # "use" /\ \A q \in Proc : q # p => pc'[q] = pc[q] /\ mine'[q] = mine[q]
    /\ (loaded \ open)' = loaded \ open

LEMMA ChatQuiet ==
    ASSUME NEW p \in Proc, Undisturbed(p), chat'.r = chat.r,
           \A q \in Proc : pc[q] = "use" => (q \in chat.mu.readers <=> q \in chat'.mu.readers)
    PROVE  UNCHANGED ChatSlot!vars
<1>1. Slot(chat.mu, chat.r)' = Slot(chat.mu, chat.r)
  BY DEF Slot, Undisturbed
<1> QED BY <1>1 DEF ChatSlot!vars, Undisturbed

LEMMA EmbedQuiet ==
    ASSUME NEW p \in Proc, Undisturbed(p), embed'.r = embed.r,
           \A q \in Proc : pc[q] = "use" => (q \in embed.mu.readers <=> q \in embed'.mu.readers)
    PROVE  UNCHANGED EmbedSlot!vars
<1>1. Slot(embed.mu, embed.r)' = Slot(embed.mu, embed.r)
  BY DEF Slot, Undisturbed
<1> QED BY <1>1 DEF EmbedSlot!vars, Undisturbed

\* Without readers a slot is idle.
LEMMA Idles ==
    /\ chat.mu.readers = {} => ChatSlot!Idle
    /\ embed.mu.readers = {} => EmbedSlot!Idle
BY DEF ChatSlot!Idle, EmbedSlot!Idle, Slot

SlotSteps == [ChatSlot!Next]_(ChatSlot!vars) /\ [EmbedSlot!Next]_(EmbedSlot!vars)

LEMMA ArrivalSlot ==
    ASSUME IInv, NEW p \in Requests, Check(p) \/ Admit(p) \/ Refuse(p)
    PROVE  SlotSteps
<1>1. p \in Proc
  BY DEF Proc, Requests, Writers
<1>2. Undisturbed(p) /\ UNCHANGED <<chat, embed>>
  BY <1>1, RoutesAssumption DEF Check, Admit, Refuse, Door, AfterAdmission, Goto, hold, models, Undisturbed,
     IInv, ModelsInv, Types
<1> QED BY <1>1, <1>2, ChatQuiet, EmbedQuiet DEF SlotSteps

\* A callback begins when it has the lock, and ends with its unlock.
LEMMA ReadSlot ==
    ASSUME IInv, NEW p \in Chatters \cup Embeds, Read(p)
    PROVE  SlotSteps
<1>p. p \in Proc /\ None \notin Proc
  BY RoutesAssumption DEF Proc
<1>i. Types /\ ChatLock /\ EmbedLock /\ Callbacks
  BY DEF IInv, ModelsInv
<1> USE <1>p DEF Goto, hold, models
<1>1. CASE GiveUp(p) \/ Block(p)
  <2>1. Undisturbed(p) /\ UNCHANGED <<chat.r, chat.mu.readers, embed>>
    BY <1>1, <1>i DEF GiveUp, Block, Undisturbed, Types
  <2> QED BY <2>1, ChatQuiet, EmbedQuiet DEF SlotSteps
<1>2. CASE PickEmbedder(p)
  <2>1. CASE embed.r = None
    <3>1. Undisturbed(p) /\ UNCHANGED <<chat, embed>>
      BY <1>2, <2>1, <1>i DEF PickEmbedder, Undisturbed, Types
    <3> QED BY <3>1, ChatQuiet, EmbedQuiet DEF SlotSteps
  <2>2. CASE embed.r # None
    <3>1. Slot(chat.mu, chat.r)' = Slot(chat.mu, chat.r)
      BY <1>2, <2>2, <1>i DEF PickEmbedder, Slot, Types, ChatLock
    <3>2. UNCHANGED ChatSlot!vars
      BY <1>2, <2>2, <3>1 DEF PickEmbedder, ChatSlot!vars
    <3>3. /\ pc[p] = "pick" /\ pc' = [pc EXCEPT ![p] = "use"] /\ mine' = [mine EXCEPT ![p] = embed.r]
          /\ embed'.mu.readers = embed.mu.readers \cup {p} /\ UNCHANGED <<embed.r, open, loaded>>
      BY <1>2, <2>2, <1>i DEF PickEmbedder, Types
    <3>4. \A q \in Proc : (IF pc'[q] = "use" /\ q \in embed'.mu.readers THEN mine'[q] ELSE None)
                            = IF q = p THEN embed.r ELSE Slot(embed.mu, embed.r)[q]
      BY <3>3, <1>i DEF Slot, Types
    <3>5. Slot(embed.mu, embed.r)' = [Slot(embed.mu, embed.r) EXCEPT ![p] = embed.r]
      BY <3>4 DEF Slot
    <3>6. EmbedSlot!Begin(p)
      BY <2>2, <3>3, <3>5 DEF EmbedSlot!Begin, Slot
    <3> QED BY <3>2, <3>6 DEF SlotSteps, EmbedSlot!Next
  <2> QED BY <2>1, <2>2
<1>3. CASE ReadLock(p) \/ Unblock(p)
  <2>1. Slot(embed.mu, embed.r)' = Slot(embed.mu, embed.r)
    BY <1>3, <1>i DEF ReadLock, Unblock, Slot, Types, EmbedLock
  <2>2. UNCHANGED EmbedSlot!vars
    BY <1>3, <2>1 DEF ReadLock, Unblock, EmbedSlot!vars
  <2>3. /\ pc[p] # "use" /\ pc' = [pc EXCEPT ![p] = "use"] /\ mine' = [mine EXCEPT ![p] = chat.r]
        /\ chat'.mu.readers = chat.mu.readers \cup {p} /\ UNCHANGED <<chat.r, open, loaded>>
    <3>1. CASE ReadLock(p)
      BY <3>1, <1>i DEF ReadLock, Types
    <3>2. CASE Unblock(p)
      BY <3>2, <1>i DEF Unblock, Types
    <3> QED BY <1>3, <3>1, <3>2
  <2>4. /\ Slot(chat.mu, chat.r)[p] = None
        /\ Slot(chat.mu, chat.r)' = [Slot(chat.mu, chat.r) EXCEPT ![p] = chat.r]
    <3>1. \A q \in Proc : (IF pc'[q] = "use" /\ q \in chat'.mu.readers THEN mine'[q] ELSE None)
                            = IF q = p THEN chat.r ELSE Slot(chat.mu, chat.r)[q]
      BY <2>3, <1>i DEF Slot, Types
    <3>2. Slot(chat.mu, chat.r)[p] = None
      BY <2>3 DEF Slot
    <3> QED BY <3>1, <3>2 DEF Slot
  <2>5. CASE chat.r = None
    <3>1. UNCHANGED ChatSlot!vars
      BY <2>3, <2>4, <2>5 DEF ChatSlot!vars, Slot
    <3> QED BY <2>2, <3>1 DEF SlotSteps
  <2>6. CASE chat.r # None
    <3>1. ChatSlot!Begin(p)
      BY <2>3, <2>4, <2>6 DEF ChatSlot!Begin
    <3> QED BY <2>2, <3>1 DEF SlotSteps, ChatSlot!Next
  <2> QED BY <2>5, <2>6
<1>4. CASE Finish(p)
  <2>1. Slot(chat.mu, chat.r)' = [Slot(chat.mu, chat.r) EXCEPT ![p] = None]
    BY <1>4, <1>i DEF Finish, Slot, Types
  <2>2. ChatSlot!End(p)
    BY <1>4, <2>1 DEF Finish, ChatSlot!End
  <2>3. Slot(embed.mu, embed.r)' = [Slot(embed.mu, embed.r) EXCEPT ![p] = None]
    BY <1>4, <1>i DEF Finish, Slot, Types
  <2>4. EmbedSlot!End(p)
    BY <1>4, <2>3 DEF Finish, EmbedSlot!End
  <2> QED BY <2>2, <2>4 DEF SlotSteps, ChatSlot!Next, EmbedSlot!Next
<1> QED BY <1>1, <1>2, <1>3, <1>4 DEF Read

\* The replaced runner is retired by both slots at once: it is in neither of them.
LEMMA RetireSlot ==
    ASSUME IInv, NEW p \in Writers, CloseOld(p) \/ CloseOldEmbedder(p)
    PROVE  SlotSteps
<1>p. p \in Proc /\ None \notin Runners
  BY RoutesAssumption DEF Proc
<1>i. Types /\ ChatLock /\ EmbedLock /\ Callbacks /\ Lines /\ Brought /\ Apart
  BY DEF IInv, ModelsInv
<1>1. /\ pc[p] # "use" /\ pc' = [pc EXCEPT ![p] = pc'[p]] /\ pc'[p] # "use"
      /\ UNCHANGED <<mine, chat, embed, loaded>> /\ open' = open \ {old[p]}
  BY <1>p, <1>i DEF CloseOld, CloseOldEmbedder, Goto, Types
<1>2. CASE old[p] = None
  <2>1. Undisturbed(p)
    BY <1>p, <1>i, <1>1, <1>2 DEF Undisturbed, Types
  <2> QED BY <1>p, <1>1, <2>1, ChatQuiet, EmbedQuiet DEF SlotSteps
<1>3. CASE old[p] # None
  <2>1. old[p] \in Runners /\ old[p] \in open /\ (loaded \ open)' = (loaded \ open) \cup {old[p]}
    BY <1>p, <1>i, <1>1, <1>3 DEF Types, Brought
  <2>2. /\ Slot(chat.mu, chat.r)' = Slot(chat.mu, chat.r) /\ Slot(embed.mu, embed.r)' = Slot(embed.mu, embed.r)
    BY <1>p, <1>i, <1>1 DEF Slot, Types
  <2>3. \A q \in Proc : Slot(chat.mu, chat.r)[q] # old[p] /\ Slot(embed.mu, embed.r)[q] # old[p]
    BY <1>p, <1>i, <1>3, RoutesAssumption DEF Slot, Callbacks, Apart, Lines, Proc, Writers
  <2>4. old[p] # chat.r /\ old[p] # embed.r
    BY <1>i, <1>3 DEF Apart
  <2>5. ChatSlot!Retire(old[p]) /\ EmbedSlot!Retire(old[p])
    BY <1>1, <2>1, <2>2, <2>3, <2>4 DEF ChatSlot!Retire, EmbedSlot!Retire
  <2> QED BY <2>1, <2>5 DEF SlotSteps, ChatSlot!Next, EmbedSlot!Next
<1> QED BY <1>2, <1>3

\* The owner of a lock replaces the model while its slot is idle; the readers it lets in begin
\* when they wake.
LEMMA ReplaceSlot ==
    ASSUME IInv, NEW p \in Writers, (p \in Loaders /\ Swap(p)) \/ (p \in Closers /\ ClearChat(p)) \/ SwapEmbedder(p)
    PROVE  SlotSteps
<1>p. p \in Proc /\ None \notin Runners /\ None \notin Proc
  BY RoutesAssumption DEF Proc
<1>i. Types /\ Lines /\ ChatLock /\ EmbedLock /\ Brought /\ Serial
  BY DEF IInv, ModelsInv
<1>1. CASE (p \in Loaders /\ Swap(p)) \/ (p \in Closers /\ ClearChat(p))
  <2>1. /\ Undisturbed(p) /\ UNCHANGED <<embed, mine>> /\ chat.mu.readers = {} /\ chat'.mu.readers = chat.mu.waiting
        /\ chat'.r \in open \cup {None}
    BY <1>p, <1>1, <1>i, RoutesAssumption DEF Swap, ClearChat, Owns, Undisturbed, Types, Brought, Bringing
  <2>2. UNCHANGED EmbedSlot!vars
    BY <1>p, <2>1, EmbedQuiet
  <2>3. Slot(chat.mu, chat.r)' = Slot(chat.mu, chat.r)
    BY <1>p, <1>i, <2>1 DEF Slot, Undisturbed, ChatLock
  <2>4. ChatSlot!Replace
    BY <2>1, <2>3, <1>i, Idles DEF ChatSlot!Replace, Undisturbed, Types
  <2> QED BY <2>2, <2>4 DEF SlotSteps, ChatSlot!Next
<1>2. CASE SwapEmbedder(p)
  <2>1. /\ Undisturbed(p) /\ UNCHANGED chat /\ embed.mu.readers = {} /\ embed'.mu.readers = {}
        /\ embed'.r \in open \cup {None}
    BY <1>p, <1>2, <1>i, RoutesAssumption DEF SwapEmbedder, Undisturbed, Types, Brought, Bringing, EmbedLock, Lines,
       Writers
  <2>2. UNCHANGED ChatSlot!vars
    BY <1>p, <2>1, ChatQuiet
  <2>3. Slot(embed.mu, embed.r)' = Slot(embed.mu, embed.r)
    BY <1>p, <1>i, <2>1 DEF Slot, Undisturbed, EmbedLock
  <2>4. EmbedSlot!Replace
    BY <2>1, <2>3, <1>i, Idles DEF EmbedSlot!Replace, Undisturbed, Types
  <2> QED BY <2>2, <2>4 DEF SlotSteps, EmbedSlot!Next
<1> QED BY <1>1, <1>2

\* The other steps of a writer.
LEMMA WriterQuiet ==
    ASSUME IInv, NEW p \in Writers,
           \/ (\E r \in Runners : Load(p, r)) \/ LoadFails(p) \/ Serialize(p) \/ Announce(p) \/ Tell(p)
           \/ AnnounceEmbedder(p) \/ LockTuning(p) \/ RefuseTuning(p) \/ Calibrate(p) \/ CalibrationFails(p)
           \/ Calibrated(p) \/ BeginClose(p) \/ WaitClose(p) \/ WaitedClose(p) \/ EndClose(p)
    PROVE  SlotSteps
<1>p. p \in Proc
  BY DEF Proc
<1>i. Types /\ ChatLock
  BY DEF IInv, ModelsInv
<1> USE <1>p, <1>i DEF Types, Undisturbed, Goto, hold, models, loads
<1>1. Undisturbed(p)
  <2>1. CASE (\E r \in Runners : Load(p, r)) \/ LoadFails(p) \/ Serialize(p) \/ Announce(p) \/ Tell(p)
    BY <2>1 DEF Load, LoadFails, Serialize, Announce, Tell
  <2>2. CASE AnnounceEmbedder(p) \/ LockTuning(p) \/ RefuseTuning(p) \/ Calibrate(p)
    BY <2>2 DEF AnnounceEmbedder, LockTuning, RefuseTuning, Calibrate, Owns
  <2>3. CASE CalibrationFails(p) \/ Calibrated(p)
    BY <2>3 DEF CalibrationFails, Calibrated, Owns
  <2>4. CASE BeginClose(p) \/ WaitClose(p) \/ WaitedClose(p) \/ EndClose(p)
    BY <2>4 DEF BeginClose, WaitClose, WaitedClose, EndClose
  <2> QED BY <2>1, <2>2, <2>3, <2>4
<1>2. /\ chat'.r = chat.r /\ embed'.r = embed.r /\ embed'.mu.readers = embed.mu.readers
      /\ \/ chat'.mu.readers = chat.mu.readers
         \/ chat.mu.readers = {} /\ chat'.mu.readers = chat.mu.waiting
  <2>1. CASE (\E r \in Runners : Load(p, r)) \/ LoadFails(p) \/ Serialize(p) \/ Announce(p) \/ Tell(p)
    BY <2>1 DEF Load, LoadFails, Serialize, Announce, Tell
  <2>2. CASE AnnounceEmbedder(p) \/ LockTuning(p) \/ RefuseTuning(p) \/ Calibrate(p)
    BY <2>2 DEF AnnounceEmbedder, LockTuning, RefuseTuning, Calibrate
  <2>3. CASE CalibrationFails(p) \/ Calibrated(p)
    <3>1. chat.mu.readers = {}
      BY <2>3 DEF CalibrationFails, Calibrated, Owns, ChatLock
    <3>2. chat'.mu = RW!AfterUnlock(chat.mu) /\ chat'.r = chat.r /\ UNCHANGED embed
      BY <2>3 DEF CalibrationFails, Calibrated
    <3> QED BY <3>1, <3>2
  <2>4. CASE BeginClose(p) \/ WaitClose(p) \/ WaitedClose(p) \/ EndClose(p)
    BY <2>4 DEF BeginClose, WaitClose, WaitedClose, EndClose
  <2> QED BY <2>1, <2>2, <2>3, <2>4
<1>3. \A q \in Proc : q \in chat.mu.waiting => pc[q] # "use"
  BY DEF ChatLock
<1>4. \A q \in Proc : pc[q] = "use" => (q \in chat.mu.readers <=> q \in chat'.mu.readers)
  BY <1>2, <1>3
<1> QED BY <1>1, <1>2, <1>4, ChatQuiet, EmbedQuiet DEF SlotSteps

\* Requests work with one model from their beginning to their end, and both the chat model and
\* the embedder are closed only after they have been replaced and nobody works with them.
THEOREM SlotsImplemented == Spec => ImplementsModelSlots
<1>1. Init => ChatSlot!Init /\ EmbedSlot!Init
  BY DEF Init, ChatSlot!Init, EmbedSlot!Init, Slot
<1>2. IInv /\ [Next]_vars => SlotSteps
  <2>1. ASSUME IInv, Next PROVE SlotSteps
    <3>1. ASSUME NEW p \in Loaders \cup EmbedLoaders, LoadModel(p) PROVE SlotSteps
      <4>1. p \in Writers /\ (Swap(p) => p \in Loaders)
        BY DEF Writers, Swap
      <4> QED BY <2>1, <3>1, <4>1, RetireSlot, ReplaceSlot, WriterQuiet DEF LoadModel
    <3>2. ASSUME NEW p \in Tuners, Tune(p) PROVE SlotSteps
      <4>1. p \in Writers
        BY DEF Writers
      <4> QED BY <2>1, <3>2, <4>1, WriterQuiet DEF Tune
    <3>3. ASSUME NEW p \in Closers, Close(p) PROVE SlotSteps
      <4>1. p \in Writers
        BY DEF Writers
      <4> QED BY <2>1, <3>3, <4>1, RetireSlot, ReplaceSlot, WriterQuiet DEF Close
    <3> QED BY <2>1, <3>1, <3>2, <3>3, ArrivalSlot, ReadSlot DEF Next
  <2>2. ASSUME UNCHANGED vars PROVE SlotSteps
    BY <2>2 DEF vars, SlotSteps, ChatSlot!vars, EmbedSlot!vars, Slot
  <2> QED BY <2>1, <2>2
<1> QED BY <1>1, <1>2, Invariance, PTL DEF Spec, ImplementsModelSlots, ChatSlot!Spec, EmbedSlot!Spec, SlotSteps
=============================================================================
