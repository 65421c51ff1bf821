---------------------------- MODULE MobileEngine ----------------------------
(***************************************************************************)
(* The Engine that the mobile bindings hand to an app (mobile/engine.go):   *)
(* at most one loaded model, a lock that keeps it loaded while it is used   *)
(* (life), one that queues the generations (gen), and the cancel function   *)
(* of the generation in progress, guarded by mu, which is held for single   *)
(* assignments only and so is not a variable here.                          *)
(*                                                                          *)
(* Any thread may call any method; the app may press Cancel at any time,    *)
(* and a stream's callback may do so too.                                   *)
(***************************************************************************)
EXTENDS Naturals, FiniteSets

CONSTANTS
    Generators,     \* threads in Generate, Chat, GenerateStream or ChatStream
    Counters,       \* threads in CountTokens
    Loaders,        \* threads in Load
    Releasers,      \* threads in Unload or Close
    Models,         \* bound: the models that are ever opened
    None            \* no thread, no model

Users   == Generators \cup Counters
Writers == Loaders \cup Releasers
Proc    == Users \cup Writers

ASSUME ThreadsAssumption ==
    /\ Generators \cap Counters = {} /\ Loaders \cap Releasers = {} /\ Users \cap Writers = {}
    /\ None \notin Proc \cup Models

VARIABLES
    pc,
    life, gen,      \* the RWMutex and the Mutex
    model, closed,  \* e.model (with its info) and e.closed
    cancel,         \* whose context e.cancel ends, or None
    done,           \* the generations whose context has been cancelled
    mine,           \* the model a user found, or a releaser took out
    open, loaded    \* the models that are mapped; those that ever were

vars == <<pc, life, gen, model, closed, cancel, done, mine, open, loaded>>

RW == INSTANCE GoRWMutex

PC == {"idle", "gen", "life", "blocked", "find", "arm", "stream", "disarm", "count",
       "runlock", "ungen", "cancel", "lock", "drain", "open", "close", "unlock"}

TypeOK ==
    /\ pc \in [Proc -> PC]
    /\ life \in RW!Lock /\ gen \in Generators \cup {None}
    /\ model \in Models \cup {None} /\ closed \in BOOLEAN
    /\ cancel \in Generators \cup {None} /\ done \subseteq Generators
    /\ mine \in [Proc -> Models \cup {None}]
    /\ open \subseteq loaded /\ loaded \subseteq Models
    /\ Cardinality(open) <= 1

\* NewEngine
Init ==
    /\ pc = [p \in Proc |-> "idle"]
    /\ life = RW!Unlocked /\ gen = None
    /\ model = None /\ closed = FALSE
    /\ cancel = None /\ done = {}
    /\ mine = [p \in Proc |-> None]
    /\ open = {} /\ loaded = {}

Goto(p, from, to) == pc[p] = from /\ pc' = [pc EXCEPT ![p] = to]

engine == <<model, closed>>
stop   == <<cancel, done>>
files  == <<open, loaded>>

-----------------------------------------------------------------------------
(* Generations and CountTokens use the model under life, held shared.       *)

Request(p) ==
    /\ Goto(p, "idle", IF p \in Generators THEN "gen" ELSE "life")
    /\ UNCHANGED <<life, gen, engine, stop, mine, files>>

TakeGen(p) ==
    /\ gen = None
    /\ Goto(p, "gen", "life")
    /\ gen' = p
    /\ UNCHANGED <<life, engine, stop, mine, files>>

RLock(p) ==
    /\ RW!Shared(life)
    /\ Goto(p, "life", "find")
    /\ life' = RW!AfterRLock(life, p)
    /\ UNCHANGED <<gen, engine, stop, mine, files>>

Block(p) ==
    /\ ~RW!Shared(life)
    /\ Goto(p, "life", "blocked")
    /\ life' = RW!AfterBlockedRLock(life, p)
    /\ UNCHANGED <<gen, engine, stop, mine, files>>

Unblock(p) ==
    /\ p \in life.readers
    /\ Goto(p, "blocked", "find")
    /\ UNCHANGED <<life, gen, engine, stop, mine, files>>

\* loadedModel: ErrClosed and ErrNoModel leave at once. A generation gets a
\* context of its own.
Find(p) ==
    /\ IF model = None
       THEN Goto(p, "find", "runlock") /\ UNCHANGED mine
       ELSE /\ Goto(p, "find", IF p \in Generators THEN "arm" ELSE "count")
            /\ mine' = [mine EXCEPT ![p] = model]
    /\ UNCHANGED <<life, gen, engine, stop, files>>

Arm(p) ==
    /\ Goto(p, "arm", "stream")
    /\ cancel' = p
    /\ UNCHANGED <<life, gen, engine, done, mine, files>>

\* m.Stream returns: the answer is complete or failed, or its context is done.
EndStream(p) ==
    /\ Goto(p, "stream", "disarm")
    /\ UNCHANGED <<life, gen, engine, stop, mine, files>>

\* Defect: the finished generation's cancel function stays behind.
DisarmNot(p) ==
    /\ Goto(p, "disarm", "runlock")
    /\ UNCHANGED <<life, gen, engine, stop, mine, files>>

Disarm(p) ==
    /\ Goto(p, "disarm", "runlock")
    /\ cancel' = None /\ done' = done \ {p}
    /\ UNCHANGED <<life, gen, engine, mine, files>>

EndCount(p) ==
    /\ Goto(p, "count", "runlock")
    /\ UNCHANGED <<life, gen, engine, stop, mine, files>>

RUnlock(p) ==
    /\ Goto(p, "runlock", IF p \in Generators THEN "ungen" ELSE "idle")
    /\ life' = RW!AfterRUnlock(life, p)
    /\ mine' = [mine EXCEPT ![p] = None]
    /\ UNCHANGED <<gen, engine, stop, files>>

\* The last callback of a stream, OnComplete or OnError, comes after this.
ReleaseGen(p) ==
    /\ Goto(p, "ungen", "idle")
    /\ gen' = None
    /\ UNCHANGED <<life, engine, stop, mine, files>>

-----------------------------------------------------------------------------
(* Cancel, Load, Unload and Close.                                          *)

Cancelled == IF cancel = None THEN done ELSE done \cup {cancel}

Cancel ==
    /\ done' = Cancelled
    /\ UNCHANGED <<pc, life, gen, engine, cancel, mine, files>>

StartLoad(p) ==
    /\ Goto(p, "idle", "lock")
    /\ UNCHANGED <<life, gen, engine, stop, mine, files>>

\* release cancels first, with the lock still to be waited for.
StartRelease(p) ==
    /\ Goto(p, "idle", "lock")
    /\ done' = Cancelled
    /\ UNCHANGED <<life, gen, engine, cancel, mine, files>>

Announce(p) ==
    /\ RW!Shared(life)
    /\ Goto(p, "lock", "drain")
    /\ life' = RW!AfterAnnounce(life, p)
    /\ UNCHANGED <<gen, engine, stop, mine, files>>

Owns(p) == life.writer = p /\ RW!Exclusive(life)

\* ErrClosed, ErrLoaded, or a model that is opened, or cannot be.
CheckLoad(p) ==
    /\ Owns(p)
    /\ Goto(p, "drain", IF closed \/ model # None THEN "unlock" ELSE "open")
    /\ UNCHANGED <<life, gen, engine, stop, mine, files>>

Open(p, m) ==
    /\ m \notin loaded
    /\ Goto(p, "open", "unlock")
    /\ model' = m
    /\ open' = open \cup {m} /\ loaded' = loaded \cup {m}
    /\ UNCHANGED <<life, gen, closed, stop, mine>>

OpenFails(p) ==
    /\ Goto(p, "open", "unlock")
    /\ UNCHANGED <<life, gen, engine, stop, mine, files>>

\* Defect: the model is taken out without waiting for its users.
TakeOutAtOnce(p, closing) ==
    /\ life.writer = p
    /\ Goto(p, "drain", "close")
    /\ mine' = [mine EXCEPT ![p] = model]
    /\ model' = None /\ closed' = (closed \/ closing)
    /\ UNCHANGED <<life, gen, stop, files>>

TakeOut(p, closing) ==
    /\ Owns(p)
    /\ Goto(p, "drain", "close")
    /\ mine' = [mine EXCEPT ![p] = model]
    /\ model' = None /\ closed' = (closed \/ closing)
    /\ UNCHANGED <<life, gen, stop, files>>

\* m.Close, with the lock still held.
CloseModel(p) ==
    /\ Goto(p, "close", "unlock")
    /\ open' = open \ {mine[p]}
    /\ mine' = [mine EXCEPT ![p] = None]
    /\ UNCHANGED <<life, gen, engine, stop, loaded>>

\* Defect: the early returns of Load keep the lock.
UnlockIfLoaded(p) ==
    /\ Goto(p, "unlock", "idle")
    /\ life' = IF p \in Loaders /\ closed THEN life ELSE RW!AfterUnlock(life)
    /\ UNCHANGED <<gen, engine, stop, mine, files>>

Unlock(p) ==
    /\ Goto(p, "unlock", "idle")
    /\ life' = RW!AfterUnlock(life)
    /\ UNCHANGED <<gen, engine, stop, mine, files>>

-----------------------------------------------------------------------------
Use(p) ==
    \/ TakeGen(p) \/ RLock(p) \/ Block(p) \/ Unblock(p) \/ Find(p) \/ Arm(p)
    \/ EndStream(p) \/ Disarm(p) \/ EndCount(p) \/ RUnlock(p) \/ ReleaseGen(p)

Load(p) == Announce(p) \/ CheckLoad(p) \/ (\E m \in Models : Open(p, m)) \/ OpenFails(p) \/ Unlock(p)

Release(p) == Announce(p) \/ (\E closing \in BOOLEAN : TakeOut(p, closing)) \/ CloseModel(p) \/ Unlock(p)

Next ==
    \/ \E p \in Users : Request(p) \/ Use(p)
    \/ \E p \in Loaders : StartLoad(p) \/ Load(p)
    \/ \E p \in Releasers : StartRelease(p) \/ Release(p)
    \/ Cancel

Spec == Init /\ [][Next]_vars

-----------------------------------------------------------------------------
(* Properties.                                                              *)

\* Cancel "stops this Engine's running generation": e.cancel is that of a
\* generation that has the model and has not returned, never that of one that
\* is over, and none is left behind for a later request to be hit by.
CancelTargetsRunning ==
    /\ TypeOK
    /\ cancel # None => gen = cancel /\ pc[cancel] \in {"stream", "disarm"} /\ mine[cancel] = model

\* "Weights are never unmapped under inference", and a request sees one model
\* from its beginning to its end: the engine is a model slot.
Slot == INSTANCE ModelSlot WITH
    Proc <- Users, Model <- Models, current <- model, closed <- loaded \ open,
    using <- [p \in Users |-> mine[p]]

ImplementsModelSlot == Slot!Spec

\* Threads are scheduled, generations end (a cancelled one early), opening a
\* file returns. sync.Mutex and the writer lock serve waiters in turn (SF).
Fairness ==
    /\ \A p \in Users : WF_vars(Use(p)) /\ SF_vars(TakeGen(p))
    /\ \A p \in Loaders : WF_vars(Load(p)) /\ SF_vars(Announce(p))
    /\ \A p \in Releasers : WF_vars(Release(p)) /\ SF_vars(Announce(p))

LiveSpec == Spec /\ Fairness

\* Every method returns: generations queued behind one another and behind a
\* Load or Close, CountTokens, Load, Unload and Close, and early returns
\* leave no lock behind.
CallsReturn == \A p \in Proc : pc[p] # "idle" ~> pc[p] = "idle"

=============================================================================
