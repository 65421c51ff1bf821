------------------------- MODULE MobileEngineProofs -------------------------
(***************************************************************************)
(* Proofs about MobileEngine, for any number of threads and models: the     *)
(* model stays while it is used, Cancel reaches the running generation, and *)
(* the engine is a model slot.                                              *)
(***************************************************************************)
EXTENDS MobileEngine, FiniteSetTheorems, TLAPS

USE DEF RW!Unlocked, RW!Shared, RW!Exclusive, RW!AfterRLock, RW!AfterBlockedRLock,
        RW!AfterRUnlock, RW!AfterAnnounce, RW!AfterUnlock, RW!Lock

\* The lines of a user that holds the read lock, of a generation that holds gen, and of a
\* writer that is announced or owns the lock.
ReadPC  == {"find", "arm", "stream", "disarm", "count", "runlock"}
GenPC   == {"life", "blocked", "find", "arm", "stream", "disarm", "runlock", "ungen"}
OwnPC   == {"open", "close", "unlock"}
WritePC == OwnPC \cup {"drain"}

Types ==
    /\ pc \in [Proc -> PC]
    /\ life \in RW!Lock /\ gen \in Generators \cup {None}
    /\ model \in Models \cup {None} /\ closed \in BOOLEAN
    /\ cancel \in Generators \cup {None} /\ done \subseteq Generators
    /\ mine \in [Proc -> Models \cup {None}]
    /\ open \subseteq loaded /\ loaded \subseteq Models

\* Where each kind of thread can be.
Lines ==
    /\ \A p \in Users : pc[p] \in ReadPC \cup {"idle", "gen", "life", "blocked", "ungen"}
    /\ \A p \in Counters : pc[p] \notin {"gen", "arm", "stream", "disarm", "ungen"}
    /\ \A p \in Generators : pc[p] # "count"
    /\ \A p \in Writers : pc[p] \in WritePC \cup {"idle", "lock"}
    /\ \A p \in Loaders : pc[p] # "close"
    /\ \A p \in Releasers : pc[p] # "open"

\* life: its readers are the users at a line that reads, and those about to wake; a writer
\* that owns it has waited for all of them.
LifeInv ==
    /\ \A p \in Proc : /\ pc[p] \in ReadPC => p \in life.readers
                       /\ p \in life.readers => p \in Users /\ pc[p] \in ReadPC \cup {"blocked"}
                       /\ p \in life.waiting => p \in Users /\ pc[p] = "blocked"
                       /\ pc[p] \in WritePC => life.writer = p
    /\ life.writer # None => life.writer \in Writers /\ pc[life.writer] \in WritePC
    /\ \A p \in Proc : pc[p] \in OwnPC => life.readers = {}
    /\ life.readers \cap life.waiting = {}

\* gen belongs to one generation, and cancel to it while it streams.
GenInv ==
    /\ \A p \in Generators : pc[p] \in GenPC => gen = p
    /\ cancel # None => pc[cancel] \in {"stream", "disarm"}

\* A user has the engine's model between finding it and its unlock; one releaser has what
\* it took out.
MineInv ==
    /\ \A p \in Users : mine[p] # None => pc[p] \in ReadPC \ {"find"} /\ mine[p] = model
    /\ \A p \in Users : pc[p] \in {"arm", "stream", "disarm", "count"} => mine[p] # None
    /\ \A p \in Writers : mine[p] # None => pc[p] = "close"

\* The engine's model is the one that is mapped, but for one that is being closed.
OpenInv ==
    /\ model # None => open = {model}
    /\ \A p \in Proc : pc[p] \in {"open", "close"} => model = None
    /\ \A m \in open : m = model \/ (\E p \in Releasers : pc[p] = "close" /\ mine[p] = m)
    /\ \A p \in Releasers : pc[p] = "close" /\ mine[p] # None => mine[p] \in open

IInv == Types /\ Lines /\ LifeInv /\ GenInv /\ MineInv /\ OpenInv

-----------------------------------------------------------------------------
LEMMA InitHolds == Init => IInv
<1> SUFFICES ASSUME Init PROVE IInv
  OBVIOUS
<1> USE ThreadsAssumption DEF Init, PC, ReadPC, GenPC, OwnPC, WritePC
<1>1. \A p \in Proc : pc[p] = "idle" /\ mine[p] = None
  OBVIOUS
<1>2. Types
  BY DEF Types
<1>3. Lines
  BY <1>1 DEF Lines, Users, Writers, Proc
<1>4. LifeInv
  BY <1>1 DEF LifeInv
<1>5. GenInv
  BY <1>1 DEF GenInv, Users, Proc
<1>6. MineInv
  BY <1>1 DEF MineInv, Users, Writers, Proc
<1>7. OpenInv
  BY <1>1 DEF OpenInv, Writers, Proc
<1> QED BY <1>2, <1>3, <1>4, <1>5, <1>6, <1>7 DEF IInv

\* Every step of a generation or a token count.
LEMMA UserKeeps ==
    ASSUME IInv, NEW p \in Users, Request(p) \/ Use(p)
    PROVE  IInv'
<1> USE ThreadsAssumption DEF IInv, Types, Lines, LifeInv, GenInv, MineInv, OpenInv, PC, ReadPC, GenPC, OwnPC,
        WritePC, Users, Writers, Proc, Goto, engine, stop, files
<1>1. CASE Request(p) BY <1>1 DEF Request
<1>2. CASE TakeGen(p) BY <1>2 DEF TakeGen
<1>3. CASE RLock(p) BY <1>3 DEF RLock
<1>4. CASE Block(p) BY <1>4 DEF Block
<1>5. CASE Unblock(p) BY <1>5 DEF Unblock
<1>6. CASE Find(p) BY <1>6 DEF Find
<1>7. CASE Arm(p) BY <1>7 DEF Arm
<1>8. CASE EndStream(p) BY <1>8 DEF EndStream
<1>9. CASE Disarm(p) BY <1>9 DEF Disarm
<1>10. CASE EndCount(p) BY <1>10 DEF EndCount
<1>11. CASE RUnlock(p) BY <1>11 DEF RUnlock
<1>12. CASE ReleaseGen(p) BY <1>12 DEF ReleaseGen
<1> QED BY <1>1, <1>2, <1>3, <1>4, <1>5, <1>6, <1>7, <1>8, <1>9, <1>10, <1>11, <1>12 DEF Use

\* Every step of a Load.
LEMMA LoadKeeps ==
    ASSUME IInv, NEW p \in Loaders, StartLoad(p) \/ Load(p)
    PROVE  IInv'
<1> USE ThreadsAssumption DEF IInv, Types, Lines, LifeInv, GenInv, MineInv, OpenInv, PC, ReadPC, GenPC, OwnPC,
        WritePC, Users, Writers, Proc, Goto, engine, stop, files
<1>1. CASE StartLoad(p) BY <1>1 DEF StartLoad
<1>2. CASE Announce(p) BY <1>2 DEF Announce
<1>3. CASE CheckLoad(p) BY <1>3 DEF CheckLoad, Owns
<1>4. CASE \E m \in Models : Open(p, m) BY <1>4 DEF Open
<1>5. CASE OpenFails(p) BY <1>5 DEF OpenFails
<1>6. CASE Unlock(p) BY <1>6 DEF Unlock
<1> QED BY <1>1, <1>2, <1>3, <1>4, <1>5, <1>6 DEF Load

\* Every step of an Unload or a Close.
LEMMA ReleaseKeeps ==
    ASSUME IInv, NEW p \in Releasers, StartRelease(p) \/ Release(p)
    PROVE  IInv'
<1> USE ThreadsAssumption DEF IInv, Types, Lines, LifeInv, GenInv, MineInv, OpenInv, PC, ReadPC, GenPC, OwnPC,
        WritePC, Users, Writers, Proc, Goto, engine, stop, files
<1>1. CASE StartRelease(p) BY <1>1 DEF StartRelease, Cancelled
<1>2. CASE Announce(p) BY <1>2 DEF Announce
<1>3. CASE \E closing \in BOOLEAN : TakeOut(p, closing) BY <1>3 DEF TakeOut, Owns
<1>4. CASE CloseModel(p) BY <1>4 DEF CloseModel
<1>5. CASE Unlock(p) BY <1>5 DEF Unlock
<1> QED BY <1>1, <1>2, <1>3, <1>4, <1>5 DEF Release

\* Cancel ends a context, wherever the threads are.
LEMMA CancelKeeps ==
    ASSUME IInv, Cancel
    PROVE  IInv'
BY DEF Cancel, Cancelled, IInv, Types, Lines, LifeInv, GenInv, MineInv, OpenInv, engine, files

\* The invariant holds in every state.
THEOREM Invariance == Spec => []IInv
<1>1. IInv /\ [Next]_vars => IInv'
  <2>1. ASSUME IInv, Next PROVE IInv'
    BY <2>1, UserKeeps, LoadKeeps, ReleaseKeeps, CancelKeeps DEF Next
  <2>2. ASSUME IInv, UNCHANGED vars PROVE IInv'
    BY <2>2 DEF vars, IInv, Types, Lines, LifeInv, GenInv, MineInv, OpenInv
  <2> QED BY <2>1, <2>2
<1> QED BY <1>1, InitHolds, PTL DEF Spec

-----------------------------------------------------------------------------
\* What is mapped is the engine's model, or what the one writer took out of it.
LEMMA OneOpen ==
    ASSUME IInv
    PROVE  Cardinality(open) <= 1
<1> DEFINE m == IF model # None THEN model ELSE mine[life.writer]
<1>1. open \subseteq {m}
  BY ThreadsAssumption DEF IInv, Types, LifeInv, OpenInv, WritePC, OwnPC, Proc, Writers
<1>2. IsFiniteSet({m}) /\ Cardinality({m}) = 1
  BY FS_Singleton
<1>3. IsFiniteSet(open) /\ Cardinality(open) <= 1
  BY <1>1, <1>2, FS_Subset
<1> QED BY <1>3

\* Cancel stops the running generation and no other, and at most one model is mapped:
\* e.cancel is set and reset while its generation holds gen and the model.
THEOREM CancelReaches == Spec => []CancelTargetsRunning
<1>1. ASSUME IInv PROVE CancelTargetsRunning
  <2>1. TypeOK
    BY <1>1, OneOpen DEF IInv, Types, TypeOK
  <2>2. ASSUME cancel # None PROVE gen = cancel /\ pc[cancel] \in {"stream", "disarm"} /\ mine[cancel] = model
    BY <1>1, <2>2 DEF IInv, Types, GenInv, MineInv, GenPC, Users
  <2> QED BY <2>1, <2>2 DEF CancelTargetsRunning
<1> QED BY <1>1, Invariance, PTL

-----------------------------------------------------------------------------
(* The engine is a model slot.                                              *)

LEMMA SlotStutter ==
    ASSUME UNCHANGED <<model, mine, open, loaded>>
    PROVE  UNCHANGED Slot!vars
BY DEF Slot!vars

\* A user begins when it finds a model, and ends with its unlock.
LEMMA UserSlot ==
    ASSUME IInv, NEW p \in Users, Request(p) \/ Use(p)
    PROVE  [Slot!Next]_(Slot!vars)
<1> USE ThreadsAssumption DEF Goto, engine, stop, files
<1>1. CASE Find(p)
  <2>1. CASE model = None
    BY <1>1, <2>1, SlotStutter DEF Find
  <2>2. CASE model # None
    <3>1. Slot!Begin(p)
      BY <1>1, <2>2 DEF Find, Slot!Begin, IInv, Types, MineInv, ReadPC, Users, Proc
    <3> QED BY <3>1 DEF Slot!Next
  <2> QED BY <2>1, <2>2
<1>2. CASE RUnlock(p)
  <2>1. Slot!End(p)
    BY <1>2 DEF RUnlock, Slot!End, IInv, Types, Users, Proc
  <2> QED BY <2>1 DEF Slot!Next
<1>3. CASE Request(p) \/ TakeGen(p) \/ RLock(p) \/ Block(p) \/ Unblock(p)
  BY <1>3, SlotStutter DEF Request, TakeGen, RLock, Block, Unblock
<1>4. CASE Arm(p) \/ EndStream(p) \/ Disarm(p) \/ EndCount(p) \/ ReleaseGen(p)
  BY <1>4, SlotStutter DEF Arm, EndStream, Disarm, EndCount, ReleaseGen
<1> QED BY <1>1, <1>2, <1>3, <1>4 DEF Use

\* The owner of the lock replaces the model when no user has one.
LEMMA OwnerIdle ==
    ASSUME IInv, NEW p \in Writers, Owns(p) \/ pc[p] \in OwnPC
    PROVE  Slot!Idle
BY DEF Slot!Idle, Owns, IInv, Types, LifeInv, MineInv, ReadPC, Users, Writers, Proc

LEMMA LoadSlot ==
    ASSUME IInv, NEW p \in Loaders, StartLoad(p) \/ Load(p)
    PROVE  [Slot!Next]_(Slot!vars)
<1> USE ThreadsAssumption DEF Goto, engine, stop, files
<1>1. CASE \E m \in Models : Open(p, m)
  <2>1. PICK m \in Models : Open(p, m)
    BY <1>1
  <2>2. Slot!Idle
    BY <2>1, OwnerIdle DEF Open, OwnPC, Writers
  <2>3. Slot!Replace
    BY <2>1, <2>2 DEF Open, Slot!Replace, IInv, Types
  <2> QED BY <2>3 DEF Slot!Next
<1>2. CASE StartLoad(p) \/ Announce(p) \/ CheckLoad(p) \/ OpenFails(p) \/ Unlock(p)
  BY <1>2, SlotStutter DEF StartLoad, Announce, CheckLoad, OpenFails, Unlock
<1> QED BY <1>1, <1>2 DEF Load

\* A release takes the model out, and retires it afterwards.
LEMMA ReleaseSlot ==
    ASSUME IInv, NEW p \in Releasers, StartRelease(p) \/ Release(p)
    PROVE  [Slot!Next]_(Slot!vars)
<1> USE ThreadsAssumption DEF Goto, engine, stop, files
<1>1. CASE \E closing \in BOOLEAN : TakeOut(p, closing)
  <2>1. Slot!Idle
    BY <1>1, OwnerIdle DEF TakeOut, Writers
  <2>2. Slot!Replace
    BY <1>1, <2>1 DEF TakeOut, Slot!Replace, IInv, Types, Users, Writers, Proc
  <2> QED BY <2>2 DEF Slot!Next
<1>2. CASE CloseModel(p)
  <2>1. CASE mine[p] = None
    BY <1>2, <2>1 DEF CloseModel, IInv, Types, Slot!vars, Users, Writers, Proc
  <2>2. CASE mine[p] # None
    <3>1. Slot!Idle
      BY <1>2, OwnerIdle DEF CloseModel, OwnPC, Writers
    <3>2. mine[p] \in Models /\ mine[p] \in open /\ model = None
      BY <1>2, <2>2 DEF CloseModel, IInv, Types, OpenInv, Writers, Proc
    <3>3. (loaded \ open)' = (loaded \ open) \cup {mine[p]}
      BY <1>2, <3>2 DEF CloseModel, IInv, Types
    <3>4. [q \in Users |-> mine[q]]' = [q \in Users |-> mine[q]]
      BY <1>2 DEF CloseModel, IInv, Types, Users, Writers, Proc
    <3>5. Slot!Retire(mine[p])
      BY <1>2, <2>2, <3>1, <3>2, <3>3, <3>4 DEF CloseModel, Slot!Retire, Slot!Idle
    <3> QED BY <3>2, <3>5 DEF Slot!Next
  <2> QED BY <2>1, <2>2
<1>3. CASE StartRelease(p) \/ Announce(p) \/ Unlock(p)
  BY <1>3, SlotStutter DEF StartRelease, Announce, Unlock
<1> QED BY <1>1, <1>2, <1>3 DEF Release

\* "Weights are never unmapped under inference": a generation and a token count keep the
\* model they found until they return, and Unload and Close unmap it after that.
THEOREM SlotImplemented == Spec => ImplementsModelSlot
<1>1. Init => Slot!Init
  BY DEF Init, Slot!Init, Users, Proc
<1>2. IInv /\ [Next]_vars => [Slot!Next]_(Slot!vars)
  <2>1. ASSUME IInv, Next PROVE [Slot!Next]_(Slot!vars)
    <3>1. CASE Cancel
      BY <3>1, SlotStutter DEF Cancel, engine, files
    <3> QED BY <2>1, <3>1, UserSlot, LoadSlot, ReleaseSlot DEF Next
  <2>2. ASSUME UNCHANGED vars PROVE UNCHANGED Slot!vars
    BY <2>2, SlotStutter DEF vars
  <2> QED BY <2>1, <2>2
<1> QED BY <1>1, <1>2, Invariance, PTL DEF Spec, ImplementsModelSlot, Slot!Spec
=============================================================================
