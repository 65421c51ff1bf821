------------------------------ MODULE GoRWMutex ------------------------------
(***************************************************************************)
(* The states of a Go sync.RWMutex, as the runner's modelMu and visionMu    *)
(* and the server's state locks use it.  A lock is a record:                *)
(*   readers  the goroutines that hold a read lock                          *)
(*   waiting  the goroutines blocked in RLock behind a writer               *)
(*   writer   the goroutine inside Lock..Unlock, or None.                   *)
(* A writer announces itself first (from then on no RLock or TryRLock       *)
(* succeeds) and owns the lock once the readers of that moment have left.   *)
(* Its Unlock hands the lock to every reader blocked behind it.             *)
(***************************************************************************)
CONSTANTS Proc, None

Lock == [readers : SUBSET Proc, waiting : SUBSET Proc, writer : Proc \cup {None}]

Unlocked == [readers |-> {}, waiting |-> {}, writer |-> None]

\* TryRLock succeeds, and RLock does not block, exactly when no writer is announced.
Shared(m) == m.writer = None

\* The announced writer owns the lock: every earlier reader has left.
Exclusive(m) == m.writer # None /\ m.readers = {}

AfterRLock(m, p) == [m EXCEPT !.readers = @ \cup {p}]

AfterBlockedRLock(m, p) == [m EXCEPT !.waiting = @ \cup {p}]

AfterRUnlock(m, p) == [m EXCEPT !.readers = @ \ {p}]

AfterAnnounce(m, p) == [m EXCEPT !.writer = p]

AfterUnlock(m) == [readers |-> m.waiting, waiting |-> {}, writer |-> None]

=============================================================================
