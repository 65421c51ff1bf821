----------------------------- MODULE ModelLease -----------------------------
(***************************************************************************)
(* What a Runner promises about its weights, without saying how: operations *)
(* begin only while the model is open, at most one of them works in the     *)
(* shared generation workspace, the model is shut only when no operation    *)
(* uses it, and its storage is given up only after that.                    *)
(***************************************************************************)
CONSTANTS Proc, None

VARIABLES open, users, worker, disposed

vars == <<open, users, worker, disposed>>

Init == open = TRUE /\ users = {} /\ worker = None /\ disposed = FALSE

Begin(p) ==
    /\ open /\ p \notin users
    /\ users' = users \cup {p}
    /\ UNCHANGED <<open, worker, disposed>>

Work(p) ==
    /\ p \in users /\ worker = None
    /\ worker' = p
    /\ UNCHANGED <<open, users, disposed>>

End(p) ==
    /\ p \in users
    /\ users' = users \ {p}
    /\ worker' = IF worker = p THEN None ELSE worker
    /\ UNCHANGED <<open, disposed>>

Shut ==
    /\ users = {}
    /\ open' = FALSE
    /\ UNCHANGED <<users, worker, disposed>>

Dispose ==
    /\ ~open
    /\ disposed' = TRUE
    /\ UNCHANGED <<open, users, worker>>

Next == Shut \/ Dispose \/ \E p \in Proc : Begin(p) \/ Work(p) \/ End(p)

Spec == Init /\ [][Next]_vars

=============================================================================
