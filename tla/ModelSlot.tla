------------------------------ MODULE ModelSlot ------------------------------
(***************************************************************************)
(* What a replaceable model promises to the requests it serves: a request   *)
(* works with the model it found from its beginning to its end, the model   *)
(* changes only between requests, and a model is closed only once it has    *)
(* been replaced and nobody works with it.                                  *)
(***************************************************************************)
CONSTANTS Proc, Model, None

VARIABLES current, using, closed

vars == <<current, using, closed>>

Init ==
    /\ current \in Model \cup {None}
    /\ using = [p \in Proc |-> None]
    /\ closed = {}

Idle == \A p \in Proc : using[p] = None

Begin(p) ==
    /\ using[p] = None /\ current # None
    /\ using' = [using EXCEPT ![p] = current]
    /\ UNCHANGED <<current, closed>>

End(p) ==
    /\ using' = [using EXCEPT ![p] = None]
    /\ UNCHANGED <<current, closed>>

Replace ==
    /\ Idle
    /\ current' \in (Model \ closed) \cup {None}
    /\ UNCHANGED <<using, closed>>

Retire(m) ==
    /\ m # current /\ \A p \in Proc : using[p] # m
    /\ closed' = closed \cup {m}
    /\ UNCHANGED <<current, using>>

Next == Replace \/ (\E p \in Proc : Begin(p) \/ End(p)) \/ (\E m \in Model : Retire(m))

Spec == Init /\ [][Next]_vars

=============================================================================
