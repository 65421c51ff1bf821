----------------------------- MODULE ParallelFor -----------------------------
(***************************************************************************)
(* What a parallel dispatch promises its caller: each chunk of the call is  *)
(* run exactly once before the call returns, whatever other calls run.      *)
(***************************************************************************)
EXTENDS Naturals

CONSTANTS Caller, MaxChunks

VARIABLES
    chunks,     \* chunks[d]: the size of d's current call, 0 between calls
    ran         \* ran[d][c]: how often chunk c of that call was run

vars == <<chunks, ran>>

Zero == [c \in 0 .. MaxChunks - 1 |-> 0]

Init == chunks = [d \in Caller |-> 0] /\ ran = [d \in Caller |-> Zero]

Call(d) ==
    /\ chunks[d] = 0
    /\ \E n \in 1 .. MaxChunks : chunks' = [chunks EXCEPT ![d] = n]
    /\ ran' = [ran EXCEPT ![d] = Zero]

RunChunk(d) ==
    \E c \in 0 .. chunks[d] - 1 :
        ran[d][c] = 0 /\ ran' = [ran EXCEPT ![d][c] = 1] /\ UNCHANGED chunks

Return(d) ==
    /\ chunks[d] # 0
    /\ \A c \in 0 .. chunks[d] - 1 : ran[d][c] = 1
    /\ chunks' = [chunks EXCEPT ![d] = 0]
    /\ UNCHANGED ran

Next == \E d \in Caller : Call(d) \/ RunChunk(d) \/ Return(d)

Spec == Init /\ [][Next]_vars

=============================================================================
