--------------------------- MODULE ColdCompletion ---------------------------
(***************************************************************************)
(* What a chat completion promises, caches or not: each token is chosen    *)
(* from the exact text that precedes it, the prompt and the tokens already *)
(* emitted. Greedy decoding takes the one best token of that text under    *)
(* the request's repeat penalty; sampling may take any.                    *)
(***************************************************************************)
EXTENDS Naturals, Sequences

CONSTANTS
  Tok,         \* tokens
  Texts,       \* what a prompt can make the model read
  Penalties,   \* repeat penalties of requests
  Best(_, _)   \* the greedy choice after a text under a penalty

VARIABLES
  text,        \* what has been read and emitted so far
  sampler      \* how the request in progress picks tokens, Idle without one

vars == <<text, sampler>>

Idle == [greedy |-> FALSE, penalty |-> 0]

Init == text = <<>> /\ sampler = Idle

Ask ==
  /\ sampler = Idle
  /\ \E p \in Texts, g \in BOOLEAN, r \in Penalties :
       text' = p /\ sampler' = [greedy |-> g, penalty |-> r]

Emit ==
  /\ sampler # Idle
  /\ \E t \in Tok :
       /\ sampler.greedy => t = Best(text, sampler.penalty)
       /\ text' = Append(text, t)
  /\ UNCHANGED sampler

End == sampler # Idle /\ text' = <<>> /\ sampler' = Idle

Next == Ask \/ Emit \/ End

Spec == Init /\ [][Next]_vars
=============================================================================
