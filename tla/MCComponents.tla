---------------------------- MODULE MCComponents ----------------------------
(* Small sets and functions for the components' run.                        *)
EXTENDS Components, FiniteSets, TLC

MCLength == 1 :> 1 @@ 2 :> 2 @@ 3 :> 1

\* Prompts that extend one another and diverge; a choice that depends on the whole
\* text and on the recent tokens.
MCPrompts == {<<1>>, <<1, 2>>, <<2, 1>>}
Ones(s) == Cardinality({i \in DOMAIN s : s[i] = 1})
MCChoice(text, recent) == IF (Ones(text) + Ones(recent) + Len(text)) % 3 = 0 THEN 1 ELSE 2

\* The goroutines, models and files of the audio routes are interchangeable.
Symmetry ==
    UNION {Permutations(Clients), Permutations(Sessions), Permutations(Models), Permutations(Paths)}
=============================================================================
