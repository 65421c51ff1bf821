--------------------------- MODULE MCPromptCache ---------------------------
(* Small instances of PromptCache. The prompts share one, two and three     *)
(* tokens, extend one another and diverge; the formats differ in size.      *)
EXTENDS PromptCache

MCTok == {"a", "b", "z"}
MCPrompts == {<<"a", "b">>, <<"a", "b", "a">>, <<"a", "a", "b">>, <<"b", "a", "a">>}
FewPrompts == {<<"a", "b">>, <<"a", "b", "a">>, <<"b", "a", "a">>}
TwoPrompts == {<<"a", "b">>, <<"b", "a", "a">>}
MCRowBytes == [f16 |-> 2, i8 |-> 1]
Bits(c) == Cardinality({i \in DOMAIN c : c[i] = "a"})
MCBest(c, r) == IF (Bits(c) + r) % 2 = 0 THEN "a" ELSE "b"
=============================================================================
