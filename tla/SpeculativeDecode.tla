-------------------------- MODULE SpeculativeDecode --------------------------
(***************************************************************************)
(* Greedy decoding that runs ahead of itself.  A block is the token just    *)
(* emitted and a few drafted ones; the target model reads them all at once, *)
(* and the drafts it would have chosen itself are emitted.  A rejected or   *)
(* cancelled block is taken back: attention rows behind the boundary are    *)
(* simply never read, the recurrent state of a Qwen3.5 graph returns to a   *)
(* checkpoint and replays what was accepted, and the draft head's boundary  *)
(* ("pending") moves to the last accepted position.                         *)
(*                                                                         *)
(* As in PromptCache a row, a hidden state and a recurrent state are the    *)
(* text they were computed from, Broken if it was not one text.  Drafts     *)
(* come from a draft head (MTP) or from history; any tokens may be drafted. *)
(***************************************************************************)
EXTENDS Naturals, Sequences, FiniteSetsExt, SequencesExt

CONSTANTS
    Tok,             \* vocabulary
    Prompts,         \* rendered prompts
    MaxTokensSet,    \* options.MaxTokens of the requests
    MaxSeqLen,       \* config.MaxSeqLen
    MaxDraft,        \* MTPDraftTokens and PromptLookupTokens
    PenaltyWindow,   \* repeatPenaltyWindow
    Choice(_, _)     \* the greedy token after a text, given the recent tokens

VARIABLES
    recurrent,       \* kind = loadedQwen35
    kv,              \* the workspace: rows, recurrent state, draft-head rows and boundary
    prefix,          \* r.prefixCache: tokens, prompt length, qwen35MTP
    step,            \* where the request in progress is, "idle" without one
    gen,             \* its locals
    block            \* buf.speculative

vars == <<recurrent, kv, prefix, step, gen, block>>

\* A prompt without a token, and one the context has no room behind, is refused
\* (runtime.go:151 and 160).
ASSUME DecodeAssumption ==
    /\ MaxSeqLen \in Nat /\ MaxDraft \in Nat /\ PenaltyWindow \in Nat /\ MaxTokensSet \subseteq Nat
    /\ \A p \in Prompts : p \in Seq(Tok) /\ Len(p) \in 1 .. MaxSeqLen

\* The greedy choice is of the vocabulary.
ASSUME ChoiceAssumption ==
    \A n \in 0 .. MaxSeqLen, m \in 0 .. PenaltyWindow :
        \A text \in [1 .. n -> Tok], recent \in [1 .. m -> Tok] : Choice(text, recent) \in Tok

Broken == <<>>
Blank  == [i \in 1 .. MaxSeqLen |-> Broken]
NoGen  == [prompt |-> <<>>, mtp |-> FALSE, lookup |-> FALSE, verify |-> FALSE, max |-> 0, len |-> 0,
           generated |-> <<>>, recent |-> <<>>, resident |-> <<>>, next |-> 0, drafts |-> <<>>, seeded |-> FALSE]
NoBlock == [active |-> FALSE, inputs |-> <<>>, hidden |-> <<>>, predictions |-> <<>>, checked |-> 0,
            seeded |-> FALSE, checkpoint |-> <<>>, pending |-> <<>>, keep |-> 0, next |-> 0, stop |-> FALSE]
NoMTP   == <<>>                     \* a prefix without a draft-head boundary

Init ==
    /\ recurrent \in BOOLEAN
    /\ kv = [rows |-> Blank, rec |-> <<>>, draftRows |-> Blank, pending |-> <<>>]
    /\ prefix = [tokens |-> <<>>, prompt |-> 0, pending |-> NoMTP]
    /\ step = "idle" /\ gen = NoGen /\ block = NoBlock

Pos == Len(gen.resident)            \* pos: the rows of the text that are computed
Text == gen.prompt \o gen.generated
Recent(tokens) == SubSeq(tokens, Max({1, Len(tokens) - PenaltyWindow + 1}), Len(tokens))

-----------------------------------------------------------------------------
(* The two models, a token at a time. *)

ReadBy(c, i) == IF i = 1 THEN <<>> ELSE c.rows[i - 1]

Coherent(c, i) ==
    /\ Len(ReadBy(c, i)) = i - 1
    /\ \A j \in 1 .. i - 1 : c.rows[j] = SubSeq(ReadBy(c, i), 1, j)
    /\ recurrent => c.rec = ReadBy(c, i)

\* The target reads token t at position i; its hidden state there is row i.
Forward(c, t, i) ==
    [c EXCEPT !.rows[i] = IF Coherent(c, i) THEN Append(ReadBy(c, i), t) ELSE Broken,
              !.rec = IF recurrent THEN Append(@, t) ELSE @]

\* The draft head catches up with token t, whose hidden state is known.
CatchUp(c, t, i, hidden) == [c EXCEPT !.draftRows[i] = Append(c.pending, t), !.pending = hidden]

\* Tokens ts at the positions behind n, the draft head following.
Read(c, ts, n, mtp) ==
    LET after[i \in 0 .. Len(ts)] ==
            IF i = 0 THEN c
            ELSE LET f == Forward(after[i - 1], ts[i], n + i)
                 IN  IF mtp THEN CatchUp(f, ts[i], n + i, f.rows[n + i]) ELSE f
    IN  after[Len(ts)]

-----------------------------------------------------------------------------
(* A request, up to its first token. *)

CacheLen(n, max) == IF max >= MaxSeqLen - n - 1 THEN MaxSeqLen ELSE n + max + 1

\* A recurrent boundary stands for the whole resident text, and a draft head
\* needs its own.
Reusable(prompt, mtp) ==
    LET matched == Len(LongestCommonPrefix({prompt, prefix.tokens}))
    IN  IF recurrent /\ \/ matched # Len(prefix.tokens)
                        \/ matched = Len(prompt) /\ prefix.prompt # matched
                        \/ mtp /\ prefix.pending = NoMTP
        THEN 0 ELSE matched

\* Rows behind position n hold something of an earlier text; to read it would be
\* wrong whatever it is, so the model forgets what.
Upto(rows, n) == [i \in DOMAIN rows |-> IF i <= n THEN rows[i] ELSE Broken]

\* What the prefill starts from: the boundary found, or a cold one.  A serial
\* request drops the draft head's rows.
Boundary(n, mtp, lookup) ==
    [kv EXCEPT !.rec = IF n = 0 THEN <<>> ELSE @,
               !.rows = Upto(@, n),
               !.draftRows = Upto(@, IF mtp \/ lookup THEN n ELSE 0),
               !.pending = IF ~mtp THEN @ ELSE IF n = 0 THEN <<>> ELSE prefix.pending]

\* Reuse and prefill (their own steps are PromptCache's).
Begin(prompt, mtp, lookup, verify, max) ==
    /\ step = "idle"
    /\ mtp => recurrent
    /\ LET matched == Reusable(prompt, mtp)
           n  == IF matched = Len(prompt) /\ prefix.prompt # matched THEN matched - 1 ELSE matched
           c  == Read(Boundary(n, mtp, lookup), SubSeq(prompt, n + 1, Len(prompt)), n, mtp)
       IN  /\ kv' = c
           /\ gen' = [NoGen EXCEPT !.prompt = prompt, !.mtp = mtp, !.lookup = lookup, !.verify = verify,
                        !.max = max, !.len = CacheLen(Len(prompt), max), !.recent = Recent(prompt), !.resident = prompt,
                        !.next = Choice(c.rows[Len(prompt)], Recent(prompt))]
    /\ prefix' = [tokens |-> <<>>, prompt |-> 0, pending |-> NoMTP]
    /\ step' = "emit"
    /\ UNCHANGED <<recurrent, block>>

-----------------------------------------------------------------------------
(* Emitting a token: emitToken.  Whether the text stops here, at an          *)
(* end-of-text token or a stop string, and whether the client is gone is     *)
(* open; neither puts the token into recent.                                 *)

Outcomes == {"kept", "stop", "gone"}

Keep(g, t) == [g EXCEPT !.generated = Append(@, t), !.recent = Recent(Append(@, t))]

Full(g, pos) == Len(g.generated) >= g.max \/ pos >= g.len

Emit(outcome) ==
    /\ step = "emit"
    /\ gen' = IF outcome = "kept" THEN Keep(gen, gen.next) ELSE gen
    /\ step' = IF outcome = "kept" /\ ~Full(gen', Pos) THEN "draft" ELSE "end"
    /\ UNCHANGED <<recurrent, kv, prefix, block>>

\* The context is looked at before each token outside a block.
Cancel ==
    /\ step \in {"emit", "serial"}
    /\ step' = "end"
    /\ UNCHANGED <<recurrent, kv, prefix, gen, block>>

Seed == Last(gen.generated)

\* qwen35MTPDraftGreedy: the head's row of the seed is computed from the accepted
\* boundary, the rows of further drafts from its own hidden states.
Drafted(c, n) ==
    [c EXCEPT !.draftRows = [i \in DOMAIN @ |-> IF n > 0 /\ i = Pos + 1 THEN Append(c.pending, Seed)
                                                ELSE IF i \in Pos + 2 .. Pos + n THEN Broken ELSE @[i]]]

-----------------------------------------------------------------------------
(* A block.                                                                 *)

\* One output slot and one position are left for the bonus prediction.
DraftLimit == Min({gen.len - Pos - 1, gen.max - Len(gen.generated) - 1, MaxDraft})

\* Defect: every position is penalised with the tokens before the block.
SharedHistory(inputs, i) == gen.recent

\* The recent tokens as position i of the block sees them; the seed is among them.
History(inputs, i) == Recent(gen.recent \o SubSeq(inputs, 2, i))

\* Defect: the draft head's boundary is not put back.
RestoreTarget(c, b) == IF recurrent THEN [c EXCEPT !.rec = b.checkpoint] ELSE c

\* abortSpeculativeBlock: the state returns to the boundary before the block.
Restore(c, b) == IF recurrent THEN [c EXCEPT !.rec = b.checkpoint, !.pending = b.pending] ELSE c

MayDraft(ts, seeded) ==
    /\ step = "draft" /\ gen.verify
    /\ IF seeded THEN gen.mtp ELSE gen.lookup
    /\ Len(ts) \in 1 .. DraftLimit

Prepare(ts, seeded) ==
    /\ MayDraft(ts, seeded)
    /\ LET inputs == <<Seed>> \o ts
           c      == IF seeded THEN Drafted(kv, Len(ts)) ELSE kv
           read   == Read(c, inputs, Pos, FALSE)
           hidden == [i \in DOMAIN inputs |-> read.rows[Pos + i]]
       IN  /\ kv' = read
           /\ block' = [NoBlock EXCEPT !.active = TRUE, !.inputs = inputs, !.hidden = hidden, !.seeded = seeded,
                          !.predictions = [i \in DOMAIN inputs |-> Choice(hidden[i], History(inputs, i))],
                          !.checkpoint = c.rec, !.pending = c.pending]
    /\ step' = "verify"
    /\ UNCHANGED <<recurrent, prefix, gen>>

\* Cancelled before the block, or in the middle of its layers: all its rows and the
\* recurrent state are in between, and the block is aborted.
PrepareCancelled(ts, seeded) ==
    /\ MayDraft(ts, seeded)
    /\ LET c    == IF seeded THEN Drafted(kv, Len(ts)) ELSE kv
           torn == [c EXCEPT !.rec = Broken,
                             !.rows = [i \in DOMAIN @ |-> IF i \in Pos + 1 .. Pos + Len(ts) + 1 THEN Broken ELSE @[i]]]
       IN  kv' \in {c, Restore(torn, [checkpoint |-> c.rec, pending |-> c.pending])}
    /\ step' = "end"
    /\ UNCHANGED <<recurrent, prefix, gen, block>>

Abort ==
    /\ kv' = Restore(kv, block)
    /\ block' = NoBlock
    /\ step' = "end"
    /\ UNCHANGED <<recurrent, prefix, gen>>

Commit(keep, next, stop) ==
    /\ block' = [block EXCEPT !.keep = keep, !.next = next, !.stop = stop]
    /\ step' = "finish"
    /\ UNCHANGED <<recurrent, kv, prefix>>

Count == Len(block.inputs)

\* The next draft is compared with the target's own choice, and emitted if equal.
Accept(outcome) ==
    LET i == block.checked + 1
        candidate == block.inputs[i + 1]
    IN  /\ step = "verify"
        /\ \/ /\ block.predictions[i] # candidate
              /\ Commit(i, block.predictions[i], FALSE)
              /\ UNCHANGED gen
           \/ /\ block.predictions[i] = candidate /\ outcome = "kept"
              /\ gen' = Keep(gen, candidate)
              /\ IF Full(gen', Pos + i) THEN Commit(i, candidate, TRUE)
                 ELSE IF i + 1 = Count THEN Commit(Count, block.predictions[Count], FALSE)
                 ELSE /\ block' = [block EXCEPT !.checked = i]
                      /\ UNCHANGED <<recurrent, kv, prefix, step>>
           \/ /\ block.predictions[i] = candidate /\ outcome = "stop"
              /\ Commit(i, candidate, TRUE)
              /\ UNCHANGED gen
           \/ /\ block.predictions[i] = candidate /\ outcome = "gone"
              /\ Abort

AcceptCancelled == step = "verify" /\ Abort

\* A rejection replays the accepted inputs over the checkpoint.
Replayed ==
    IF recurrent /\ block.keep < Count
    THEN [kv EXCEPT !.rec = block.checkpoint \o SubSeq(block.inputs, 1, block.keep)] ELSE kv

\* The draft head follows up to input n; its row of the seed may be there already.
Followed(c, n) ==
    LET first == IF block.seeded THEN 1 ELSE 0
        from  == IF block.seeded THEN [c EXCEPT !.pending = block.hidden[1]] ELSE c
        after[i \in first .. n] ==
            IF i = first THEN from ELSE CatchUp(after[i - 1], block.inputs[i], Pos + i, block.hidden[i])
    IN  after[n]

Finish ==
    /\ step = "finish"
    /\ kv' = IF gen.mtp THEN Followed(Replayed, block.keep) ELSE Replayed
    /\ gen' = [gen EXCEPT !.resident = @ \o SubSeq(block.inputs, 1, block.keep), !.next = block.next]
    /\ block' = NoBlock
    /\ step' = IF block.stop THEN "end" ELSE "emit"
    /\ UNCHANGED <<recurrent, prefix>>

\* The context ends before, within or after the replay and the catch-up.
FinishCancelled ==
    /\ step = "finish"
    /\ \E n \in 1 .. block.keep : kv' = Restore(IF gen.mtp THEN Followed(Replayed, n) ELSE kv, block)
    /\ block' = NoBlock /\ step' = "end"
    /\ UNCHANGED <<recurrent, prefix, gen>>

-----------------------------------------------------------------------------
(* Without a block: a token at a time, or drafts compared one by one.       *)

Plain ==
    /\ step = "draft" /\ ~gen.mtp
    /\ kv' = Forward(kv, Seed, Pos + 1)
    /\ gen' = [gen EXCEPT !.resident = Append(@, Seed), !.next = Choice(kv'.rows[Pos + 1], gen.recent)]
    /\ step' = "emit"
    /\ UNCHANGED <<recurrent, prefix, block>>

\* With block verification the window is suspended here, or nothing more fits.
SerialLimit == IF gen.verify THEN 0 ELSE Min({gen.len - Pos, gen.max - Len(gen.generated), MaxDraft})

SerialDraft(ts) ==
    /\ step = "draft" /\ gen.mtp
    /\ Len(ts) = SerialLimit
    /\ kv' = Drafted(kv, Len(ts))
    /\ gen' = [gen EXCEPT !.drafts = ts, !.seeded = ts # <<>>]
    /\ step' = "serial"
    /\ UNCHANGED <<recurrent, prefix, block>>

\* verifyToken, and the comparison with the next draft.
Serial(outcome) ==
    LET read   == Forward(kv, Seed, Pos + 1)
        hidden == read.rows[Pos + 1]
        target == Choice(hidden, gen.recent)
        g      == [gen EXCEPT !.resident = Append(@, Seed), !.seeded = FALSE]
        agreed == g.drafts # <<>> /\ Head(g.drafts) = target
    IN  /\ step = "serial"
        /\ kv' = IF gen.seeded THEN [read EXCEPT !.pending = hidden] ELSE CatchUp(read, Seed, Pos + 1, hidden)
        /\ \/ /\ ~agreed
              /\ gen' = [g EXCEPT !.next = target, !.drafts = <<>>]
              /\ step' = "emit"
           \/ /\ agreed /\ outcome = "kept"
              /\ gen' = Keep([g EXCEPT !.drafts = Tail(@)], target)
              /\ step' = IF Full(gen', Pos + 1) THEN "end" ELSE "serial"
           \/ /\ agreed /\ outcome # "kept"
              /\ gen' = g /\ step' = "end"
        /\ UNCHANGED <<recurrent, prefix, block>>

\* The deferred functions: what is resident is advertised, its boundaries with it.
End ==
    /\ step = "end"
    /\ prefix' = [tokens |-> gen.resident, prompt |-> Len(gen.prompt), pending |-> IF gen.mtp THEN kv.pending ELSE NoMTP]
    /\ gen' = NoGen /\ step' = "idle"
    /\ UNCHANGED <<recurrent, kv, block>>

-----------------------------------------------------------------------------
Drafts == UNION {[1 .. n -> Tok] : n \in 0 .. MaxDraft}

Next ==
    \/ \E p \in Prompts, mtp, lookup, verify \in BOOLEAN, max \in MaxTokensSet : Begin(p, mtp, lookup, verify, max)
    \/ \E outcome \in Outcomes : Emit(outcome) \/ Accept(outcome) \/ Serial(outcome)
    \/ step = "draft" /\ \E ts \in Drafts :
         \/ SerialDraft(ts)
         \/ \E seeded \in BOOLEAN : Prepare(ts, seeded) \/ PrepareCancelled(ts, seeded)
    \/ Cancel \/ AcceptCancelled \/ Finish \/ FinishCancelled \/ Plain \/ End

Spec == Init /\ [][Next]_vars

-----------------------------------------------------------------------------
\* The rows and states kept for a text are those of that text.
HoldsExactly(tokens, pending) ==
    /\ \A i \in DOMAIN tokens : kv.rows[i] = SubSeq(tokens, 1, i)
    /\ recurrent /\ tokens # <<>> => kv.rec = tokens
    /\ pending # NoMTP => pending = tokens /\ \A i \in DOMAIN tokens : kv.draftRows[i] = SubSeq(tokens, 1, i)

\* Whatever a block accepted, rejected or was cancelled in, afterwards exactly the
\* committed text is resident: its attention rows, the recurrent state of the last
\* of its tokens and no further, and the draft head's rows and boundary.  That holds
\* between blocks, and of what the next request may reuse.
CommittedStateMatches ==
    IF step = "idle" THEN HoldsExactly(prefix.tokens, prefix.pending)
    ELSE /\ IsPrefix(gen.resident, Text)
         /\ ~block.active => HoldsExactly(gen.resident, IF gen.mtp THEN kv.pending ELSE NoMTP)

\* Speculation is lossless: whatever is drafted, the tokens emitted are those of
\* greedy decoding one token at a time, each under the penalty of the recent ones.
Greedy(text, penalty) == Choice(text, Recent(text))
Cold == INSTANCE ColdCompletion WITH
    Texts <- Prompts, Penalties <- {1}, Best <- Greedy,
    text <- Text,
    sampler <- [greedy |-> step # "idle", penalty |-> IF step = "idle" THEN 0 ELSE 1]
SpeculationIsLossless == Cold!Spec
=============================================================================
