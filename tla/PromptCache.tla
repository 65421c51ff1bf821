---------------------------- MODULE PromptCache ----------------------------
(***************************************************************************)
(* The K/V rows a Runner keeps between chat requests: the retained         *)
(* generation workspace with the metadata of the last prompt               *)
(* (kv_workspace.go), and the immutable snapshots of displaced             *)
(* conversations (conversation_cache.go), as generateChatStreamUntil       *)
(* (runtime.go) uses them. genLock serialises requests, so at most one is  *)
(* in progress; its context may be cancelled wherever the code looks.      *)
(*                                                                         *)
(* A K/V row is modelled by the text it was computed from: row i of a      *)
(* cache is a sequence of i tokens when the forward pass that wrote it     *)
(* read rows 1..i-1 of the same text, and Broken otherwise. The recurrent  *)
(* state of a Qwen3.5 graph is the text it has consumed. Logits are the    *)
(* text they follow and whether they still are what the model computed.    *)
(***************************************************************************)
EXTENDS Naturals, Sequences, FiniteSets, SequencesExt, FiniteSetsExt

CONSTANTS
  Tok,            \* vocabulary
  Prompts,        \* rendered prompts: token sequences
  Pixels,         \* images a prompt may carry in place of its first token
  Scratch,        \* the token of the texts embedded or probed with
  MaxTokensSet,   \* options.MaxTokens of requests
  Penalties,      \* options.Sampler.RepeatPenalty
  Best(_, _),     \* the greedy token after a text under a penalty
  MaxSeqLen,      \* config.MaxSeqLen
  Chunk,          \* prefillChunkSize: least growth of a workspace
  Formats,        \* kvFormats the process may select
  RowBytes,       \* bytes of one K/V row in each format
  Budget,         \* maxReusableKVCacheBytes
  Kinds,          \* which graphs: K/V rows only, or with a recurrent state too
  RecurrentBytes, \* Qwen35Cache.bytes
  Batched,        \* canBatchPrefill or one of the other batched prefills
  OutputHead,           \* how greedyOutputToken reaches a token
  MinTokens,      \* conversationCacheMinTokens
  MaxEntries,     \* conversationCacheMaxEntries
  DefaultLimit,   \* DefaultConversationCacheBytes
  Limits          \* limits a host may set, Off among them

HeadKinds == {"reduce", "cpu", "materialize"}
Off == 0          \* SetConversationCacheLimit(0) disables the snapshots

ASSUME PromptAssumption ==
  /\ Prompts \subseteq Seq(Tok) /\ Scratch \in Tok
  /\ \A p \in Prompts : p # <<>> /\ Len(p) < MaxSeqLen
  /\ Pixels \cap Tok = {}        \* an image stands behind a placeholder token, not for one
  /\ 0 \notin Penalties          \* GenerationOptions.validate refuses a RepeatPenalty <= 0
ASSUME KindAssumption ==
  /\ Kinds \subseteq BOOLEAN /\ Batched \in BOOLEAN /\ OutputHead \in HeadKinds
  /\ Limits \subseteq 0 .. DefaultLimit
ASSUME SizeAssumption ==
  /\ {MaxSeqLen, Chunk, Budget, RecurrentBytes, MinTokens, MaxEntries, DefaultLimit} \subseteq Nat
  /\ MinTokens # 0 /\ MaxEntries # 0 /\ MaxTokensSet \subseteq Nat
  /\ Formats # {} /\ \A f \in Formats : RowBytes[f] \in Nat

Broken == <<>>
Symbols == Tok \cup Pixels

VARIABLES
  recurrent, \* kind = loadedQwen35, fixed when the model is loaded
  ws,      \* r.workspaceCache with its Qwen35 state
  tmp,     \* the one-off cache of a request whose cache exceeds the budget
  prefix,  \* r.prefixCache: what the metadata says of ws
  convs,   \* r.conversations
  format,  \* desiredKVFormat, a process-wide knob
  logits,  \* buf.Logits
  pc, req  \* the request that holds genLock

vars == <<recurrent, ws, tmp, prefix, convs, format, logits, pc, req>>
-----------------------------------------------------------------------------
(* Data. *)

Blank(len, f) == [len |-> len, fmt |-> f, rows |-> [i \in 1 .. MaxSeqLen |-> Broken], rec |-> <<>>]
NoCache == Blank(0, CHOOSE f \in Formats : TRUE)

NoLogits == [text |-> <<>>, state |-> "empty"]
Raw(t) == [text |-> t, state |-> "raw"]
Spoiled == [text |-> <<>>, state |-> "spoiled"]   \* penalised, scaled, or never computed

NoToken == [has |-> FALSE, text |-> <<>>, penalty |-> 0]
GreedyToken(t, r) == [has |-> TRUE, text |-> t, penalty |-> r]

NoPrefix == [tokens |-> <<>>, promptTokens |-> 0, logits |-> NoLogits, greedy |-> NoToken]

Shared(a, b) == Len(LongestCommonPrefix({a, b}))                       \* sharedTokenPrefix

NoRequest ==
  [tokens |-> <<>>, content |-> <<>>, greedy |-> FALSE, penalty |-> 0, max |-> 0, len |-> 0,
   transient |-> FALSE, eligible |-> FALSE, reused |-> 0, pos |-> 0, offset |-> 0, cached |-> NoPrefix,
   promptLogits |-> NoLogits, promptGreedy |-> NoToken, next |-> NoToken, generated |-> <<>>]

Cache == IF req.transient THEN tmp ELSE ws

TypeOK ==
  /\ \A c \in {ws, tmp} : /\ c.len \in 0 .. MaxSeqLen /\ c.fmt \in Formats
                          /\ c.rows \in [1 .. MaxSeqLen -> Seq(Symbols)] /\ c.rec \in Seq(Symbols)
  /\ prefix.tokens \in Seq(Tok) /\ prefix.promptTokens \in 0 .. Len(prefix.tokens)
  /\ convs.limit \in {Off} \cup 0 .. DefaultLimit
  /\ format \in Formats /\ logits.state \in {"empty", "raw", "spoiled"}
  /\ pc \in {"idle", "workspace", "reused", "prefill", "decode", "save"}
  /\ pc = "idle" <=> req = NoRequest
  /\ req.pos \in 0 .. MaxSeqLen /\ req.reused \in 0 .. Len(req.tokens)

Init ==
  /\ recurrent \in Kinds
  /\ ws = NoCache /\ tmp = NoCache /\ prefix = NoPrefix
  /\ convs = [entries |-> <<>>, limit |-> DefaultLimit]
  /\ format \in Formats
  /\ logits = Spoiled
  /\ pc = "idle" /\ req = NoRequest
-----------------------------------------------------------------------------
(* The workspace of a request: kv_workspace.go. *)

Cleared == NoPrefix                                                    \* clearPrefixCache

\* Defect: a cache is retained whatever its size.
FitsAlways(n, f) == n <= MaxSeqLen

Fits(n, f) == n * RowBytes[f] <= Budget

FitsRecurrent(n, f) == recurrent => n * RowBytes[f] + RecurrentBytes <= Budget

ShapeCompatible(f) == ws.len > 0 /\ ws.fmt = f

GrownLen(n) == Min({MaxSeqLen, Max({n, 2 * ws.len, ws.len + Chunk})})

TargetLen(n, f) ==
  IF ShapeCompatible(f) /\ Fits(GrownLen(n), f) THEN GrownLen(n) ELSE n

\* copyKVPrefix: the rows of the first n positions, in a cache of its own.
CopyPrefix(n) == [i \in 1 .. MaxSeqLen |-> IF i <= n THEN ws.rows[i] ELSE Broken]

\* generationWorkspaceWithPrefix with p for the metadata it starts from: the
\* retained cache if it is long enough, a longer one that takes over its
\* prefix rows and its recurrent state, or a one-off cache.
Workspace(n, p) ==
  LET len == TargetLen(n, format) IN
  \/ /\ ShapeCompatible(format) /\ ws.len >= n
     /\ prefix' = p /\ UNCHANGED <<ws, tmp>>
  \/ /\ ~(ShapeCompatible(format) /\ ws.len >= n) /\ Fits(len, format)
     /\ ws' = [Blank(len, format) EXCEPT
          !.rows = CopyPrefix(IF ShapeCompatible(format) THEN Len(p.tokens) ELSE 0),
          !.rec = ws.rec]
     /\ prefix' = IF ShapeCompatible(format) /\ FitsRecurrent(len, format) THEN p ELSE Cleared
     /\ UNCHANGED tmp
  \/ /\ ~(ShapeCompatible(format) /\ ws.len >= n) /\ ~Fits(len, format)
     /\ tmp' = Blank(len, format)
     /\ prefix' = IF ShapeCompatible(format) THEN p ELSE Cleared
     /\ UNCHANGED ws

Transient == tmp'.len > 0

-----------------------------------------------------------------------------
(* Snapshots of displaced conversations: conversation_cache.go. *)

SnapshotsSupported == ~recurrent /\ convs.limit # Off

SnapshotRow(f) == RowBytes[f] + 1        \* the row and its token ID

\* kvPrefixSnapshotCompatible, for a cache and a snapshot of this runner.
Compatible(c, e, n) == e.fmt = c.fmt /\ n > 0 /\ n <= c.len /\ n <= Len(e.tokens)

Touch(es, i) == Append(RemoveAt(es, i), es[i])

SnapshotBytes(e) == Len(e.tokens) * SnapshotRow(e.fmt)

\* What conversationCache.bytes counts: it is adjusted with every entry.
Sums(es) == LET upTo[k \in 0 .. Len(es)] == IF k = 0 THEN 0 ELSE upTo[k - 1] + SnapshotBytes(es[k]) IN upTo
BytesOf(es) == Sums(es)[Len(es)]

\* Defect: the loop stops one snapshot too late.
EvictLate(es, bytes) ==
  LET room(k) == /\ Len(es) - k <= MaxEntries
                 /\ BytesOf(SubSeq(es, k + 1, Len(es))) <= convs.limit
      k == Min({i \in 0 .. Len(es) : room(i) \/ i = Len(es)})
  IN SubSeq(es, k + 1, Len(es))

\* The eviction loop: oldest first, until the new snapshot fits.
Evict(es, bytes) ==
  LET room(k) == /\ Len(es) - k < MaxEntries
                 /\ BytesOf(SubSeq(es, k + 1, Len(es))) + bytes <= convs.limit
      k == Min({i \in 0 .. Len(es) : room(i) \/ i = Len(es)})
  IN SubSeq(es, k + 1, Len(es))

Displaced(tokens) ==
  LET matched == Shared(tokens, prefix.tokens) IN
  /\ SnapshotsSupported /\ Len(prefix.tokens) >= MinTokens /\ Len(prefix.tokens) <= ws.len
  /\ matched # Len(prefix.tokens)
  /\ ~(Len(tokens) = prefix.promptTokens /\ matched = Len(tokens))

\* Defect: a snapshot that holds a part counts as one that holds everything.
OwnsPart(e, kept) == Compatible(ws, e, Len(e.tokens)) /\ IsPrefix(e.tokens, kept)

\* Snapshot e already holds the rows of kept ...
Owns(e, kept) == Compatible(ws, e, Len(kept)) /\ IsPrefix(kept, e.tokens)

\* ... or holds no others than they.
Subsumed(e, kept) == Compatible(ws, e, Len(e.tokens)) /\ IsPrefix(e.tokens, kept)

\* The i in S with k - 1 smaller ones.
Kth(S, k) == CHOOSE i \in S : Cardinality({j \in S : j <= i}) = k

\* The snapshots that hold more than kept, or something else, in their order.
Unsubsumed(es, kept) ==
  LET left == {i \in DOMAIN es : ~Subsumed(es[i], kept)}
  IN [k \in 1 .. Cardinality(left) |-> es[Kth(left, k)]]

\* retainDisplacedConversation: the snapshots left in es, given that the
\* prompt is about to overwrite the resident rows.
Retain(es, tokens) ==
  LET n == Min({Len(prefix.tokens), convs.limit \div SnapshotRow(ws.fmt)})
      kept == SubSeq(prefix.tokens, 1, n)
      owners == {i \in DOMAIN es : Owns(es[i], kept)}
      bytes == n * SnapshotRow(ws.fmt)
  IN IF ~Displaced(tokens) \/ n < MinTokens THEN es
     ELSE IF owners # {} THEN Touch(es, Max(owners))
     ELSE Append(Evict(Unsubsumed(es, kept), bytes),
                 [tokens |-> kept, fmt |-> ws.fmt, rows |-> SubSeq(ws.rows, 1, n)])

\* reuseConversation's choice: the longest usable match, the most recent of equals.
Match(tokens, e) == Min({Shared(tokens, e.tokens), Len(tokens) - 1})
Candidates(tokens, resident) ==
  {i \in DOMAIN convs.entries :
     LET e == convs.entries[i] n == Match(tokens, e) IN
       n >= MinTokens /\ n > resident /\ Compatible(ws, e, n)}
BestSnapshot(tokens, resident) ==
  LET cs == Candidates(tokens, resident)
      longest == Max({Match(tokens, convs.entries[i]) : i \in cs})
  IN Max({i \in cs : Match(tokens, convs.entries[i]) = longest})
-----------------------------------------------------------------------------
(* One forward pass: token t at row i of cache c. *)

ReadBy(c, i) == IF i = 1 THEN <<>> ELSE c.rows[i - 1]

\* Rows 1..i-1 belong to one text, and so does the recurrent state.
Coherent(c, i) ==
  /\ Len(ReadBy(c, i)) = i - 1
  /\ \A j \in 1 .. i - 1 : c.rows[j] = SubSeq(ReadBy(c, i), 1, j)
  /\ recurrent => c.rec = ReadBy(c, i)

Row(c, t, i) == IF Coherent(c, i) THEN Append(ReadBy(c, i), t) ELSE Broken

Forward(c, t, i) ==
  [c EXCEPT !.rows[i] = Row(c, t, i), !.rec = IF recurrent THEN Append(@, t) ELSE @]

Store(c) == IF req.transient THEN tmp' = c /\ UNCHANGED ws ELSE ws' = c /\ UNCHANGED tmp

\* greedyOutputToken over the hidden state of a text: the token it found, if
\* any, and the logits it leaves of old. "reduce" is an on-device argmax, "cpu" the
\* row-wise argmax without a penalty and the projection otherwise, and
\* "materialize" a head with a bias, which projects and penalises in place.
GreedyHead(t, r, old) ==
  CASE OutputHead = "reduce" \/ (OutputHead = "cpu" /\ r = 1) -> [token |-> GreedyToken(t, r), logits |-> old]
    [] OutputHead = "cpu" /\ r # 1 -> [token |-> NoToken, logits |-> Raw(t)]
    [] OutputHead = "materialize" -> [token |-> GreedyToken(t, r), logits |-> IF r = 1 THEN Raw(t) ELSE Spoiled]
-----------------------------------------------------------------------------
(* A chat request: generateChatStreamUntil from its admission to its release. *)

CacheLen(n, max) == IF max >= MaxSeqLen - n - 1 THEN MaxSeqLen ELSE n + max + 1

\* Defect: a recurrent state is taken to stand for any of its prefixes.
PrefixReuseOfRows(tokens) == Min({Shared(tokens, prefix.tokens), ws.len})

\* prefixReuse: rows of ws the metadata vouches for. A recurrent state stands
\* for the whole resident text only.
PrefixReuse(tokens) ==
  LET matched == Min({Shared(tokens, prefix.tokens), ws.len}) IN
  IF recurrent /\ \/ matched # Len(prefix.tokens)
                  \/ matched = Len(tokens) /\ prefix.promptTokens # Len(tokens)
  THEN 0 ELSE matched

\* Defect: a request with an image reuses rows by its placeholder tokens.
EligibleWithImage(image) == ~Transient /\ FitsRecurrent(ws'.len, ws'.fmt)

Eligible(image) == image = {} /\ ~Transient /\ FitsRecurrent(ws'.len, ws'.fmt)

\* The workspace is chosen; a request with an image, or one whose cache is
\* not retained, neither uses nor leaves metadata. images shows what the
\* model reads in place of the first token.
Begin(p, image, greedy, r, max) ==
  LET n == CacheLen(Len(p), max) IN
  /\ pc = "idle"
  /\ Workspace(n, prefix)
  /\ req' = [NoRequest EXCEPT
          !.tokens = p, !.content = [i \in DOMAIN p |-> IF i = 1 /\ image # {} THEN CHOOSE x \in image : TRUE ELSE p[i]],
          !.greedy = greedy, !.penalty = r, !.max = max, !.len = n, !.transient = Transient, !.eligible = Eligible(image)]
  /\ pc' = "workspace"
  /\ UNCHANGED <<convs, format, logits>>

Outgrown == recurrent /\ ~req.eligible /\ ~req.transient

\* The rows of ws are about to stop being what the metadata says.
MustRetire == req.content # req.tokens \/ Outgrown

\* Metadata that cannot be trusted after this request goes first; what
\* remains is captured. Then the longest of the resident rows and of a
\* snapshot is put into place.
Reuse ==
  LET resident == PrefixReuse(req.tokens)
      pick == Candidates(req.tokens, resident)
      i == BestSnapshot(req.tokens, resident)
      e == convs.entries[i]
      best == Match(req.tokens, e)
      from == Min({resident, best})
      touched == IF pick = {} THEN convs.entries ELSE Touch(convs.entries, i)
      kept == IF SnapshotsSupported THEN Retain(touched, req.tokens) ELSE convs.entries
  IN
  /\ pc = "workspace"
  /\ IF ~req.eligible
     THEN /\ prefix' = IF MustRetire THEN Cleared ELSE prefix
          /\ req' = [req EXCEPT !.cached = prefix']
          /\ UNCHANGED <<ws, convs>>
     ELSE /\ convs' = [convs EXCEPT !.entries = kept]
          /\ IF SnapshotsSupported /\ pick # {}
             THEN /\ ws' = [ws EXCEPT !.rows = [j \in DOMAIN @ |-> IF j \in from + 1 .. best THEN e.rows[j] ELSE @[j]]]
                  /\ prefix' = Cleared
                  /\ req' = [req EXCEPT !.cached = prefix, !.reused = best]
             ELSE /\ req' = [req EXCEPT !.cached = prefix, !.reused = resident]
                  /\ UNCHANGED <<ws, prefix>>
  /\ pc' = "reused"
  /\ UNCHANGED <<tmp, format, logits>>

\* The captured greedy token answers the identical prompt under its penalty.
Answered(cached) == req.greedy /\ cached.greedy.has /\ cached.greedy.penalty = req.penalty

\* A recurrent state cannot be rewound to a position, only reset.
ColdState(c, offset) == IF recurrent /\ offset = 0 THEN [c EXCEPT !.rec = <<>>] ELSE c

\* From here rows are overwritten, so the metadata goes. An identical prompt
\* is answered from the captured logits or greedy token; otherwise at least
\* its last token is read again.
Start ==
  LET n == Len(req.tokens)
      same == req.reused = n /\ req.cached.promptTokens = n
      known == same /\ req.cached.logits.state # "empty"
      chosen == same /\ ~known /\ Answered(req.cached)
      offset == IF req.reused < n \/ known \/ chosen THEN req.reused
                ELSE IF recurrent THEN 0 ELSE n - 1
  IN
  /\ pc = "reused"
  /\ prefix' = IF req.eligible THEN Cleared ELSE prefix
  /\ Store(ColdState(Cache, offset))
  /\ req' = [req EXCEPT !.offset = offset, !.pos = offset,
                        !.next = IF chosen THEN req.cached.greedy ELSE NoToken,
                        !.promptGreedy = IF chosen THEN req.cached.greedy ELSE NoToken]
  /\ logits' = IF known THEN req.cached.logits
               ELSE IF Batched /\ req.greedy /\ offset < n THEN NoLogits ELSE logits
  /\ pc' = "prefill"
  /\ UNCHANGED <<tmp, convs, format>>

\* One prompt token; the last one leaves logits unless the head reduces.
Prefill ==
  LET i == req.pos + 1 n == Len(req.tokens) c == Forward(Cache, req.content[i], i) IN
  /\ pc = "prefill" /\ req.pos < n
  /\ Store(c)
  /\ req' = [req EXCEPT !.pos = i]
  /\ logits' = IF i = n /\ ~req.greedy THEN Raw(c.rows[i]) ELSE logits
  /\ UNCHANGED <<prefix, convs, format, pc>>

\* The prompt is resident: its first greedy token, and the copy of its logits
\* that is kept for an identical prompt.
Prompted ==
  LET n == Len(req.tokens)
      g == GreedyHead(Cache.rows[n], req.penalty, logits)
      fresh == req.greedy /\ req.offset < n
  IN
  /\ pc = "prefill" /\ req.pos = n
  /\ logits' = IF fresh THEN g.logits ELSE logits
  /\ req' = [req EXCEPT !.next = IF fresh THEN g.token ELSE @,
                        !.promptGreedy = IF fresh THEN g.token ELSE @,
                        !.promptLogits = IF req.eligible THEN logits' ELSE @]
  /\ pc' = "decode"
  /\ UNCHANGED <<ws, tmp, prefix, convs, format>>

\* What the next token is taken from.
Source == IF req.next.has THEN req.next
          ELSE [has |-> logits.state = "raw", text |-> logits.text, penalty |-> req.penalty]

\* Emit token t and, unless the answer ends with it, read it.
Decode(t) ==
  LET i == req.pos + 1
      c == Forward(Cache, t, i)
      used == IF req.next.has THEN logits ELSE Spoiled
      g == GreedyHead(c.rows[i], req.penalty, used)
      last == Len(req.generated) + 1 >= req.max \/ req.pos >= req.len
  IN
  /\ pc = "decode" /\ Len(req.generated) < req.max
  /\ req.greedy /\ Source.has => t = Best(Source.text, Source.penalty)
  /\ IF last
     THEN /\ logits' = used
          /\ req' = [req EXCEPT !.generated = Append(@, t), !.next = NoToken]
          /\ pc' = "save"
          /\ UNCHANGED <<ws, tmp>>
     ELSE /\ Store(c)
          /\ logits' = IF req.greedy THEN g.logits ELSE Raw(c.rows[i])
          /\ req' = [req EXCEPT !.generated = Append(@, t), !.pos = i, !.next = IF req.greedy THEN g.token ELSE NoToken]
          /\ UNCHANGED pc
  /\ UNCHANGED <<prefix, convs, format>>

\* The deferred replacement: resident rows are the prompt and the tokens read
\* after it. A one-off cache is gone with its request.
Resident == req.tokens \o SubSeq(req.generated, 1, req.pos - Len(req.tokens))

\* Defect: the logits are copied after the answer, not before.
SaveLiveLogits ==
  /\ prefix' = IF req.eligible
               THEN [tokens |-> Resident, promptTokens |-> Len(req.tokens),
                     logits |-> logits, greedy |-> req.promptGreedy]
               ELSE prefix
  /\ tmp' = NoCache /\ req' = NoRequest /\ pc' = "idle"
  /\ UNCHANGED <<ws, convs, format, logits>>

Save ==
  /\ prefix' = IF req.eligible
               THEN [tokens |-> Resident, promptTokens |-> Len(req.tokens),
                     logits |-> req.promptLogits, greedy |-> req.promptGreedy]
               ELSE prefix
  /\ tmp' = NoCache /\ req' = NoRequest /\ pc' = "idle"
  /\ UNCHANGED <<ws, convs, format, logits>>

\* The answer ends: stop token, stop string, length, or the client is gone.
Finish == pc \in {"decode", "save"} /\ Save

\* The context is done before the first row is written.
CancelEarly ==
  /\ pc = "reused"
  /\ tmp' = NoCache /\ req' = NoRequest /\ pc' = "idle"
  /\ UNCHANGED <<ws, prefix, convs, format, logits>>

\* Defect: a cancelled prefill advertises its whole prompt.
CancelPrefillKeeps ==
  /\ pc = "prefill" /\ req.pos < Len(req.tokens)
  /\ prefix' = IF req.eligible THEN [NoPrefix EXCEPT !.tokens = req.tokens] ELSE prefix
  /\ tmp' = NoCache /\ req' = NoRequest /\ pc' = "idle"
  /\ UNCHANGED <<ws, convs, format, logits>>

\* The context is done during prefill: nothing resident is advertised.
CancelPrefill ==
  /\ pc = "prefill" /\ req.pos < Len(req.tokens)
  /\ prefix' = IF req.eligible THEN Cleared ELSE prefix
  /\ tmp' = NoCache /\ req' = NoRequest /\ pc' = "idle"
  /\ UNCHANGED <<ws, convs, format, logits>>
-----------------------------------------------------------------------------
(* The other operations that take genLock. *)

\* Rows and recurrence after a text of n scratch tokens was read from a cold start.
Scribble(c, n) ==
  [c EXCEPT !.rows = [i \in DOMAIN @ |-> IF i <= n THEN [j \in 1 .. i |-> Scratch] ELSE @[i]],
            !.rec = IF recurrent THEN [j \in 1 .. n |-> Scratch] ELSE @]

\* generationWorkspace for a scratch text of n tokens in format f: the rows
\* of a retained cache, if it is long enough or may grow, hold that text.
ScratchWorkspace(n, f) ==
  LET len == TargetLen(Min({MaxSeqLen, n + 1}), f) IN
  IF ShapeCompatible(f) /\ ws.len >= n + 1 THEN Scribble(ws, n)
  ELSE IF Fits(len, f) THEN Scribble(Blank(len, f), n) ELSE ws

\* Embed and EmbedBatch on a decoder, and the Metal warm-up.
Embed(n) ==
  /\ pc = "idle"
  /\ prefix' = Cleared /\ ws' = ScratchWorkspace(n, format)
  /\ UNCHANGED <<tmp, convs, format, logits, pc, req>>

\* AutoTune: the last trial ran in format g, format f is then applied.
Calibrate(n, g, f) ==
  /\ pc = "idle"
  /\ prefix' = Cleared /\ convs' = [convs EXCEPT !.entries = <<>>]
  /\ ws' = ScratchWorkspace(n, g) /\ format' = f
  /\ UNCHANGED <<tmp, logits, pc, req>>

\* Another runner of the process is calibrated or replaced. A request reads
\* the knob once, in Workspace, so a change during it takes effect after it.
SelectFormat(f) ==
  /\ pc = "idle" /\ f # format /\ format' = f
  /\ UNCHANGED <<ws, tmp, prefix, convs, logits, pc, req>>

SetConversationCacheLimit(bytes) ==
  /\ pc = "idle"
  /\ convs' = [entries |-> <<>>, limit |-> bytes]
  /\ UNCHANGED <<ws, tmp, prefix, format, logits, pc, req>>

ClearConversationCache ==
  /\ pc = "idle"
  /\ convs' = [convs EXCEPT !.entries = <<>>] /\ prefix' = Cleared
  /\ UNCHANGED <<ws, tmp, format, logits, pc, req>>

Images == {{}} \cup {{x} : x \in Pixels}

Chat ==
  \/ \E p \in Prompts, image \in Images, g \in BOOLEAN, r \in Penalties, n \in MaxTokensSet : Begin(p, image, g, r, n)
  \/ Reuse \/ Start \/ Prefill \/ Prompted \/ Finish \/ CancelEarly \/ CancelPrefill
  \/ \E t \in Tok \ {Scratch} : Decode(t)

Control ==
  \/ Embed(2)
  \/ \E f \in Formats : SelectFormat(f) \/ \E g \in Formats : Calibrate(2, g, f)
  \/ \E b \in Limits : SetConversationCacheLimit(b)
  \/ ClearConversationCache

Next == (Chat \/ Control) /\ UNCHANGED recurrent

Spec == Init /\ [][Next]_vars
-----------------------------------------------------------------------------
(* Safety. *)

\* Whatever the metadata advertises is in the workspace: each resident row was
\* computed from exactly the advertised tokens up to it (and the recurrent
\* state from all of them). Every write to the shared rows, by a chat request,
\* an embedding, a calibration or a restored snapshot, retires the metadata
\* first, whatever is cancelled in between.
ResidentRowsMatch ==
  /\ Len(prefix.tokens) <= ws.len
  /\ \A i \in DOMAIN prefix.tokens : ws.rows[i] = SubSeq(prefix.tokens, 1, i)
  /\ recurrent /\ prefix.tokens # <<>> => ws.rec = prefix.tokens

\* The same for every snapshot of a displaced conversation: it was cloned
\* before any of its rows was overwritten.
SnapshotRowsMatch ==
  \A k \in DOMAIN convs.entries : LET e == convs.entries[k] IN
    /\ Len(e.rows) = Len(e.tokens)
    /\ \A i \in DOMAIN e.tokens : e.rows[i] = SubSeq(e.tokens, 1, i)

\* All that a later request may reuse instead of computing it is what it says.
ReusableRowsMatch == ResidentRowsMatch /\ SnapshotRowsMatch

\* What a request in progress has read is its own prompt, image included, and
\* the tokens it emitted: rows it skipped because of a reuse are the rows a
\* cold start would have computed.
ContextIsPrompt ==
  pc \in {"prefill", "decode"} =>
    \A i \in 1 .. req.pos : Cache.rows[i] = SubSeq(req.content \o req.generated, 1, i)

\* A token is only ever chosen from logits, or a greedy choice, that belong to
\* the whole text before it and to the request's own penalty: kept logits are
\* those of the identical prompt, untouched by the sampler.
SourceIsExact ==
  pc = "decode" /\ Len(req.generated) < req.max =>
    Source = [has |-> TRUE, text |-> req.content \o req.generated, penalty |-> req.penalty]

\* No snapshot repeats what another one of the same format holds: a shorter
\* one is dropped for a longer, and a longer one keeps a shorter out.
Irredundant(es) ==
  \A j, k \in DOMAIN es :
    j # k /\ es[j].fmt = es[k].fmt => ~IsPrefix(es[j].tokens, es[k].tokens)

\* The snapshots stay within the host's byte limit and the entry limit, and
\* spend neither on the same rows twice, after any sequence of retentions,
\* touches, subsumptions and evictions.
SnapshotsBounded ==
  /\ TypeOK
  /\ BytesOf(convs.entries) <= convs.limit
  /\ Len(convs.entries) <= MaxEntries
  /\ Irredundant(convs.entries)

\* What is kept between requests stays within its memory budget: the
\* workspace, and for a recurrent graph also the state its metadata pins.
RetainedWithinBudget ==
  /\ ws.len * RowBytes[ws.fmt] <= Budget
  /\ recurrent /\ prefix.tokens # <<>> => ws.len * RowBytes[ws.fmt] + RecurrentBytes <= Budget

\* What the model reads of a prompt whose first token stands for an image.
WithImage(p, x) == [p EXCEPT ![1] = x]

\* A warm completion is a cold one: with whatever it reuses, it emits for its
\* prompt what the abstract completion may emit, and for greedy decoding
\* exactly that.
Cold == INSTANCE ColdCompletion WITH
  Texts <- Prompts \cup {WithImage(p, x) : p \in Prompts, x \in Pixels},
  text <- req.content \o req.generated,
  sampler <- [greedy |-> req.greedy, penalty |-> req.penalty]
ImplementsColdCompletion == Cold!Spec

\* Once a request has displaced a conversation that qualifies, the displaced
\* tokens (as many as the byte limit allows) survive as a snapshot although
\* the rows are about to be overwritten.
DisplacedIsKept ==
  [][ pc = "workspace" /\ pc' = "reused" /\ req.eligible /\ Displaced(req.tokens)
      => LET n == Min({Len(prefix.tokens), convs.limit \div SnapshotRow(ws.fmt)}) IN
         n >= MinTokens => \E k \in DOMAIN convs'.entries :
           convs'.entries[k].fmt = ws.fmt /\ IsPrefix(SubSeq(prefix.tokens, 1, n), convs'.entries[k].tokens) ]_vars
=============================================================================
