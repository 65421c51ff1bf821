--------------------------- MODULE MistralKVPrefix ---------------------------
(***************************************************************************)
(* The opt-in cache of static prompt prefixes of one Runner.  Requests run  *)
(* under genLock, one at a time, but capture the cache's epoch before it,   *)
(* and enabling, clearing and disabling take the cache's own mutex only, so *)
(* they fall between any two steps of a request: an insertion is a check    *)
(* under the mutex, a clone outside it and the insertion under it again.    *)
(*                                                                          *)
(* A prefix's K/V rows are the text they were computed from and their       *)
(* format; a format is named by the bytes of one position.                  *)
(***************************************************************************)
EXTENDS Naturals, FiniteSets, Sequences, Functions, FiniteSetsExt, SequencesExt

CONSTANTS
    Requests,       \* goroutines that generate on this Runner
    StaticPrefixes,       \* the static prefixes (system prompt and tools) of their prompts
    Length,         \* Length[p]: the number of tokens of p
    Formats,        \* the K/V formats: bytes per position (with its token ID)
    Limits,         \* the byte limits EnableMistralKVPrefixCache is called with
    MaxEntries,     \* mistralKVPrefixCacheMaxEntries
    MaxEpoch,       \* bound: the number of boundaries
    None            \* nobody, or rows of no known text

VARIABLES
    prefixCache,    \* mistralKVPrefixCache: enabled, maxBytes, bytes, epoch, entries, order
    request,        \* each request's locals: pc, prefix, epoch, enabled, source
    running,        \* the request that holds genLock
    workspace,      \* the workspace's first rows: text and format
    fenced          \* history: the requests that began before the latest boundary

vars == <<prefixCache, request, running, workspace, fenced>>

Empty    == [p \in {} |-> None]
Disabled == [enabled |-> FALSE, maxBytes |-> 0, bytes |-> 0, epoch |-> 0, entries |-> Empty, order |-> <<>>]
NoRows   == [text |-> None, format |-> 0]
NoRequest == [pc |-> "idle", prefix |-> None, epoch |-> 0, enabled |-> FALSE, source |-> NoRows]

Init ==
    /\ prefixCache = Disabled
    /\ request = [r \in Requests |-> NoRequest]
    /\ running = None
    /\ workspace = NoRows
    /\ fenced = {}

At(r, pc) == request[r].pc = pc

-----------------------------------------------------------------------------
(* Control calls: boundaries after which no earlier request may store.      *)

Boundary(cache) ==
    /\ prefixCache.epoch < MaxEpoch
    /\ prefixCache' = [cache EXCEPT !.epoch = prefixCache.epoch + 1]
    /\ fenced' = {r \in Requests : ~At(r, "idle")}
    /\ UNCHANGED <<request, running, workspace>>

Enable(limit) == Boundary([Disabled EXCEPT !.enabled = TRUE, !.maxBytes = limit])
Disable == Boundary(Disabled)
Clear == Boundary([prefixCache EXCEPT !.bytes = 0, !.entries = Empty, !.order = <<>>])

-----------------------------------------------------------------------------
(* A request.                                                               *)

\* The fence is captured before the prompt is rendered: by the generation itself,
\* or by PrepareChatGeneration long before the plan is used.
Begin(r, p) ==
    /\ At(r, "idle")
    /\ request' = [request EXCEPT ![r] = [NoRequest EXCEPT !.pc = "rendered", !.prefix = p,
                     !.epoch = prefixCache.epoch, !.enabled = prefixCache.enabled]]
    /\ fenced' = fenced \ {r}
    /\ UNCHANGED <<prefixCache, running, workspace>>

\* genLock is taken; the workspace has the process's current K/V format, a changed
\* one discards it.  A prompt without a prefix, or rendered or looked at while the
\* cache is disabled, leaves the cache alone.
Start(r, format) ==
    /\ At(r, "rendered") /\ running = None
    /\ running' = r
    /\ workspace' = IF workspace.format = format THEN workspace ELSE [text |-> None, format |-> format]
    /\ request' = [request EXCEPT ![r].pc = IF request[r].enabled /\ prefixCache.enabled THEN "lookup" ELSE "plain"]
    /\ UNCHANGED <<prefixCache, fenced>>

Leave(r) ==
    /\ request' = [request EXCEPT ![r] = NoRequest]
    /\ running' = None

\* order as a list of keys, the least recently used first.
Touch(cache, p) == [cache EXCEPT !.order = Append(RemoveFirst(@, p), p)]

Compatible(p) == p \in DOMAIN prefixCache.entries /\ prefixCache.entries[p].rows.format = workspace.format

\* The lookup: a hit keeps a pointer to the immutable entry and releases the mutex.
Lookup(r) ==
    /\ At(r, "lookup")
    /\ LET p == request[r].prefix
       IN  IF prefixCache.enabled /\ Compatible(p)
           THEN /\ prefixCache' = Touch(prefixCache, p)
                /\ request' = [request EXCEPT ![r].pc = "copy", ![r].source = prefixCache.entries[p].rows]
           ELSE /\ request' = [request EXCEPT ![r].pc = "prefill"]
                /\ UNCHANGED prefixCache
    /\ UNCHANGED <<running, workspace, fenced>>

\* The Runner's own prefix or conversation cache already covers the static prefix.
Resident(r) ==
    /\ At(r, "lookup") /\ workspace.text = request[r].prefix
    /\ request' = [request EXCEPT ![r].pc = "prefill"]
    /\ UNCHANGED <<prefixCache, running, workspace, fenced>>

Copy(r) ==
    /\ At(r, "copy")
    /\ workspace' = request[r].source
    /\ request' = [request EXCEPT ![r].pc = "prefill"]
    /\ UNCHANGED <<prefixCache, running, fenced>>

\* Prefill and decode succeed, or are cancelled with some rows written; only after a
\* complete prefill, and with a captured epoch, is a snapshot considered.
Complete(r) ==
    /\ request[r].pc \in {"prefill", "plain"}
    /\ workspace' = [workspace EXCEPT !.text = request[r].prefix]
    /\ IF At(r, "prefill") /\ request[r].epoch # 0
       THEN request' = [request EXCEPT ![r].pc = "check"] /\ UNCHANGED running
       ELSE Leave(r)
    /\ UNCHANGED <<prefixCache, fenced>>

Cancel(r) ==
    /\ request[r].pc \in {"prefill", "plain"}
    /\ \E text \in {None, workspace.text} : workspace' = [workspace EXCEPT !.text = text]
    /\ Leave(r)
    /\ UNCHANGED <<prefixCache, fenced>>

\* Defect: only the switch is looked at, not the epoch.
OpenIfEnabled(r) == prefixCache.enabled

Open(r) == prefixCache.enabled /\ prefixCache.epoch = request[r].epoch

EntryBytes(p) == Length[p] * workspace.format

\* The first hold of the mutex in putMistralKVPrefixSnapshot.
Check(r) ==
    /\ At(r, "check")
    /\ LET p == request[r].prefix
           fits == Length[p] <= prefixCache.maxBytes \div workspace.format
       IN  IF Open(r) /\ fits /\ ~Compatible(p)
           THEN request' = [request EXCEPT ![r].pc = "clone"] /\ UNCHANGED <<prefixCache, running>>
           ELSE /\ prefixCache' = IF Open(r) /\ fits THEN Touch(prefixCache, p) ELSE prefixCache
                /\ Leave(r)
    /\ UNCHANGED <<workspace, fenced>>

Clone(r) ==
    /\ At(r, "clone")
    /\ request' = [request EXCEPT ![r].pc = "insert", ![r].source = workspace]
    /\ UNCHANGED <<prefixCache, running, workspace, fenced>>

Bytes(entries, keys) == MapThenSumSet(LAMBDA p : entries[p].bytes, keys)

\* Defect: a replaced entry keeps its bytes on the account.
WithoutAccount(cache, p) ==
    [cache EXCEPT !.order = RemoveFirst(@, p), !.entries = Restrict(@, DOMAIN @ \ {p})]

Without(cache, p) ==
    IF p \notin DOMAIN cache.entries THEN cache
    ELSE [cache EXCEPT !.bytes = @ - cache.entries[p].bytes,
                       !.order = RemoveFirst(@, p),
                       !.entries = Restrict(@, DOMAIN @ \ {p})]

\* The oldest entries go until the new one fits.
MakeRoom(cache, bytes) ==
    LET oldest(k) == {cache.order[i] : i \in 1 .. k}
        k == Min({k \in 0 .. Len(cache.order) :
                    \/ k = Len(cache.order)
                    \/ /\ Len(cache.order) - k < MaxEntries
                       /\ cache.bytes - Bytes(cache.entries, oldest(k)) + bytes <= cache.maxBytes})
    IN  [cache EXCEPT !.bytes = @ - Bytes(cache.entries, oldest(k)),
                      !.order = SubSeq(@, k + 1, Len(@)),
                      !.entries = Restrict(@, DOMAIN @ \ oldest(k))]

\* The second hold: the epoch is compared again.
Insert(r) ==
    /\ At(r, "insert")
    /\ LET p == request[r].prefix
           room == MakeRoom(Without(prefixCache, p), EntryBytes(p))
           entry == [rows |-> request[r].source, bytes |-> EntryBytes(p)]
       IN  prefixCache' =
             IF Open(r) /\ EntryBytes(p) <= prefixCache.maxBytes
             THEN [room EXCEPT !.entries = [q \in DOMAIN @ \cup {p} |-> IF q = p THEN entry ELSE @[q]],
                               !.order = Append(@, p), !.bytes = @ + EntryBytes(p)]
             ELSE prefixCache
    /\ Leave(r)
    /\ UNCHANGED <<workspace, fenced>>

-----------------------------------------------------------------------------
Generate(r) ==
    \/ \E p \in StaticPrefixes : Begin(r, p)
    \/ \E format \in Formats : Start(r, format)
    \/ Lookup(r) \/ Resident(r) \/ Copy(r) \/ Complete(r) \/ Cancel(r)
    \/ Check(r) \/ Clone(r) \/ Insert(r)

Next ==
    \/ \E limit \in Limits : Enable(limit)
    \/ Disable \/ Clear
    \/ \E r \in Requests : Generate(r)

Spec == Init /\ [][Next]_vars

-----------------------------------------------------------------------------
\* The account is exact after any sequence of insertions, replacements, evictions
\* and boundaries: the bytes are those of the entries, the order lists each key
\* once, both limits hold, and a disabled cache retains nothing.
AccountExact ==
    LET c == prefixCache
    IN  /\ c.bytes = Bytes(c.entries, DOMAIN c.entries)
        /\ c.bytes <= c.maxBytes
        /\ Len(c.order) = Cardinality(DOMAIN c.entries) /\ Len(c.order) <= MaxEntries
        /\ ToSet(c.order) = DOMAIN c.entries
        /\ c.enabled \/ DOMAIN c.entries = {}

\* What an entry advertises is what its rows contain, and a request that was given
\* them works with the rows of its own prefix in its workspace's format, also when
\* the entry was evicted or replaced between lookup and copy.
PrefixRowsMatch ==
    /\ \A p \in DOMAIN prefixCache.entries : prefixCache.entries[p].rows.text = p
    /\ \A r \in Requests :
         request[r].pc \in {"copy", "clone", "insert"} =>
             /\ running = r
             /\ At(r, "copy") => request[r].source = [text |-> request[r].prefix, format |-> workspace.format]
             /\ ~At(r, "copy") => workspace.text = request[r].prefix

\* Nothing but exact rows is kept, on an exact account.
PrefixCacheExact == AccountExact /\ PrefixRowsMatch

\* "epoch prevents an in-flight generation that began before Clear/Disable from
\* retaining a snapshot after that explicit invalidation boundary": whatever enters
\* the cache was computed by a request that began after the latest boundary.
FenceHolds ==
    [][\A p \in DOMAIN prefixCache'.entries :
         \/ p \in DOMAIN prefixCache.entries /\ prefixCache'.entries[p] = prefixCache.entries[p]
         \/ running \in Requests \ fenced]_vars
=============================================================================
