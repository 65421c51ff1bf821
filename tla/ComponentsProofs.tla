--------------------------- MODULE ComponentsProofs ---------------------------
(***************************************************************************)
(* Proofs about the components that share nothing, for any number of        *)
(* requests, tabs, writers and clients, and any texts.                      *)
(***************************************************************************)
EXTENDS Components, TextLemmas

-----------------------------------------------------------------------------
(* A behaviour of the composition is one of each of its components. *)

LEMMA HistoryBehaviour == SpecOne => Chat!Spec
<1>1. InitOne => Chat!Init
  BY DEF InitOne
<1>2. [NextOne]_allVars => [Chat!Next]_(Chat!vars)
  BY DEF NextOne, allVars, historyVars, Chat!vars
<1> QED BY <1>1, <1>2, PTL DEF SpecOne, Chat!Spec

-----------------------------------------------------------------------------
(* The chat history. *)

\* The versions of the history, and the absence of one.
Versions == SUBSET Edits
VersionOrNone == Versions \cup {None}

\* The lines at which a tab's request is inside the store's Lock.
StoreLines == {"fill", "sync", "rename", "protect"}

HistoryTypes ==
    /\ file \in [text : VersionOrNone, before : VersionOrNone, synced : {TRUE}]
    /\ temp \in [text : VersionOrNone, synced : BOOLEAN]
    /\ tab \in [Tabs -> [pc : StoreLines \cup {"idle", "editing", "put"}, etag : VersionOrNone, text : Versions]]

\* The lock belongs to the tab at a line inside it, and the temporary file holds its text.
HistoryLocked ==
    /\ \A t \in Tabs : tab[t].pc \in StoreLines => writer = t
    /\ \A t \in Tabs : tab[t].pc \in {"sync", "rename"} => temp.text = tab[t].text
    /\ \A t \in Tabs : Chat!At(t, "rename") => temp.synced

\* A request that names a version contains its edits; once it was compared, and until it
\* has replaced it, that version is in the file.
HistoryCompared ==
    /\ \A t \in Tabs : tab[t].etag # None => tab[t].etag \subseteq tab[t].text
    /\ \A t \in Tabs : tab[t].pc \in {"fill", "sync", "rename"} /\ tab[t].etag # None => tab[t].etag = file.text

HistoryInv == HistoryTypes /\ HistoryLocked /\ HistoryCompared

LEMMA VersionFacts ==
    /\ {} \in Versions /\ None \in VersionOrNone /\ Torn \notin VersionOrNone
    /\ \A s \in Versions : s \in VersionOrNone /\ s # None
    /\ \A v \in VersionOrNone : v # None => v \in Versions
    /\ \A s \in Versions, e \in Edits : s \cup {e} \in Versions
BY VersionAssumption DEF Versions, VersionOrNone

LEMMA HistoryInit == Chat!Init => HistoryInv
BY VersionFacts DEF Chat!Init, HistoryInv, HistoryTypes, HistoryLocked, HistoryCompared, Chat!At, Chat!NoTab, Chat!NoTemp, StoreLines

\* Every step of a tab's request keeps the invariant.
LEMMA TabKeeps ==
    ASSUME HistoryInv, NEW t \in Tabs,
           \/ Chat!Get(t) \/ Chat!Clear(t) \/ (\E e \in Edits : Chat!Put(t, e))
           \/ Chat!Acquire(t) \/ Chat!Fill(t) \/ Chat!Sync(t) \/ Chat!Rename(t) \/ Chat!Protect(t) \/ Chat!Fail(t)
    PROVE  HistoryInv'
<1> USE VersionFacts DEF HistoryInv, HistoryTypes, HistoryLocked, HistoryCompared, Chat!At, Chat!Goto, Chat!NoTab, Chat!NoTemp, StoreLines
<1>0. None \notin Tabs BY NobodyAssumption
<1>1. CASE Chat!Get(t) BY <1>0, <1>1 DEF Chat!Get
<1>2. CASE Chat!Clear(t) BY <1>0, <1>2 DEF Chat!Clear
<1>3. ASSUME NEW e \in Edits, Chat!Put(t, e) PROVE HistoryInv'
  <2>1. PICK etag \in {None, tab[t].etag} :
          tab' = [tab EXCEPT ![t] = [pc |-> "put", etag |-> etag, text |-> @.text \cup {e}]]
    BY <1>3 DEF Chat!Put
  <2>2. UNCHANGED <<file, temp, writer>>
    BY <1>3 DEF Chat!Put
  <2> DEFINE text == tab[t].text \cup {e}
  <2>3. etag \in VersionOrNone /\ text \in Versions /\ (etag # None => etag \subseteq text)
    OBVIOUS
  <2>4. tab' = [u \in Tabs |-> IF u = t THEN [pc |-> "put", etag |-> etag, text |-> text] ELSE tab[u]]
    BY <2>1
  <2> HIDE DEF text
  <2>5. HistoryTypes'
    BY <2>2, <2>3, <2>4
  <2>6. \A u \in Tabs : IF u = t THEN tab'[u].pc = "put" /\ tab'[u].etag = etag /\ tab'[u].text = text
                                 ELSE tab'[u] = tab[u]
    BY <2>4
  <2>7. HistoryLocked'
    BY <2>2, <2>6
  <2>8. HistoryCompared'
    BY <2>2, <2>3, <2>6
  <2> QED BY <2>5, <2>7, <2>8
<1>4. CASE Chat!Acquire(t)
  <2>1. Chat!At(t, "put") /\ writer = None /\ UNCHANGED <<file, temp>>
    BY <1>4 DEF Chat!Acquire
  <2>2. CASE Chat!Conflict(t)
    <3>1. tab' = [tab EXCEPT ![t] = Chat!NoTab] /\ UNCHANGED writer
      BY <1>4, <2>2 DEF Chat!Acquire
    <3> QED BY <2>1, <3>1
  <2>3. CASE ~Chat!Conflict(t)
    <3>1. tab' = [tab EXCEPT ![t].pc = "fill"] /\ writer' = t
      BY <1>4, <2>3 DEF Chat!Acquire
    <3>2. tab[t].etag # None => tab[t].etag = file.text
      BY <2>3 DEF Chat!Conflict
    <3>3. \A u \in Tabs : tab[u].pc \notin StoreLines
      BY <1>0, <2>1
    <3>4. HistoryTypes'
      <4> DEFINE Records == [pc : StoreLines \cup {"idle", "editing", "put"}, etag : VersionOrNone, text : Versions]
      <4>1. [tab[t] EXCEPT !.pc = "fill"] \in Records
        OBVIOUS
      <4>2. tab' \in [Tabs -> Records]
        <5> HIDE DEF Records
        <5>1. tab \in [Tabs -> Records]
          BY DEF Records
        <5> QED BY <3>1, <4>1, <5>1
      <4> QED BY <2>1, <4>2
    <3>5. HistoryLocked'
      BY <2>1, <3>1, <3>3
    <3>6. HistoryCompared'
      BY <2>1, <3>1, <3>2, <3>3
    <3> QED BY <3>4, <3>5, <3>6
  <2> QED BY <2>2, <2>3
<1>5. CASE Chat!Fill(t) BY <1>0, <1>5, ZenonT(90) DEF Chat!Fill
<1>6. CASE Chat!Sync(t) BY <1>0, <1>6, ZenonT(90) DEF Chat!Sync
<1>7. CASE Chat!Rename(t) BY <1>0, <1>7, ZenonT(90) DEF Chat!Rename
<1>8. CASE Chat!Protect(t) BY <1>0, <1>8 DEF Chat!Protect, Chat!Done
<1>9. CASE Chat!Fail(t) BY <1>0, <1>9 DEF Chat!Fail, Chat!Done
<1> QED BY <1>1, <1>2, <1>3, <1>4, <1>5, <1>6, <1>7, <1>8, <1>9

\* A crash leaves one of the last two versions: what was renamed had been synced.
LEMMA CrashKeeps == HistoryInv /\ Chat!Crash => HistoryInv'
<1> SUFFICES ASSUME HistoryInv, Chat!Crash PROVE HistoryInv'
  OBVIOUS
<1> USE VersionFacts DEF HistoryInv, HistoryTypes, HistoryLocked, HistoryCompared, Chat!At, Chat!NoTab, Chat!NoTemp, StoreLines
<1>1. file' \in [text : VersionOrNone, before : VersionOrNone, synced : {TRUE}]
  <2>1. PICK text \in {IF file.synced THEN file.text ELSE Torn, file.before} :
          file' = [text |-> text, before |-> text, synced |-> TRUE]
    BY DEF Chat!Crash
  <2>2. text \in VersionOrNone
    OBVIOUS
  <2> QED BY <2>1, <2>2
<1>2. \A t \in Tabs : tab'[t] = IF tab[t].pc \in {"idle", "editing"} THEN tab[t] ELSE Chat!NoTab
  BY DEF Chat!Crash
<1>3. tab' \in [Tabs -> [pc : StoreLines \cup {"idle", "editing", "put"}, etag : VersionOrNone, text : Versions]]
  BY DEF Chat!Crash
<1>4. temp' = Chat!NoTemp
  BY DEF Chat!Crash
<1>5. HistoryTypes'
  BY <1>1, <1>3, <1>4
<1>6. HistoryLocked' /\ HistoryCompared'
  BY <1>2
<1> QED BY <1>5, <1>6

LEMMA HistoryInvariance == Chat!Spec => []HistoryInv
<1>1. HistoryInv /\ [Chat!Next]_(Chat!vars) => HistoryInv'
  <2> SUFFICES ASSUME HistoryInv, [Chat!Next]_(Chat!vars) PROVE HistoryInv'
    OBVIOUS
  <2>1. CASE UNCHANGED Chat!vars
    BY <2>1 DEF Chat!vars, HistoryInv, HistoryTypes, HistoryLocked, HistoryCompared, Chat!At
  <2> QED BY <2>1, TabKeeps, CrashKeeps DEF Chat!Next
<1> QED BY HistoryInit, <1>1, PTL DEF Chat!Spec

\* Whatever stops when, the file is absent or a version some tab wrote: the store syncs
\* the temporary file before it renames it.
THEOREM FileWhole == SpecOne => []HistoryWhole
<1>1. HistoryInv => HistoryWhole
  BY VersionFacts DEF HistoryInv, HistoryTypes, HistoryWhole, Chat!HistoryWhole
<1> QED BY HistoryBehaviour, HistoryInvariance, <1>1, PTL

\* A conditional save discards nobody's edit, for any number of tabs: the ETag is compared
\* and the file replaced under one hold of the store's lock.
THEOREM NoEditLost == SpecOne => EditsKept
<1>1. HistoryInv /\ [Chat!Next]_(Chat!vars) =>
        [\A t \in Tabs : Chat!Rename(t) /\ tab[t].etag # None =>
           file.text # None /\ file.text \subseteq file'.text]_(Chat!vars)
  BY DEF HistoryInv, HistoryTypes, HistoryLocked, HistoryCompared, Chat!Rename, Chat!At, StoreLines
<1> QED BY HistoryBehaviour, HistoryInvariance, <1>1, PTL DEF Chat!Spec, EditsKept, Chat!EditsKept

-----------------------------------------------------------------------------
(* The document index and its snapshot. *)

LEMMA RagBehaviour == SpecOne => Rag!Spec
<1>1. InitOne => Rag!Init
  BY DEF InitOne
<1>2. [NextOne]_allVars => [Rag!Next]_(Rag!vars)
  BY DEF NextOne, allVars, ragVars, Rag!vars
<1> QED BY <1>1, <1>2, PTL DEF SpecOne, Rag!Spec

RagTypes ==
    /\ directory \in Rag!Directories
    /\ DOMAIN ragWriter = Writers
    /\ \A w \in Writers :
         /\ DOMAIN ragWriter[w] = {"pc", "id", "text"}
         /\ ragWriter[w].pc \in {"idle", "add", "save", "encode", "rename"}

\* saveMu belongs to the goroutine that encodes or replaces the snapshot.
SaveLocked == \A w \in Writers : ragWriter[w].pc \in {"encode", "rename"} => saver = w

Saves(pcs) == \E w \in Writers : ragWriter[w].pc \in pcs

\* Two contents of the index without the files of the directory.
SameDocs(a, b) == \A d \in Docs \ DirDocs : a[d] = b[d]

\* What is encoded is the index, or a request that changed it since waits to save it too.
TempCurrent == Saves({"rename"}) => SameDocs(ragTemp, index) \/ Saves({"save"})

RagInv == RagTypes /\ SaveLocked /\ TempCurrent /\ SnapshotCurrent

LEMMA RagInit == Rag!Init => RagInv
BY DEF Rag!Init, RagInv, RagTypes, SaveLocked, TempCurrent, Saves, SnapshotCurrent, Rag!SnapshotCurrent,
       Rag!Directories, Rag!Nothing, Rag!Idle

\* The index is only changed by a request that will save it, and only a holder of saveMu
\* touches the snapshot.
LEMMA WriterKeeps ==
    ASSUME RagInv, NEW w \in Writers,
           \/ \E d \in Docs : Rag!Remove(w, d) \/ (\E text \in Texts : Rag!Embed(w, d, text))
           \/ Rag!Reload(w) \/ Rag!Add(w) \/ Rag!EmbedFails(w)
           \/ Rag!Lock(w) \/ Rag!Encode(w) \/ Rag!Rename(w) \/ Rag!SaveFails(w)
    PROVE  RagInv'
<1> USE DEF RagInv, RagTypes, SaveLocked, TempCurrent, Saves, SameDocs, SnapshotCurrent, Rag!SnapshotCurrent,
            Rag!At, Rag!Goto, Rag!Idle
<1>1. ASSUME NEW d \in Docs, Rag!Remove(w, d) PROVE RagInv'
  BY <1>1 DEF Rag!Remove
<1>2. ASSUME NEW d \in Docs, NEW text \in Texts, Rag!Embed(w, d, text) PROVE RagInv'
  BY <1>2 DEF Rag!Embed
<1>3. CASE Rag!Reload(w) BY <1>3 DEF Rag!Reload
<1>4. CASE Rag!Add(w) BY <1>4 DEF Rag!Add
<1>5. CASE Rag!EmbedFails(w) BY <1>5 DEF Rag!EmbedFails
<1>6. CASE Rag!Lock(w)
  <2>1. \A v \in Writers : ragWriter[v].pc \notin {"encode", "rename"}
    BY <1>6, NobodyAssumption DEF Rag!Lock
  <2> QED BY <1>6, <2>1 DEF Rag!Lock
<1>7. CASE Rag!Encode(w) BY <1>7 DEF Rag!Encode
<1>8. CASE Rag!Rename(w) BY <1>8 DEF Rag!Rename
<1>9. CASE Rag!SaveFails(w) BY <1>9 DEF Rag!SaveFails
<1> QED BY <1>1, <1>2, <1>3, <1>4, <1>5, <1>6, <1>7, <1>8, <1>9

\* A new process starts from the snapshot, or does not know what was in it.
LEMMA RestartKeeps == RagInv /\ Rag!Restart => RagInv'
<1> SUFFICES ASSUME RagInv, Rag!Restart PROVE RagInv'
  OBVIOUS
<1>1. \A w \in Writers : ragWriter'[w] = Rag!Idle
  BY DEF Rag!Restart
<1>2. directory' \in Rag!Directories /\ \A d \in Docs \ DirDocs : directory'[d] = None
  BY DEF Rag!Restart, Rag!Directories
<1>3. RagTypes' /\ SaveLocked' /\ TempCurrent'
  BY <1>1, <1>2 DEF Rag!Restart, RagTypes, SaveLocked, TempCurrent, Saves, Rag!Idle
<1>4. ~unsaved' => SameDocs(snapshot', index')
  BY <1>2 DEF Rag!Restart, Rag!Over, SameDocs
<1> QED BY <1>3, <1>4 DEF RagInv, SnapshotCurrent, Rag!SnapshotCurrent, SameDocs

LEMMA RagInvariance == Rag!Spec => []RagInv
<1>1. RagInv /\ [Rag!Next]_(Rag!vars) => RagInv'
  <2> SUFFICES ASSUME RagInv, [Rag!Next]_(Rag!vars) PROVE RagInv'
    OBVIOUS
  <2>1. CASE UNCHANGED Rag!vars
    BY <2>1 DEF Rag!vars, RagInv, RagTypes, SaveLocked, TempCurrent, Saves, SameDocs, SnapshotCurrent,
                Rag!SnapshotCurrent
  <2> QED BY <2>1, WriterKeeps, RestartKeeps DEF Rag!Next
<1> QED BY RagInit, <1>1, PTL DEF Rag!Spec

\* When every request has saved and the latest save succeeded, the snapshot is the index,
\* for any number of requests: saves take turns and read the index when theirs comes.
THEOREM SnapshotIsIndex == SpecOne => []SnapshotCurrent
<1>1. RagInv => SnapshotCurrent
  BY DEF RagInv
<1> QED BY RagBehaviour, RagInvariance, <1>1, PTL

-----------------------------------------------------------------------------
(* The static prefixes. *)

LEMMA PrefixBehaviour == SpecOne => Prefix!Spec
<1>1. InitOne => Prefix!Init
  BY DEF InitOne
<1>2. [NextOne]_allVars => [Prefix!Next]_(Prefix!vars)
  BY DEF NextOne, allVars, prefixVars, Prefix!vars
<1> QED BY <1>1, <1>2, PTL DEF SpecOne, Prefix!Spec

\* The lines at which a request owns genLock.
GenLockLines == {"lookup", "copy", "prefill", "plain", "check", "clone", "insert"}

CacheFields == {"enabled", "maxBytes", "bytes", "epoch", "entries", "order"}

\* The fields of the records, and the values the epochs and program counters take.
PrefixShape ==
    /\ DOMAIN prefixCache = CacheFields
    /\ prefixCache.enabled \in BOOLEAN
    /\ prefixCache.epoch \in Nat
    /\ workspace = [text |-> workspace.text, format |-> workspace.format]
    /\ DOMAIN request = Requests
    /\ \A r \in Requests :
         /\ DOMAIN request[r] = {"pc", "prefix", "epoch", "enabled", "source"}
         /\ request[r].pc \in GenLockLines \cup {"idle", "rendered"}
         /\ request[r].epoch \in Nat

\* genLock belongs to the request at a line that owns it.
PrefixOwner == \A r \in Requests : request[r].pc \in GenLockLines => running = r

\* A request that began before the latest boundary has an older epoch.
PrefixFence ==
    \A r \in Requests :
        ~Prefix!At(r, "idle") => /\ request[r].epoch <= prefixCache.epoch
                                 /\ r \in fenced => request[r].epoch < prefixCache.epoch

\* The rows of entries and of the request between lookup and insertion.
PrefixRowsExact ==
    /\ \A p \in DOMAIN prefixCache.entries :
         LET rows == prefixCache.entries[p].rows
         IN  rows = [text |-> p, format |-> rows.format]
    /\ \A r \in Requests :
         LET q == request[r]
         IN  /\ q.pc = "copy" => q.source = [text |-> q.prefix, format |-> workspace.format]
             /\ q.pc \in {"check", "clone", "insert"} => workspace.text = q.prefix
             /\ q.pc = "insert" => q.source = [text |-> q.prefix, format |-> q.source.format]

PrefixInv == PrefixShape /\ PrefixOwner /\ PrefixFence /\ PrefixRowsExact

-----------------------------------------------------------------------------
\* Reordering the keys and making room leave only entries that were there, as they were.
LEMMA TouchKeeps ==
    ASSUME NEW cache, DOMAIN cache = CacheFields, NEW p
    PROVE  /\ DOMAIN Prefix!Touch(cache, p) = CacheFields
           /\ \A f \in CacheFields \ {"order"} : Prefix!Touch(cache, p)[f] = cache[f]
BY DEF Prefix!Touch, CacheFields

LEMMA WithoutKeeps ==
    ASSUME NEW cache, DOMAIN cache = CacheFields, NEW p
    PROVE  LET rest == Prefix!Without(cache, p)
           IN  /\ DOMAIN rest = CacheFields
               /\ rest.epoch = cache.epoch /\ rest.enabled = cache.enabled
               /\ DOMAIN rest.entries \subseteq DOMAIN cache.entries
               /\ \A q \in DOMAIN rest.entries : rest.entries[q] = cache.entries[q]
BY DEF Prefix!Without, CacheFields, Prefix!Restrict

LEMMA MakeRoomKeeps ==
    ASSUME NEW cache, DOMAIN cache = CacheFields, NEW bytes
    PROVE  LET room == Prefix!MakeRoom(cache, bytes)
           IN  /\ DOMAIN room = CacheFields
               /\ room.epoch = cache.epoch /\ room.enabled = cache.enabled
               /\ DOMAIN room.entries \subseteq DOMAIN cache.entries
               /\ \A q \in DOMAIN room.entries : room.entries[q] = cache.entries[q]
BY DEF Prefix!MakeRoom, CacheFields, Prefix!Restrict

\* An insertion adds one entry, and that only when the epoch is still the request's.
LEMMA InsertStores ==
    ASSUME PrefixShape, NEW r \in Requests, Prefix!Insert(r)
    PROVE  /\ DOMAIN prefixCache' = CacheFields
           /\ prefixCache'.epoch = prefixCache.epoch /\ prefixCache'.enabled = prefixCache.enabled
           /\ \A p \in DOMAIN prefixCache'.entries :
                \/ p \in DOMAIN prefixCache.entries /\ prefixCache'.entries[p] = prefixCache.entries[p]
                \/ /\ Prefix!Open(r) /\ p = request[r].prefix
                   /\ prefixCache'.entries[p].rows = request[r].source
<1> DEFINE p == request[r].prefix
           gone == Prefix!Without(prefixCache, p)
           room == Prefix!MakeRoom(gone, Prefix!EntryBytes(p))
           entry == [rows |-> request[r].source, bytes |-> Prefix!EntryBytes(p)]
           entries == [q \in DOMAIN room.entries \cup {p} |-> IF q = p THEN entry ELSE room.entries[q]]
           stored == [room EXCEPT !.entries = entries, !.order = Append(@, p), !.bytes = @ + Prefix!EntryBytes(p)]
<1>1. prefixCache' = IF Prefix!Open(r) /\ Prefix!EntryBytes(p) <= prefixCache.maxBytes THEN stored ELSE prefixCache
  BY DEF Prefix!Insert
<1>2. /\ DOMAIN gone = CacheFields
      /\ gone.epoch = prefixCache.epoch /\ gone.enabled = prefixCache.enabled
      /\ DOMAIN gone.entries \subseteq DOMAIN prefixCache.entries
      /\ \A q \in DOMAIN gone.entries : gone.entries[q] = prefixCache.entries[q]
  <2> HIDE DEF p
  <2> QED BY WithoutKeeps DEF PrefixShape
<1>3. /\ DOMAIN room = CacheFields
      /\ room.epoch = gone.epoch /\ room.enabled = gone.enabled
      /\ DOMAIN room.entries \subseteq DOMAIN gone.entries
      /\ \A q \in DOMAIN room.entries : room.entries[q] = gone.entries[q]
  <2> HIDE DEF p, gone
  <2> QED BY <1>2, MakeRoomKeeps
<1>4. CASE prefixCache' = prefixCache
  BY <1>4 DEF PrefixShape
<1>5. CASE Prefix!Open(r) /\ prefixCache' = stored
  <2> HIDE DEF p, gone, room, entry, entries
  <2>1. /\ DOMAIN stored = CacheFields
        /\ stored.epoch = room.epoch /\ stored.enabled = room.enabled
        /\ stored.entries = entries
    BY <1>3 DEF CacheFields
  <2>2. DOMAIN entries = DOMAIN room.entries \cup {p}
    BY DEF entries
  <2>3. ASSUME NEW q \in DOMAIN entries
        PROVE  IF q = p THEN entries[q].rows = request[r].source ELSE entries[q] = room.entries[q]
    BY DEF entries, entry
  <2>4. p = request[r].prefix
    BY DEF p
  <2> QED BY <1>2, <1>3, <1>5, <2>1, <2>2, <2>3, <2>4
<1> QED BY <1>1, <1>4, <1>5

-----------------------------------------------------------------------------
LEMMA PrefixInit == Prefix!Init => PrefixInv
BY DEF Prefix!Init, PrefixInv, PrefixShape, PrefixOwner, PrefixFence, PrefixRowsExact, Prefix!Disabled, Prefix!NoRows, Prefix!NoRequest, Prefix!Empty, CacheFields, GenLockLines, Prefix!At

\* A boundary empties the cache and fences every request in progress off.
LEMMA BoundaryEmpties ==
    ASSUME PrefixInv, (\E limit \in Limits : Prefix!Enable(limit)) \/ Prefix!Disable \/ Prefix!Clear
    PROVE  /\ DOMAIN prefixCache' = CacheFields
           /\ prefixCache'.enabled \in BOOLEAN
           /\ prefixCache'.epoch = prefixCache.epoch + 1
           /\ DOMAIN prefixCache'.entries = {}
           /\ fenced' = {r \in Requests : ~Prefix!At(r, "idle")}
           /\ UNCHANGED <<request, running, workspace>>
<1>1. DOMAIN prefixCache = CacheFields /\ prefixCache.enabled \in BOOLEAN
  BY DEF PrefixInv, PrefixShape
<1>2. ASSUME NEW limit \in Limits, Prefix!Enable(limit)
      PROVE  DOMAIN prefixCache' = CacheFields /\ prefixCache'.enabled = TRUE
             /\ DOMAIN prefixCache'.entries = {} /\ prefixCache'.epoch = prefixCache.epoch + 1
  BY <1>2 DEF Prefix!Enable, Prefix!Boundary, Prefix!Disabled, Prefix!Empty, CacheFields
<1>3. ASSUME Prefix!Disable
      PROVE  DOMAIN prefixCache' = CacheFields /\ prefixCache'.enabled = FALSE
             /\ DOMAIN prefixCache'.entries = {} /\ prefixCache'.epoch = prefixCache.epoch + 1
  BY <1>3 DEF Prefix!Disable, Prefix!Boundary, Prefix!Disabled, Prefix!Empty, CacheFields
<1>4. ASSUME Prefix!Clear
      PROVE  DOMAIN prefixCache' = CacheFields /\ prefixCache'.enabled = prefixCache.enabled
             /\ DOMAIN prefixCache'.entries = {} /\ prefixCache'.epoch = prefixCache.epoch + 1
  BY <1>1, <1>4 DEF Prefix!Clear, Prefix!Boundary, Prefix!Empty, CacheFields
<1>5. fenced' = {r \in Requests : ~Prefix!At(r, "idle")} /\ UNCHANGED <<request, running, workspace>>
  BY DEF Prefix!Enable, Prefix!Disable, Prefix!Clear, Prefix!Boundary
<1> QED BY <1>1, <1>2, <1>3, <1>4, <1>5

LEMMA BoundaryKeeps ==
    ASSUME PrefixInv, (\E limit \in Limits : Prefix!Enable(limit)) \/ Prefix!Disable \/ Prefix!Clear
    PROVE  PrefixInv'
BY BoundaryEmpties DEF PrefixInv, PrefixShape, PrefixOwner, PrefixFence, PrefixRowsExact, Prefix!At

\* Every step of a request keeps the invariant.
LEMMA RequestKeeps ==
    ASSUME PrefixInv, NEW r \in Requests, Prefix!Generate(r)
    PROVE  PrefixInv'
<1> USE NobodyAssumption DEF PrefixInv, PrefixShape, PrefixOwner, PrefixFence, PrefixRowsExact, Prefix!At, GenLockLines, Prefix!Leave, Prefix!NoRequest, Prefix!NoRows
<1>1. ASSUME NEW p \in StaticPrefixes, Prefix!Begin(r, p) PROVE PrefixInv'
  BY <1>1 DEF Prefix!Begin
<1>2. ASSUME NEW format \in Formats, Prefix!Start(r, format) PROVE PrefixInv'
  BY <1>2 DEF Prefix!Start
<1>3. CASE Prefix!Lookup(r)
  BY <1>3, TouchKeeps DEF Prefix!Lookup, Prefix!Compatible, CacheFields
<1>4. CASE Prefix!Resident(r) BY <1>4 DEF Prefix!Resident
<1>5. CASE Prefix!Copy(r)
  <2>1. /\ request[r].pc = "copy" /\ request' = [request EXCEPT ![r].pc = "prefill"]
        /\ workspace' = request[r].source /\ UNCHANGED <<prefixCache, running, fenced>>
    BY <1>5 DEF Prefix!Copy
  <2>2. workspace' = [text |-> request[r].prefix, format |-> workspace.format]
    BY <2>1
  <2> QED BY <2>1, <2>2
<1>6. CASE Prefix!Complete(r) BY <1>6 DEF Prefix!Complete
<1>7. CASE Prefix!Cancel(r)
  <2>1. /\ request' = [request EXCEPT ![r] = Prefix!NoRequest] /\ running' = None
        /\ UNCHANGED <<prefixCache, fenced>> /\ request[r].pc \in {"prefill", "plain"}
    BY <1>7 DEF Prefix!Cancel
  <2>2. workspace' = [text |-> workspace'.text, format |-> workspace'.format]
    <3>1. PICK text : workspace' = [workspace EXCEPT !.text = text]
      BY <1>7 DEF Prefix!Cancel
    <3> QED BY <3>1
  <2> QED BY <2>1, <2>2
<1>8. CASE Prefix!Check(r)
  BY <1>8, TouchKeeps DEF Prefix!Check, Prefix!Compatible, CacheFields
<1>9. CASE Prefix!Clone(r) BY <1>9 DEF Prefix!Clone
<1>10. CASE Prefix!Insert(r)
  <2>1. /\ request' = [request EXCEPT ![r] = Prefix!NoRequest]
        /\ running' = None /\ UNCHANGED <<workspace, fenced>>
        /\ request[r].pc = "insert"
    BY <1>10 DEF Prefix!Insert
  <2> QED BY <1>10, <2>1, InsertStores, ZenonT(90)
<1> QED BY <1>1, <1>2, <1>3, <1>4, <1>5, <1>6, <1>7, <1>8, <1>9, <1>10 DEF Prefix!Generate

LEMMA PrefixKeeps == PrefixInv /\ [Prefix!Next]_(Prefix!vars) => PrefixInv'
<1> SUFFICES ASSUME PrefixInv, [Prefix!Next]_(Prefix!vars) PROVE PrefixInv'
  OBVIOUS
<1>1. CASE UNCHANGED Prefix!vars
  BY <1>1 DEF Prefix!vars, PrefixInv, PrefixShape, PrefixOwner, PrefixFence, PrefixRowsExact, Prefix!At
<1> QED BY <1>1, BoundaryKeeps, RequestKeeps DEF Prefix!Next

\* The strengthened invariant of the static-prefix cache.
LEMMA PrefixInvariance == Prefix!Spec => []PrefixInv
<1>1. PrefixInv /\ [Prefix!Next]_(Prefix!vars) => PrefixInv'
  BY PrefixKeeps
<1> QED BY PrefixInit, <1>1, PTL DEF Prefix!Spec

-----------------------------------------------------------------------------
\* Only the insertion of a request that began after the latest boundary adds entries.
LEMMA StepFenced ==
    ASSUME PrefixInv, [Prefix!Next]_(Prefix!vars)
    PROVE  \A p \in DOMAIN prefixCache'.entries :
             \/ p \in DOMAIN prefixCache.entries /\ prefixCache'.entries[p] = prefixCache.entries[p]
             \/ running \in Requests \ fenced
<1> DEFINE Same == prefixCache'.entries = prefixCache.entries
<1>1. ASSUME (\E limit \in Limits : Prefix!Enable(limit)) \/ Prefix!Disable \/ Prefix!Clear PROVE DOMAIN prefixCache'.entries = {}
  BY <1>1, BoundaryEmpties
<1>2. ASSUME NEW r \in Requests, Prefix!Lookup(r) \/ Prefix!Check(r) PROVE Same
  BY <1>2, TouchKeeps DEF Prefix!Lookup, Prefix!Check, PrefixInv, PrefixShape, CacheFields
<1>3. ASSUME NEW r \in Requests, Prefix!Insert(r) PROVE running = r /\ (Prefix!Open(r) => r \notin fenced)
  BY <1>3 DEF PrefixInv, PrefixShape, PrefixOwner, PrefixFence, Prefix!Insert, Prefix!At, GenLockLines, Prefix!Open
<1>4. ASSUME NEW r \in Requests, Prefix!Generate(r) PROVE Same \/ Prefix!Insert(r)
  BY <1>2, <1>4 DEF Prefix!Generate, Prefix!Begin, Prefix!Start, Prefix!Resident, Prefix!Copy, Prefix!Complete, Prefix!Cancel, Prefix!Clone
<1>5. ASSUME UNCHANGED Prefix!vars PROVE Same
  BY <1>5 DEF Prefix!vars
<1>6. CASE Same BY <1>6
<1>7. ASSUME NEW r \in Requests, Prefix!Insert(r)
      PROVE  \A p \in DOMAIN prefixCache'.entries :
               \/ p \in DOMAIN prefixCache.entries /\ prefixCache'.entries[p] = prefixCache.entries[p]
               \/ running \in Requests \ fenced
  BY <1>3, <1>7, InsertStores DEF PrefixInv
<1> QED BY <1>1, <1>4, <1>5, <1>6, <1>7 DEF Prefix!Next

\* A generation that began before Prefix!Enable, Prefix!Clear or Prefix!Disable retains nothing behind that
\* boundary, wherever between its check, clone and insertion the boundary falls.
THEOREM EpochFence == SpecOne => FenceHolds
<1>1. PrefixInv /\ [Prefix!Next]_(Prefix!vars) =>
        [\A p \in DOMAIN prefixCache'.entries :
           \/ p \in DOMAIN prefixCache.entries /\ prefixCache'.entries[p] = prefixCache.entries[p]
           \/ running \in Requests \ fenced]_(Prefix!vars)
  BY StepFenced
<1> QED BY PrefixBehaviour, PrefixInvariance, <1>1, PTL DEF Prefix!Spec, FenceHolds, Prefix!FenceHolds

\* Every retained prefix has the rows of its key, and a request that copies or clones one
\* owns the workspace and has the rows of its own prefix.
LEMMA PrefixRowsKept ==
    ASSUME PrefixInv
    PROVE  Prefix!PrefixRowsMatch
<1>1. ASSUME NEW p \in DOMAIN prefixCache.entries PROVE prefixCache.entries[p].rows.text = p
  <2> DEFINE rows == prefixCache.entries[p].rows
  <2>1. rows = [text |-> p, format |-> rows.format]
    BY DEF PrefixInv, PrefixRowsExact
  <2> HIDE DEF rows
  <2>2. rows.text = p
    BY <2>1
  <2> QED BY <2>2 DEF rows
<1>2. ASSUME NEW r \in Requests, request[r].pc \in {"copy", "clone", "insert"}
      PROVE  /\ running = r
             /\ Prefix!At(r, "copy") => request[r].source = [text |-> request[r].prefix, format |-> workspace.format]
             /\ ~Prefix!At(r, "copy") => workspace.text = request[r].prefix
  <2>1. running = r
    BY <1>2 DEF PrefixInv, PrefixOwner, GenLockLines
  <2> QED BY <1>2, <2>1 DEF PrefixInv, PrefixRowsExact, Prefix!At
<1> QED BY <1>1, <1>2 DEF Prefix!PrefixRowsMatch

-----------------------------------------------------------------------------
(* The byte account of the static prefixes: sums over sets of entries, the order *)
(* of the keys, and the two limits.                                              *)

\* What holds of a finite set's parts when it holds of all that lack one element more.
LEMMA SetInduction ==
    ASSUME NEW S, IsFiniteSet(S), NEW good,
           {} \in good, \A T \in SUBSET S : T # {} /\ (\A x \in T : T \ {x} \in good) => T \in good
    PROVE  SUBSET S \subseteq good
<1> DEFINE bad == {T \in SUBSET S : T \notin good}
           sizes == {Cardinality(T) : T \in bad}
<1> SUFFICES ASSUME bad # {} PROVE FALSE
  OBVIOUS
<1>1. \A T \in SUBSET S : IsFiniteSet(T) /\ Cardinality(T) \in Nat
  BY FS_Subset, FS_CardinalityType
<1>2. PICK least \in sizes : \A n \in sizes : least <= n
  <2>1. sizes \subseteq Nat /\ sizes # {}
    BY <1>1
  <2> HIDE DEF sizes
  <2> QED BY <2>1, LeastExists
<1>3. PICK T \in bad : least = Cardinality(T)
  OBVIOUS
<1>4. T # {} /\ IsFiniteSet(T) /\ Cardinality(T) \in Nat
  BY <1>1
<1>5. ASSUME NEW x \in T PROVE T \ {x} \in good
  <2>1. Cardinality(T \ {x}) = Cardinality(T) - 1
    BY <1>4, FS_RemoveElement
  <2>2. ~(Cardinality(T) <= Cardinality(T \ {x}))
    BY <1>4, <2>1
  <2>3. Cardinality(T \ {x}) \notin sizes
    <3> HIDE DEF sizes
    <3> QED BY <1>2, <1>3, <2>2
  <2>4. T \ {x} \in SUBSET S
    OBVIOUS
  <2> QED BY <2>3, <2>4
<1> QED BY <1>4, <1>5

-----------------------------------------------------------------------------
AnyOf(s) == CHOOSE x \in s : TRUE
\* The sums of the bytes of sets of entries.
Sums(f, book, S) == f = [s \in SUBSET S |-> IF s = {} THEN 0 ELSE book[AnyOf(s)].bytes + f[s \ {AnyOf(s)}]]

LEMMA BytesChosen ==
    \A book, S : Prefix!Bytes(book, S) = (CHOOSE f : Sums(f, book, S))[S]
BY DEF Prefix!Bytes, Prefix!MapThenSumSet, Prefix!MapThenFoldSet, Sums, AnyOf

LEMMA AnyIn == \A s : s # {} => AnyOf(s) \in s
BY DEF AnyOf

\* The sums exist: of the empty set, and of one more element.
LEMMA SumsExist ==
    ASSUME NEW S, IsFiniteSet(S), NEW book
    PROVE  \E f : Sums(f, book, S)
<1> DEFINE small(n) == {s \in SUBSET S : Cardinality(s) <= n}
           to(f, n) == f = [s \in small(n) |-> IF s = {} THEN 0 ELSE book[AnyOf(s)].bytes + f[s \ {AnyOf(s)}]]
           bad == {n \in Nat : ~ \E f : to(f, n)}
<1>1. \A T \in SUBSET S : IsFiniteSet(T) /\ Cardinality(T) \in Nat /\ Cardinality(T) <= Cardinality(S)
  BY FS_Subset, FS_CardinalityType
<1>2. ASSUME NEW s \in SUBSET S, s # {} PROVE Cardinality(s \ {AnyOf(s)}) = Cardinality(s) - 1
  <2>1. PICK x \in s : x = AnyOf(s)
    BY <1>2, AnyIn
  <2>2. Cardinality(s \ {x}) = Cardinality(s) - 1
    BY <1>1, FS_RemoveElement
  <2> QED BY <2>1, <2>2
<1>3. bad = {}
  <2> SUFFICES ASSUME bad # {} PROVE FALSE
    OBVIOUS
  <2>1. PICK least \in bad : \A k \in bad : least <= k
    <3>1. bad \subseteq Nat
      OBVIOUS
    <3> HIDE DEF bad
    <3> QED BY <3>1, LeastExists
  <2>2. least \in Nat /\ ~ \E f : to(f, least)
    OBVIOUS
  <2>3. CASE least = 0
    <3>1. \A s \in small(0) : s = {}
      <4> TAKE s \in small(0)
      <4>1. IsFiniteSet(s) /\ Cardinality(s) = 0
        BY <1>1
      <4> QED BY <4>1, FS_EmptySet
    <3>2. PICK f : f = [s \in small(0) |-> 0]
      OBVIOUS
    <3>3. to(f, 0)
      <4> HIDE DEF small
      <4> QED BY <3>1, <3>2
    <3> HIDE DEF to
    <3> QED BY <2>2, <2>3, <3>3
  <2>4. CASE least # 0
    <3>1. PICK m \in Nat : least = m + 1
      BY <2>2, <2>4
    <3>2. m \notin bad
      <4> HIDE DEF bad
      <4> QED BY <2>1, <3>1
    <3>3. PICK f : to(f, m)
      BY <3>2
    <3>4. PICK g : g = [s \in small(m + 1) |-> IF s = {} THEN 0 ELSE book[AnyOf(s)].bytes + f[s \ {AnyOf(s)}]]
      OBVIOUS
    <3>5. ASSUME NEW s \in small(m + 1), s # {}
          PROVE  g[s \ {AnyOf(s)}] = f[s \ {AnyOf(s)}]
      <4>1. PICK rest : rest = s \ {AnyOf(s)}
        OBVIOUS
      <4>2. rest \in small(m) /\ rest \in small(m + 1)
        <5>1. Cardinality(rest) = Cardinality(s) - 1 /\ Cardinality(s) \in Nat /\ Cardinality(s) <= m + 1
          BY <1>1, <1>2, <3>5, <4>1
        <5>2. Cardinality(rest) <= m /\ Cardinality(rest) <= m + 1
          BY <5>1
        <5> QED BY <4>1, <5>2
      <4> HIDE DEF small
      <4>3. f[rest] = IF rest = {} THEN 0 ELSE book[AnyOf(rest)].bytes + f[rest \ {AnyOf(rest)}]
        BY <3>3, <4>2
      <4>4. g[rest] = IF rest = {} THEN 0 ELSE book[AnyOf(rest)].bytes + f[rest \ {AnyOf(rest)}]
        BY <3>4, <4>2
      <4> QED BY <4>1, <4>3, <4>4
    <3>6. to(g, m + 1)
      <4> HIDE DEF small
      <4> QED BY <3>4, <3>5
    <3> HIDE DEF to
    <3> QED BY <2>2, <3>1, <3>6
  <2> QED BY <2>3, <2>4
<1>4. PICK f : to(f, Cardinality(S))
  BY <1>1, <1>3
<1>5. small(Cardinality(S)) = SUBSET S
  BY <1>1
<1> QED BY <1>4, <1>5 DEF Sums

LEMMA BytesSum ==
    ASSUME NEW S, IsFiniteSet(S), NEW book
    PROVE  \E f : Sums(f, book, S) /\ Prefix!Bytes(book, S) = f[S]
BY SumsExist, BytesChosen

\* And they are the same, whatever larger set they are summed in.
LEMMA SumsAgree ==
    ASSUME NEW S, IsFiniteSet(S), NEW T, T \subseteq S, NEW book, NEW f, NEW g, Sums(f, book, S), Sums(g, book, T)
    PROVE  f[T] = g[T]
<1> DEFINE same == {s \in SUBSET T : f[s] = g[s]}
<1>1. \A s \in SUBSET T : /\ f[s] = IF s = {} THEN 0 ELSE book[AnyOf(s)].bytes + f[s \ {AnyOf(s)}]
                          /\ g[s] = IF s = {} THEN 0 ELSE book[AnyOf(s)].bytes + g[s \ {AnyOf(s)}]
  <2> TAKE s \in SUBSET T
  <2>1. s \in SUBSET S
    OBVIOUS
  <2> QED BY <2>1 DEF Sums
<1>2. {} \in same
  BY <1>1
<1>3. ASSUME NEW s \in SUBSET T, s # {}, \A x \in s : s \ {x} \in same PROVE s \in same
  <2>1. f[s \ {AnyOf(s)}] = g[s \ {AnyOf(s)}]
    BY <1>3, AnyIn
  <2> QED BY <1>1, <1>3, <2>1
<1>4. IsFiniteSet(T)
  BY FS_Subset
<1>5. T \in same
  <2> HIDE DEF same
  <2> QED BY <1>2, <1>3, <1>4, SetInduction
<1> QED BY <1>5

\* The bytes of a set of entries, with one that any of them stands apart.
LEMMA BytesFromAny ==
    ASSUME NEW S, IsFiniteSet(S), NEW book
    PROVE  /\ Prefix!Bytes(book, {}) = 0
           /\ S # {} => Prefix!Bytes(book, S) = book[AnyOf(S)].bytes + Prefix!Bytes(book, S \ {AnyOf(S)})
<1>1. PICK f : Sums(f, book, S) /\ Prefix!Bytes(book, S) = f[S]
  BY BytesSum
<1>2. f[{}] = 0 /\ (S # {} => f[S] = book[AnyOf(S)].bytes + f[S \ {AnyOf(S)}])
  BY <1>1 DEF Sums
<1>3. ASSUME NEW T, T \subseteq S PROVE Prefix!Bytes(book, T) = f[T]
  <2>1. PICK g : Sums(g, book, T) /\ Prefix!Bytes(book, T) = g[T]
    BY <1>3, FS_Subset, BytesSum
  <2> QED BY <1>1, <1>3, <2>1, SumsAgree
<1> QED BY <1>2, <1>3

LEMMA BytesNatural ==
    ASSUME NEW S, IsFiniteSet(S), NEW book, \A p \in S : book[p].bytes \in Nat
    PROVE  \A T \in SUBSET S : Prefix!Bytes(book, T) \in Nat
<1> DEFINE good == {T \in SUBSET S : Prefix!Bytes(book, T) \in Nat}
<1>1. {} \in good
  <2>1. Prefix!Bytes(book, {}) = 0
    BY BytesFromAny
  <2> QED BY <2>1
<1>2. ASSUME NEW T \in SUBSET S, T # {}, \A x \in T : T \ {x} \in good PROVE T \in good
  <2>1. PICK x \in T : x = AnyOf(T)
    BY <1>2, AnyIn
  <2>2. IsFiniteSet(T)
    BY FS_Subset
  <2>3. Prefix!Bytes(book, T) = book[x].bytes + Prefix!Bytes(book, T \ {x})
    BY <1>2, <2>1, <2>2, BytesFromAny
  <2>4. Prefix!Bytes(book, T \ {x}) \in Nat /\ book[x].bytes \in Nat
    BY <1>2
  <2> QED BY <2>3, <2>4
<1> HIDE DEF good
<1>3. SUBSET S \subseteq good
  BY <1>1, <1>2, SetInduction
<1> QED BY <1>3 DEF good

LEMMA BytesWithout ==
    ASSUME NEW S, IsFiniteSet(S), NEW book, \A p \in S : book[p].bytes \in Nat
    PROVE  \A T \in SUBSET S : \A any \in T : Prefix!Bytes(book, T) = book[any].bytes + Prefix!Bytes(book, T \ {any})
<1> DEFINE good == {T \in SUBSET S : \A p \in T : Prefix!Bytes(book, T) = book[p].bytes + Prefix!Bytes(book, T \ {p})}
<1>1. {} \in good
  OBVIOUS
<1>2. ASSUME NEW T \in SUBSET S, T # {}, \A x \in T : T \ {x} \in good PROVE T \in good
  <2>1. PICK x \in T : x = AnyOf(T)
    BY <1>2, AnyIn
  <2>2. IsFiniteSet(T)
    BY FS_Subset
  <2>3. Prefix!Bytes(book, T) = book[x].bytes + Prefix!Bytes(book, T \ {x})
    BY <1>2, <2>1, <2>2, BytesFromAny
  <2>4. ASSUME NEW p \in T, p # x PROVE Prefix!Bytes(book, T) = book[p].bytes + Prefix!Bytes(book, T \ {p})
    <3>1. PICK most : most = T \ {x, p}
      OBVIOUS
    <3>2. (T \ {x}) \ {p} = most /\ (T \ {p}) \ {x} = most /\ p \in T \ {x} /\ x \in T \ {p}
      BY <2>4, <3>1
    <3>3. Prefix!Bytes(book, T \ {x}) = book[p].bytes + Prefix!Bytes(book, most)
      BY <1>2, <3>2
    <3>4. Prefix!Bytes(book, T \ {p}) = book[x].bytes + Prefix!Bytes(book, most)
      BY <1>2, <3>2
    <3>5. Prefix!Bytes(book, most) \in Nat /\ book[x].bytes \in Nat /\ book[p].bytes \in Nat
      BY <3>1, BytesNatural
    <3> QED BY <2>3, <3>3, <3>4, <3>5
  <2> QED BY <2>3, <2>4
<1> HIDE DEF good
<1>3. SUBSET S \subseteq good
  BY <1>1, <1>2, SetInduction
<1> QED BY <1>3 DEF good

\* Only the bytes of the set's entries count.
LEMMA BytesSame ==
    ASSUME NEW S, IsFiniteSet(S), NEW book, NEW others, \A p \in S : others[p].bytes = book[p].bytes
    PROVE  Prefix!Bytes(others, S) = Prefix!Bytes(book, S)
<1> DEFINE good == {T \in SUBSET S : Prefix!Bytes(others, T) = Prefix!Bytes(book, T)}
<1>1. {} \in good
  BY BytesFromAny
<1>2. ASSUME NEW T \in SUBSET S, T # {}, \A x \in T : T \ {x} \in good PROVE T \in good
  <2>1. PICK x \in T : x = AnyOf(T)
    BY <1>2, AnyIn
  <2>2. IsFiniteSet(T)
    BY FS_Subset
  <2>3. /\ Prefix!Bytes(book, T) = book[x].bytes + Prefix!Bytes(book, T \ {x})
        /\ Prefix!Bytes(others, T) = others[x].bytes + Prefix!Bytes(others, T \ {x})
    BY <1>2, <2>1, <2>2, BytesFromAny
  <2>4. Prefix!Bytes(book, T \ {x}) = Prefix!Bytes(others, T \ {x}) /\ others[x].bytes = book[x].bytes
    BY <1>2
  <2> QED BY <2>3, <2>4
<1> HIDE DEF good
<1>3. SUBSET S \subseteq good
  BY <1>1, <1>2, SetInduction
<1> QED BY <1>3 DEF good

\* What several entries leave.
LEMMA BytesLeft ==
    ASSUME NEW S, IsFiniteSet(S), NEW book, \A p \in S : book[p].bytes \in Nat
    PROVE  \A T \in SUBSET S : Prefix!Bytes(book, S \ T) = Prefix!Bytes(book, S) - Prefix!Bytes(book, T)
<1> DEFINE good == {T \in SUBSET S : Prefix!Bytes(book, S \ T) = Prefix!Bytes(book, S) - Prefix!Bytes(book, T)}
<1>0. \A T \in SUBSET S : Prefix!Bytes(book, T) \in Nat
  BY BytesNatural
<1>1. {} \in good
  <2>1. Prefix!Bytes(book, {}) = 0 /\ S \ {} = S
    BY BytesFromAny
  <2> QED BY <1>0, <2>1
<1>2. ASSUME NEW T \in SUBSET S, T # {}, \A x \in T : T \ {x} \in good PROVE T \in good
  <2>1. PICK x \in T : TRUE
    BY <1>2
  <2>2. Prefix!Bytes(book, T) = book[x].bytes + Prefix!Bytes(book, T \ {x})
    BY BytesWithout
  <2>3. Prefix!Bytes(book, S \ (T \ {x})) = book[x].bytes + Prefix!Bytes(book, S \ T)
    <3>1. PICK rest : rest = S \ (T \ {x})
      OBVIOUS
    <3>2. rest \in SUBSET S /\ x \in rest /\ rest \ {x} = S \ T
      BY <3>1
    <3> QED BY <3>1, <3>2, BytesWithout
  <2>4. Prefix!Bytes(book, S \ (T \ {x})) = Prefix!Bytes(book, S) - Prefix!Bytes(book, T \ {x})
    BY <1>2
  <2>5. /\ Prefix!Bytes(book, S) \in Nat /\ Prefix!Bytes(book, T \ {x}) \in Nat
        /\ Prefix!Bytes(book, S \ T) \in Nat /\ book[x].bytes \in Nat
    BY <1>0
  <2> QED BY <2>2, <2>3, <2>4, <2>5
<1> HIDE DEF good
<1>3. SUBSET S \subseteq good
  BY <1>1, <1>2, SetInduction
<1> QED BY <1>3 DEF good

-----------------------------------------------------------------------------
\* The keys of a list that names none twice.
Keys(s) == {s[i] : i \in 1 .. Len(s)}
Distinct(s) == \A i, j \in 1 .. Len(s) : s[i] = s[j] => i = j

LEMMA SameRemove == \A s, p : Prefix!RemoveFirst(s, p) = RemoveFirst(s, p)
BY DEF RemoveFirst, Prefix!RemoveFirst, RemoveAt, Prefix!RemoveAt, SelectInSeq, Prefix!SelectInSeq, Min, Prefix!Min

LEMMA KeysCounted ==
    ASSUME NEW A, NEW s \in Seq(A), Distinct(s)
    PROVE  IsFiniteSet(Keys(s)) /\ Cardinality(Keys(s)) = Len(s)
<1>1. Len(s) \in Nat /\ s \in [1 .. Len(s) -> Keys(s)]
  BY LenProperties DEF Keys
<1>2. s \in Bijection(1 .. Len(s), Keys(s))
  <2>1. \A a, b \in 1 .. Len(s) : s[a] = s[b] => a = b
    BY DEF Distinct
  <2>2. \A t \in Keys(s) : \E i \in 1 .. Len(s) : s[i] = t
    BY DEF Keys
  <2> QED BY <1>1, <2>1, <2>2 DEF Bijection, Injection, Surjection, IsInjective
<1>3. IsFiniteSet(1 .. Len(s)) /\ Cardinality(1 .. Len(s)) = Len(s)
  BY <1>1, FS_Interval
<1>4. ExistsBijection(1 .. Len(s), Keys(s))
  BY <1>2 DEF ExistsBijection
<1> QED BY <1>3, <1>4, FS_Bijection

LEMMA KeyAppended ==
    ASSUME NEW A, NEW s \in Seq(A), Distinct(s), NEW x \in A, x \notin Keys(s)
    PROVE  /\ Append(s, x) \in Seq(A) /\ Distinct(Append(s, x))
           /\ Len(Append(s, x)) = Len(s) + 1 /\ Keys(Append(s, x)) = Keys(s) \cup {x}
<1>1. PICK t : t = Append(s, x)
  OBVIOUS
<1>2. /\ t \in Seq(A) /\ Len(s) \in Nat /\ Len(t) = Len(s) + 1
      /\ \A i \in 1 .. Len(s) : t[i] = s[i]
      /\ t[Len(s) + 1] = x
  BY <1>1, AppendProperties, LenProperties
<1>3. \A i \in 1 .. Len(s) : s[i] # x
  BY DEF Keys
<1>4. Distinct(t)
  <2>1. SUFFICES ASSUME NEW i \in 1 .. Len(t), NEW j \in 1 .. Len(t), t[i] = t[j] PROVE i = j
    BY DEF Distinct
  <2>2. (i \in 1 .. Len(s) \/ i = Len(s) + 1) /\ (j \in 1 .. Len(s) \/ j = Len(s) + 1)
    BY <1>2
  <2>3. CASE i \in 1 .. Len(s) /\ j \in 1 .. Len(s)
    BY <1>2, <2>1, <2>3 DEF Distinct
  <2>4. CASE i = Len(s) + 1 \/ j = Len(s) + 1
    BY <1>2, <1>3, <2>1, <2>2, <2>4
  <2> QED BY <2>2, <2>3, <2>4
<1>5. Keys(t) = Keys(s) \cup {x}
  <2>1. (1 .. Len(t)) = (1 .. Len(s)) \cup {Len(s) + 1}
    BY <1>2
  <2> QED BY <1>2, <2>1 DEF Keys
<1> QED BY <1>1, <1>2, <1>4, <1>5

\* Without its first k keys.
Firsts(s, k) == {s[i] : i \in 1 .. k}
LEMMA KeysDropped ==
    ASSUME NEW A, NEW s \in Seq(A), Distinct(s), NEW k \in 0 .. Len(s), NEW t, t = SubSeq(s, k + 1, Len(s))
    PROVE  /\ t \in Seq(A) /\ Distinct(t)
           /\ Len(t) = Len(s) - k /\ Keys(t) = Keys(s) \ Firsts(s, k)
<1>1. Len(s) \in Nat /\ k \in Nat /\ k <= Len(s) /\ \A i \in 1 .. Len(s) : s[i] \in A
  BY LenProperties, ElementOfSeq
<1>2. /\ t \in Seq(A) /\ Len(t) = (IF k + 1 <= Len(s) THEN Len(s) - (k + 1) + 1 ELSE 0)
      /\ \A i \in 1 .. Len(s) - (k + 1) + 1 : t[i] = s[k + 1 + i - 1]
  <2>1. \A i \in k + 1 .. Len(s) : s[i] \in A
    BY <1>1
  <2> QED BY <1>1, <2>1, SubSeqProperties
<1>3. Len(t) = Len(s) - k
  BY <1>1, <1>2
<1>4. \A i \in 1 .. Len(t) : t[i] = s[k + i] /\ k + i \in 1 .. Len(s) /\ k + i \notin 1 .. k
  <2> TAKE i \in 1 .. Len(t)
  <2>1. i \in 1 .. Len(s) - (k + 1) + 1 /\ k + 1 + i - 1 = k + i /\ k + i \in 1 .. Len(s) /\ k + i \notin 1 .. k
    BY <1>1, <1>3
  <2> QED BY <1>2, <2>1
<1>5. Distinct(t)
  <2>1. SUFFICES ASSUME NEW i \in 1 .. Len(t), NEW j \in 1 .. Len(t), t[i] = t[j] PROVE i = j
    BY DEF Distinct
  <2>2. s[k + i] = s[k + j] /\ k + i \in 1 .. Len(s) /\ k + j \in 1 .. Len(s)
    BY <1>4, <2>1
  <2>3. k + i = k + j
    BY <2>2 DEF Distinct
  <2> QED BY <1>1, <1>3, <2>3
<1>6. Keys(t) \subseteq Keys(s) \ {s[i] : i \in 1 .. k}
  <2>1. ASSUME NEW i \in 1 .. Len(t), NEW j \in 1 .. k PROVE s[k + i] # s[j]
    <3>1. j \in 1 .. Len(s) /\ k + i \in 1 .. Len(s) /\ k + i # j
      BY <1>1, <1>4
    <3> QED BY <3>1 DEF Distinct
  <2>2. \A i \in 1 .. Len(t) : t[i] \in Keys(s) /\ t[i] \notin {s[j] : j \in 1 .. k}
    BY <1>4, <2>1 DEF Keys
  <2> QED BY <2>2 DEF Keys
<1>7. Keys(s) \ {s[i] : i \in 1 .. k} \subseteq Keys(t)
  <2>1. ASSUME NEW i \in 1 .. Len(s), i \notin 1 .. k PROVE s[i] \in Keys(t)
    <3>1. i - k \in 1 .. Len(t) /\ k + (i - k) = i
      BY <1>1, <1>3, <2>1
    <3>2. t[i - k] = s[i]
      BY <1>4, <3>1
    <3> QED BY <3>1, <3>2 DEF Keys
  <2> QED BY <2>1 DEF Keys
<1> QED BY <1>2, <1>3, <1>5, <1>6, <1>7 DEF Firsts

LEMMA KeyRemoved ==
    ASSUME NEW A, NEW s \in Seq(A), Distinct(s), NEW x \in Keys(s), NEW t, t = RemoveFirst(s, x)
    PROVE  /\ t \in Seq(A) /\ Distinct(t)
           /\ Len(t) = Len(s) - 1 /\ Keys(t) = Keys(s) \ {x}
<1>1. Len(s) \in Nat /\ \A i \in 1 .. Len(s) : s[i] \in A
  BY LenProperties, ElementOfSeq
<1>2. PICK n \in 1 .. Len(s) : s[n] = x
  BY DEF Keys
<1>3. {i \in 1 .. Len(s) : s[i] = x} = {n}
  BY <1>2 DEF Distinct
<1>4. SelectInSeq(s, LAMBDA v : v = x) = n
  <2>1. PICK one : one = {n}
    OBVIOUS
  <2>2. one \subseteq Nat /\ one # {}
    BY <1>1, <2>1
  <2>3. Min(one) = n
    BY <2>1, <2>2, MinOfSet
  <2> QED BY <1>3, <2>1, <2>3 DEF SelectInSeq
<1>5. t = SubSeq(s, 1, n - 1) \o SubSeq(s, n + 1, Len(s))
  BY <1>2, <1>4 DEF RemoveFirst, RemoveAt
<1>6. PICK before, after : before = SubSeq(s, 1, n - 1) /\ after = SubSeq(s, n + 1, Len(s))
  OBVIOUS
<1>7. before \in Seq(A) /\ Len(before) = n - 1 /\ \A i \in 1 .. n - 1 : before[i] = s[i]
  <2>1. n - 1 \in Int /\ (\A i \in 1 .. n - 1 : s[i] \in A) /\ 1 \in Int
    BY <1>1
  <2>2. /\ before \in Seq(A) /\ Len(before) = (IF 1 <= n - 1 THEN (n - 1) - 1 + 1 ELSE 0)
        /\ \A i \in 1 .. (n - 1) - 1 + 1 : before[i] = s[1 + i - 1]
    BY <1>6, <2>1, SubSeqProperties
  <2>3. \A i \in 1 .. n - 1 : i \in 1 .. (n - 1) - 1 + 1 /\ 1 + i - 1 = i
    BY <1>1
  <2>4. \A i \in 1 .. n - 1 : before[i] = s[i]
    BY <2>2, <2>3
  <2>5. Len(before) = n - 1
    BY <1>1, <2>2
  <2> QED BY <2>2, <2>4, <2>5
<1>8. after \in Seq(A) /\ Len(after) = Len(s) - n /\ \A i \in 1 .. Len(s) - n : after[i] = s[n + i]
  <2>1. n + 1 \in Int /\ (\A i \in n + 1 .. Len(s) : s[i] \in A) /\ Len(s) \in Int
    BY <1>1
  <2>2. /\ after \in Seq(A) /\ Len(after) = (IF n + 1 <= Len(s) THEN Len(s) - (n + 1) + 1 ELSE 0)
        /\ \A i \in 1 .. Len(s) - (n + 1) + 1 : after[i] = s[(n + 1) + i - 1]
    BY <1>6, <2>1, SubSeqProperties
  <2>3. \A i \in 1 .. Len(s) - n : i \in 1 .. Len(s) - (n + 1) + 1 /\ (n + 1) + i - 1 = n + i
    BY <1>1
  <2>4. \A i \in 1 .. Len(s) - n : after[i] = s[n + i]
    BY <2>2, <2>3
  <2>5. Len(after) = Len(s) - n
    BY <1>1, <2>2
  <2> QED BY <2>2, <2>4, <2>5
<1>9. /\ t \in Seq(A) /\ Len(t) = Len(s) - 1
      /\ \A i \in 1 .. Len(t) : t[i] = IF i < n THEN s[i] ELSE s[i + 1]
  <2>1. /\ t \in Seq(A) /\ Len(t) = Len(before) + Len(after)
        /\ \A i \in 1 .. Len(before) + Len(after) : t[i] = IF i <= Len(before) THEN before[i] ELSE after[i - Len(before)]
    <3>1. t = before \o after /\ before \in Seq(A) /\ after \in Seq(A)
      BY <1>5, <1>6, <1>7, <1>8
    <3>2. /\ before \o after \in Seq(A) /\ Len(before \o after) = Len(before) + Len(after)
          /\ \A i \in 1 .. Len(before) + Len(after) : (before \o after)[i] = IF i <= Len(before) THEN before[i] ELSE after[i - Len(before)]
      BY <3>1, ConcatProperties
    <3> QED BY <3>1, <3>2
  <2>2. Len(t) = Len(s) - 1
    BY <1>1, <1>7, <1>8, <2>1
  <2>3. ASSUME NEW i \in 1 .. Len(t) PROVE t[i] = IF i < n THEN s[i] ELSE s[i + 1]
    <3>1. t[i] = IF i <= n - 1 THEN before[i] ELSE after[i - (n - 1)]
      BY <1>7, <2>1, <2>3
    <3>2. CASE i < n
      <4>1. i <= n - 1 /\ i \in 1 .. n - 1
        BY <1>1, <2>2, <3>2
      <4> QED BY <1>7, <3>1, <3>2, <4>1
    <3>3. CASE ~(i < n)
      <4>1. ~(i <= n - 1) /\ i - (n - 1) \in 1 .. Len(s) - n /\ n + (i - (n - 1)) = i + 1
        BY <1>1, <2>2, <3>3
      <4> QED BY <1>8, <3>1, <3>3, <4>1
    <3> QED BY <3>2, <3>3
  <2> QED BY <2>1, <2>2, <2>3
<1>10. \A i \in 1 .. Len(t) : \E j \in 1 .. Len(s) : j # n /\ t[i] = s[j] /\ j = IF i < n THEN i ELSE i + 1
  <2> TAKE i \in 1 .. Len(t)
  <2>1. CASE i < n
    BY <1>1, <1>9, <2>1
  <2>2. CASE ~(i < n)
    <3>1. i + 1 \in 1 .. Len(s) /\ i + 1 # n
      BY <1>1, <1>9, <2>2
    <3> QED BY <1>9, <2>2, <3>1
  <2> QED BY <2>1, <2>2
<1>11. Distinct(t)
  <2>1. SUFFICES ASSUME NEW a \in 1 .. Len(t), NEW b \in 1 .. Len(t), t[a] = t[b] PROVE a = b
    BY DEF Distinct
  <2>2. PICK i \in 1 .. Len(s) : t[a] = s[i] /\ i = IF a < n THEN a ELSE a + 1
    BY <1>10
  <2>3. PICK j \in 1 .. Len(s) : t[b] = s[j] /\ j = IF b < n THEN b ELSE b + 1
    BY <1>10
  <2>4. i = j
    BY <2>1, <2>2, <2>3 DEF Distinct
  <2> QED BY <1>1, <1>9, <2>2, <2>3, <2>4
<1>12. Keys(t) \subseteq Keys(s) \ {x}
  <2>1. \A i \in 1 .. Len(t) : t[i] \in Keys(s) /\ t[i] # x
    BY <1>2, <1>10 DEF Distinct, Keys
  <2> QED BY <2>1 DEF Keys
<1>13. Keys(s) \ {x} \subseteq Keys(t)
  <2>1. ASSUME NEW j \in 1 .. Len(s), j # n PROVE \E i \in 1 .. Len(t) : t[i] = s[j]
    <3>1. CASE j < n
      <4>1. j \in 1 .. Len(t)
        BY <1>1, <1>9, <3>1
      <4> QED BY <1>9, <3>1, <4>1
    <3>2. CASE ~(j < n)
      <4>1. j - 1 \in 1 .. Len(t) /\ ~(j - 1 < n) /\ (j - 1) + 1 = j
        BY <1>1, <1>9, <2>1, <3>2
      <4> QED BY <1>9, <4>1
    <3> QED BY <3>1, <3>2
  <2> QED BY <1>2, <2>1 DEF Keys
<1> QED BY <1>9, <1>11, <1>12, <1>13

-----------------------------------------------------------------------------
\* The account of the retained entries.
Account(entries, order, bytes, most) ==
    /\ order \in Seq(StaticPrefixes) /\ Distinct(order) /\ Keys(order) = DOMAIN entries
    /\ \A p \in DOMAIN entries : entries[p].bytes \in Nat
    /\ bytes = Prefix!Bytes(entries, DOMAIN entries)
    /\ most \in Nat /\ bytes <= most /\ Len(order) <= MaxEntries

LEMMA AccountTypes ==
    ASSUME NEW entries, NEW order, NEW bytes, NEW most, Account(entries, order, bytes, most)
    PROVE  /\ IsFiniteSet(DOMAIN entries) /\ Cardinality(DOMAIN entries) = Len(order) /\ DOMAIN entries \subseteq StaticPrefixes
           /\ bytes \in Nat /\ Len(order) \in Nat /\ MaxEntries \in Nat \ {0}
<1>1. order \in Seq(StaticPrefixes) /\ Distinct(order) /\ Keys(order) = DOMAIN entries
  BY DEF Account
<1>2. IsFiniteSet(Keys(order)) /\ Cardinality(Keys(order)) = Len(order)
  BY <1>1, KeysCounted
<1>3. Keys(order) \subseteq StaticPrefixes
  BY <1>1, ElementOfSeq DEF Keys
<1>4. bytes \in Nat
  <2>1. Prefix!Bytes(entries, DOMAIN entries) \in Nat
    BY <1>1, <1>2, BytesNatural DEF Account
  <2> QED BY <2>1 DEF Account
<1>5. Len(order) \in Nat
  BY <1>1, LenProperties
<1> QED BY <1>1, <1>2, <1>3, <1>4, <1>5, PrefixAssumption

LEMMA AccountTouched ==
    ASSUME NEW entries, NEW order, NEW bytes, NEW most, Account(entries, order, bytes, most), NEW p \in DOMAIN entries
    PROVE  Account(entries, Append(Prefix!RemoveFirst(order, p), p), bytes, most)
<1>1. order \in Seq(StaticPrefixes) /\ Distinct(order) /\ Keys(order) = DOMAIN entries
  BY DEF Account
<1>2. PICK rest : rest = RemoveFirst(order, p)
  OBVIOUS
<1>3. rest \in Seq(StaticPrefixes) /\ Distinct(rest) /\ Len(rest) = Len(order) - 1 /\ Keys(rest) = DOMAIN entries \ {p}
  BY <1>1, <1>2, KeyRemoved
<1>4. p \in StaticPrefixes /\ Len(order) \in Nat
  BY AccountTypes
<1>5. p \notin Keys(rest)
  BY <1>3
<1>6. PICK list : list = Append(rest, p)
  OBVIOUS
<1>7. list \in Seq(StaticPrefixes) /\ Distinct(list) /\ Len(list) = Len(rest) + 1 /\ Keys(list) = Keys(rest) \cup {p}
  BY <1>3, <1>4, <1>5, <1>6, KeyAppended
<1>8. Len(list) = Len(order) /\ Keys(list) = DOMAIN entries
  <2>1. Len(list) = Len(order)
    BY <1>3, <1>4, <1>7
  <2>2. (DOMAIN entries \ {p}) \cup {p} = DOMAIN entries
    OBVIOUS
  <2> QED BY <1>3, <1>7, <2>1, <2>2
<1>9. Account(entries, list, bytes, most)
  <2>1. /\ \A q \in DOMAIN entries : entries[q].bytes \in Nat
        /\ bytes = Prefix!Bytes(entries, DOMAIN entries)
        /\ most \in Nat /\ bytes <= most /\ Len(list) <= MaxEntries
    BY <1>8 DEF Account
  <2>2. list \in Seq(StaticPrefixes) /\ Distinct(list) /\ Keys(list) = DOMAIN entries
    BY <1>7, <1>8
  <2> QED BY <2>1, <2>2 DEF Account
<1> QED BY <1>2, <1>6, <1>9, SameRemove

\* A part of the entries has its own bytes.
LEMMA AccountPart ==
    ASSUME NEW entries, NEW order, NEW bytes, NEW most, Account(entries, order, bytes, most),
           NEW part, part \subseteq DOMAIN entries, NEW list \in Seq(StaticPrefixes), Distinct(list), Keys(list) = part,
           Len(list) <= Len(order)
    PROVE  Account(Prefix!Restrict(entries, part), list, bytes - Prefix!Bytes(entries, DOMAIN entries \ part), most)
<1>1. PICK left : left = Prefix!Restrict(entries, part)
  OBVIOUS
<1>2. DOMAIN left = part /\ \A p \in part : left[p] = entries[p]
  BY <1>1 DEF Prefix!Restrict
<1>3. /\ IsFiniteSet(DOMAIN entries) /\ bytes \in Nat /\ Len(order) \in Nat /\ MaxEntries \in Nat
      /\ bytes = Prefix!Bytes(entries, DOMAIN entries) /\ most \in Nat /\ bytes <= most /\ Len(order) <= MaxEntries
      /\ \A p \in DOMAIN entries : entries[p].bytes \in Nat
  BY AccountTypes DEF Account
<1>4. PICK gone : gone = DOMAIN entries \ part
  OBVIOUS
<1>5. gone \in SUBSET DOMAIN entries /\ DOMAIN entries \ gone = part
  BY <1>4
<1>6. Prefix!Bytes(entries, part) = bytes - Prefix!Bytes(entries, gone)
  BY <1>3, <1>5, BytesLeft
<1>7. Prefix!Bytes(entries, gone) \in Nat
  BY <1>3, <1>5, BytesNatural
<1>8. Prefix!Bytes(left, part) = Prefix!Bytes(entries, part)
  <2>1. IsFiniteSet(part)
    BY <1>3, FS_Subset
  <2>2. \A p \in part : left[p].bytes = entries[p].bytes
    BY <1>2
  <2> QED BY <2>1, <2>2, BytesSame
<1>9. Len(list) \in Nat
  BY LenProperties
<1>10. bytes - Prefix!Bytes(entries, gone) <= most /\ Len(list) <= MaxEntries
  BY <1>3, <1>7, <1>9
<1>11. \A p \in DOMAIN left : left[p].bytes \in Nat
  BY <1>2, <1>3
<1>12. Account(left, list, bytes - Prefix!Bytes(entries, gone), most)
  BY <1>2, <1>3, <1>6, <1>8, <1>10, <1>11 DEF Account
<1> QED BY <1>1, <1>4, <1>12

LEMMA AccountWithout ==
    ASSUME NEW entries, NEW order, NEW bytes, NEW most, Account(entries, order, bytes, most), NEW p \in DOMAIN entries
    PROVE  Account(Prefix!Restrict(entries, DOMAIN entries \ {p}), Prefix!RemoveFirst(order, p), bytes - entries[p].bytes, most)
<1>1. /\ order \in Seq(StaticPrefixes) /\ Distinct(order) /\ Keys(order) = DOMAIN entries
      /\ Len(order) \in Nat /\ entries[p].bytes \in Nat
  BY AccountTypes DEF Account
<1>2. PICK rest : rest = RemoveFirst(order, p)
  OBVIOUS
<1>3. rest \in Seq(StaticPrefixes) /\ Distinct(rest) /\ Len(rest) = Len(order) - 1 /\ Keys(rest) = DOMAIN entries \ {p}
  BY <1>1, <1>2, KeyRemoved
<1>4. PICK part : part = DOMAIN entries \ {p}
  OBVIOUS
<1>5. part \subseteq DOMAIN entries /\ DOMAIN entries \ part = {p}
  BY <1>4
<1>6. Len(rest) <= Len(order)
  BY <1>1, <1>3
<1>7. Account(Prefix!Restrict(entries, part), rest, bytes - Prefix!Bytes(entries, DOMAIN entries \ part), most)
  BY <1>3, <1>4, <1>5, <1>6, AccountPart
<1>8. Prefix!Bytes(entries, {p}) = entries[p].bytes
  <2>1. IsFiniteSet({p}) /\ \A q \in {p} : entries[q].bytes \in Nat
    BY <1>1, FS_Singleton
  <2>2. Prefix!Bytes(entries, {p}) = entries[p].bytes + Prefix!Bytes(entries, {p} \ {p})
    BY <2>1, BytesWithout
  <2>3. {p} \ {p} = {} /\ Prefix!Bytes(entries, {}) = 0
    BY <2>1, BytesFromAny
  <2>4. Prefix!Bytes(entries, {p}) = entries[p].bytes + 0
    BY <2>2, <2>3
  <2> QED BY <1>1, <2>4
<1> QED BY <1>2, <1>4, <1>5, <1>7, <1>8, SameRemove

\* One key apart from the rest.
LEMMA BytesApart ==
    ASSUME NEW S, IsFiniteSet(S), NEW book, \A p \in S : book[p].bytes \in Nat, NEW q \in S
    PROVE  Prefix!Bytes(book, S) = book[q].bytes + Prefix!Bytes(book, S \ {q})
BY BytesWithout

\* A new entry for which there is room.
LEMMA AccountAdded ==
    ASSUME NEW entries, NEW order, NEW bytes, NEW most, Account(entries, order, bytes, most),
           NEW p \in StaticPrefixes, p \notin DOMAIN entries, NEW entry, entry.bytes \in Nat,
           Len(order) < MaxEntries, bytes + entry.bytes <= most, NEW stored,
           DOMAIN stored = DOMAIN entries \cup {p}, stored[p] = entry, \A q \in DOMAIN entries : stored[q] = entries[q]
    PROVE  Account(stored, Append(order, p), bytes + entry.bytes, most)
<1>1. /\ order \in Seq(StaticPrefixes) /\ Distinct(order) /\ Keys(order) = DOMAIN entries /\ most \in Nat
      /\ bytes = Prefix!Bytes(entries, DOMAIN entries) /\ \A q \in DOMAIN entries : entries[q].bytes \in Nat
      /\ Len(order) \in Nat /\ bytes \in Nat /\ MaxEntries \in Nat /\ IsFiniteSet(DOMAIN entries)
  BY AccountTypes DEF Account
<1>2. PICK list : list = Append(order, p)
  OBVIOUS
<1>3. list \in Seq(StaticPrefixes) /\ Distinct(list) /\ Len(list) = Len(order) + 1 /\ Keys(list) = Keys(order) \cup {p}
  BY <1>1, <1>2, KeyAppended
<1>4. PICK all : all = DOMAIN entries \cup {p}
  OBVIOUS
<1>5. DOMAIN stored = all /\ stored[p] = entry /\ \A q \in DOMAIN entries : stored[q] = entries[q]
  BY <1>4
<1>6. IsFiniteSet(all) /\ p \in all /\ all \ {p} = DOMAIN entries
  BY <1>1, <1>4, FS_AddElement
<1>7. \A q \in all : stored[q].bytes \in Nat
  BY <1>1, <1>4, <1>5
<1>8. Prefix!Bytes(stored, all) = stored[p].bytes + Prefix!Bytes(stored, all \ {p})
  BY <1>6, <1>7, BytesApart
<1>9. Prefix!Bytes(stored, DOMAIN entries) = bytes
  <2>1. \A q \in DOMAIN entries : stored[q].bytes = entries[q].bytes
    BY <1>5
  <2> QED BY <1>1, <2>1, BytesSame
<1>10. Prefix!Bytes(stored, all) = bytes + entry.bytes
  <2>1. Prefix!Bytes(stored, all) = entry.bytes + bytes
    BY <1>5, <1>6, <1>8, <1>9
  <2> QED BY <1>1, <2>1
<1>11. Len(list) <= MaxEntries
  BY <1>1, <1>3
<1>12. Account(stored, list, bytes + entry.bytes, most)
  BY <1>1, <1>3, <1>4, <1>5, <1>7, <1>10, <1>11 DEF Account
<1> QED BY <1>2, <1>12


\* Without its oldest keys, as many as a new entry asks for.
LEMMA AccountOldest ==
    ASSUME NEW entries, NEW order, NEW bytes, NEW most, Account(entries, order, bytes, most),
           NEW size \in Nat, size <= most, NEW k \in 0 .. Len(order), NEW gone, gone = Firsts(order, k),
           k = Len(order) \/ (Len(order) - k < MaxEntries /\ bytes - Prefix!Bytes(entries, gone) + size <= most)
    PROVE  /\ Account(Prefix!Restrict(entries, DOMAIN entries \ gone), SubSeq(order, k + 1, Len(order)),
                      bytes - Prefix!Bytes(entries, gone), most)
           /\ Len(SubSeq(order, k + 1, Len(order))) < MaxEntries
           /\ bytes - Prefix!Bytes(entries, gone) + size <= most
<1>1. /\ order \in Seq(StaticPrefixes) /\ Distinct(order) /\ Keys(order) = DOMAIN entries /\ most \in Nat
      /\ bytes = Prefix!Bytes(entries, DOMAIN entries) /\ \A q \in DOMAIN entries : entries[q].bytes \in Nat
      /\ Len(order) \in Nat /\ bytes \in Nat /\ MaxEntries \in Nat \ {0} /\ IsFiniteSet(DOMAIN entries)
  BY AccountTypes DEF Account
<1>2. PICK list : list = SubSeq(order, k + 1, Len(order))
  OBVIOUS
<1>3. list \in Seq(StaticPrefixes) /\ Distinct(list) /\ Len(list) = Len(order) - k /\ Keys(list) = Keys(order) \ gone
  BY <1>1, <1>2, KeysDropped
<1>4. gone \subseteq DOMAIN entries
  <2>1. \A i \in 1 .. k : i \in 1 .. Len(order)
    BY <1>1
  <2> QED BY <1>1, <2>1 DEF Keys, Firsts
<1>5. PICK part : part = DOMAIN entries \ gone
  OBVIOUS
<1>6. part \subseteq DOMAIN entries /\ DOMAIN entries \ part = gone /\ Keys(list) = part
  BY <1>1, <1>3, <1>4, <1>5
<1>7. k \in Nat /\ Len(list) \in Nat /\ Len(list) <= Len(order)
  BY <1>1, <1>3
<1>8. Account(Prefix!Restrict(entries, part), list, bytes - Prefix!Bytes(entries, gone), most)
  BY <1>3, <1>6, <1>7, AccountPart
<1>9. Len(list) < MaxEntries /\ bytes - Prefix!Bytes(entries, gone) + size <= most
  <2>1. CASE k # Len(order)
    BY <1>1, <1>3, <1>7, <2>1
  <2>2. CASE k = Len(order)
    <3>1. gone = DOMAIN entries
      BY <1>1, <2>2 DEF Keys, Firsts
    <3>2. Prefix!Bytes(entries, gone) = bytes
      BY <1>1, <3>1
    <3>3. PICK freed : freed = Prefix!Bytes(entries, gone)
      OBVIOUS
    <3>4. bytes - freed + size <= most
      BY <1>1, <3>2, <3>3
    <3> QED BY <1>1, <1>3, <2>2, <3>3, <3>4
  <2> QED BY <2>1, <2>2
<1> QED BY <1>2, <1>5, <1>8, <1>9

LEMMA SameMin == \A T : Prefix!Min(T) = Min(T)
BY DEF Min, Prefix!Min

LEMMA AccountRoom ==
    ASSUME NEW cache, DOMAIN cache = CacheFields, Account(cache.entries, cache.order, cache.bytes, cache.maxBytes),
           NEW size \in Nat, size <= cache.maxBytes, NEW room, room = Prefix!MakeRoom(cache, size)
    PROVE  /\ DOMAIN room = CacheFields /\ room.maxBytes = cache.maxBytes
           /\ DOMAIN room.entries \subseteq DOMAIN cache.entries
           /\ Account(room.entries, room.order, room.bytes, room.maxBytes)
           /\ Len(room.order) < MaxEntries /\ room.bytes + size <= room.maxBytes
<1> DEFINE oldest(n) == {cache.order[i] : i \in 1 .. n}
           enough == {n \in 0 .. Len(cache.order) :
                        \/ n = Len(cache.order)
                        \/ /\ Len(cache.order) - n < MaxEntries
                           /\ cache.bytes - Prefix!Bytes(cache.entries, oldest(n)) + size <= cache.maxBytes}
           k == Prefix!Min(enough)
           gone == oldest(k)
<1>1. k \in enough
  <2>1. Len(cache.order) \in Nat
    BY AccountTypes
  <2>2. enough \subseteq Nat /\ Len(cache.order) \in enough
    BY <2>1
  <2> HIDE DEF enough
  <2> QED BY <2>2, MinOfSet, SameMin
<1>2. room = [cache EXCEPT !.bytes = @ - Prefix!Bytes(cache.entries, gone),
                           !.order = SubSeq(@, k + 1, Len(@)),
                           !.entries = Prefix!Restrict(@, DOMAIN @ \ gone)]
  BY DEF Prefix!MakeRoom
<1>3. /\ k \in 0 .. Len(cache.order)
      /\ k = Len(cache.order) \/ (Len(cache.order) - k < MaxEntries /\ cache.bytes - Prefix!Bytes(cache.entries, gone) + size <= cache.maxBytes)
  <2> HIDE DEF k
  <2> QED BY <1>1
<1>4. gone = Firsts(cache.order, k)
  BY DEF Firsts
<1> HIDE DEF k, gone
<1>5. /\ Account(Prefix!Restrict(cache.entries, DOMAIN cache.entries \ gone), SubSeq(cache.order, k + 1, Len(cache.order)),
                 cache.bytes - Prefix!Bytes(cache.entries, gone), cache.maxBytes)
      /\ Len(SubSeq(cache.order, k + 1, Len(cache.order))) < MaxEntries
      /\ cache.bytes - Prefix!Bytes(cache.entries, gone) + size <= cache.maxBytes
  BY <1>3, <1>4, AccountOldest
<1>6. /\ DOMAIN room = CacheFields /\ room.maxBytes = cache.maxBytes
      /\ room.bytes = cache.bytes - Prefix!Bytes(cache.entries, gone)
      /\ room.order = SubSeq(cache.order, k + 1, Len(cache.order))
      /\ room.entries = Prefix!Restrict(cache.entries, DOMAIN cache.entries \ gone)
  BY <1>2 DEF CacheFields
<1>7. DOMAIN room.entries \subseteq DOMAIN cache.entries
  BY <1>6 DEF Prefix!Restrict
<1> QED BY <1>5, <1>6, <1>7

\* The account of a cache.
Exact(cache) ==
    /\ DOMAIN cache = CacheFields
    /\ Account(cache.entries, cache.order, cache.bytes, cache.maxBytes)

LEMMA TouchExact ==
    ASSUME NEW cache, Exact(cache), NEW p \in DOMAIN cache.entries, NEW touched, touched = Prefix!Touch(cache, p)
    PROVE  Exact(touched) /\ touched.enabled = cache.enabled /\ touched.entries = cache.entries
<1>1. Account(cache.entries, Append(Prefix!RemoveFirst(cache.order, p), p), cache.bytes, cache.maxBytes)
  BY AccountTouched DEF Exact
<1>2. /\ DOMAIN touched = CacheFields /\ touched.entries = cache.entries /\ touched.enabled = cache.enabled
      /\ touched.bytes = cache.bytes /\ touched.maxBytes = cache.maxBytes
      /\ touched.order = Append(Prefix!RemoveFirst(cache.order, p), p)
  BY DEF Prefix!Touch, CacheFields, Exact
<1> QED BY <1>1, <1>2 DEF Exact

LEMMA WithoutExact ==
    ASSUME NEW cache, Exact(cache), NEW p, NEW rest, rest = Prefix!Without(cache, p)
    PROVE  Exact(rest) /\ rest.maxBytes = cache.maxBytes /\ rest.enabled = cache.enabled /\ p \notin DOMAIN rest.entries
<1>1. CASE p \notin DOMAIN cache.entries
  BY <1>1 DEF Prefix!Without, Exact
<1>2. CASE p \in DOMAIN cache.entries
  <2>1. Account(Prefix!Restrict(cache.entries, DOMAIN cache.entries \ {p}), Prefix!RemoveFirst(cache.order, p),
                cache.bytes - cache.entries[p].bytes, cache.maxBytes)
    BY <1>2, AccountWithout DEF Exact
  <2>2. /\ DOMAIN rest = CacheFields /\ rest.maxBytes = cache.maxBytes /\ rest.enabled = cache.enabled
        /\ rest.entries = Prefix!Restrict(cache.entries, DOMAIN cache.entries \ {p})
        /\ rest.bytes = cache.bytes - cache.entries[p].bytes
        /\ rest.order = Prefix!RemoveFirst(cache.order, p)
    BY <1>2 DEF Prefix!Without, CacheFields, Exact
  <2>3. p \notin DOMAIN rest.entries
    BY <2>2 DEF Prefix!Restrict
  <2> QED BY <2>1, <2>2, <2>3 DEF Exact
<1> QED BY <1>1, <1>2

\* The replaced entry and the oldest ones are off the account before the new one is on it.
LEMMA RoomExact ==
    ASSUME NEW cache, Exact(cache), NEW p, NEW size \in Nat, size <= cache.maxBytes,
           NEW room, room = Prefix!MakeRoom(Prefix!Without(cache, p), size)
    PROVE  /\ Exact(room) /\ p \notin DOMAIN room.entries
           /\ Len(room.order) < MaxEntries /\ room.bytes + size <= room.maxBytes
<1>1. PICK rest : rest = Prefix!Without(cache, p)
  OBVIOUS
<1>2. Exact(rest) /\ rest.maxBytes = cache.maxBytes /\ p \notin DOMAIN rest.entries
  BY <1>1, WithoutExact
<1>3. /\ DOMAIN room = CacheFields /\ room.maxBytes = rest.maxBytes
      /\ DOMAIN room.entries \subseteq DOMAIN rest.entries
      /\ Account(room.entries, room.order, room.bytes, room.maxBytes)
      /\ Len(room.order) < MaxEntries /\ room.bytes + size <= room.maxBytes
  BY <1>1, <1>2, AccountRoom DEF Exact
<1> QED BY <1>2, <1>3 DEF Exact

-----------------------------------------------------------------------------
\* What the account's exactness rests on: a disabled cache is empty, and lengths and
\* formats are those of real prefixes and rows.
PrefixAccount ==
    /\ Exact(prefixCache)
    /\ prefixCache.enabled \/ DOMAIN prefixCache.entries = {}
    /\ workspace.format \in Nat
    /\ \A r \in Requests : request[r].pc # "idle" => request[r].prefix \in StaticPrefixes

LEMMA EmptyExact ==
    ASSUME NEW cache, DOMAIN cache = CacheFields, cache.entries = Prefix!Empty, cache.order = <<>>, cache.bytes = 0, cache.maxBytes \in Nat
    PROVE  Exact(cache)
<1>1. /\ cache.order \in Seq(StaticPrefixes) /\ Len(cache.order) = 0 /\ DOMAIN cache.entries = {}
  BY EmptySeq DEF Prefix!Empty
<1>2. Distinct(cache.order) /\ Keys(cache.order) = {}
  BY <1>1 DEF Distinct, Keys
<1>3. Prefix!Bytes(cache.entries, {}) = 0
  BY FS_EmptySet, BytesFromAny
<1>4. 0 <= cache.maxBytes /\ 0 <= MaxEntries
  BY PrefixAssumption
<1> QED BY <1>1, <1>2, <1>3, <1>4 DEF Exact, Account

LEMMA AccountInit == Prefix!Init => PrefixAccount
<1> SUFFICES ASSUME Prefix!Init PROVE PrefixAccount
  OBVIOUS
<1>1. /\ DOMAIN prefixCache = CacheFields /\ prefixCache.entries = Prefix!Empty /\ prefixCache.order = <<>>
      /\ prefixCache.bytes = 0 /\ prefixCache.maxBytes = 0 /\ DOMAIN prefixCache.entries = {}
  BY DEF Prefix!Init, Prefix!Disabled, CacheFields, Prefix!Empty
<1>2. Exact(prefixCache)
  BY <1>1, EmptyExact
<1>3. workspace.format \in Nat /\ \A r \in Requests : request[r].pc = "idle"
  BY DEF Prefix!Init, Prefix!NoRows, Prefix!NoRequest
<1> QED BY <1>1, <1>2, <1>3 DEF PrefixAccount

LEMMA BoundaryAccounts ==
    ASSUME PrefixInv, PrefixAccount, (\E limit \in Limits : Prefix!Enable(limit)) \/ Prefix!Disable \/ Prefix!Clear
    PROVE  PrefixAccount'
<1>1. DOMAIN prefixCache = CacheFields /\ prefixCache.maxBytes \in Nat
  BY DEF PrefixAccount, Exact, Account
<1>2. ASSUME NEW limit \in Limits, Prefix!Enable(limit)
      PROVE  /\ prefixCache'.entries = Prefix!Empty /\ prefixCache'.order = <<>> /\ prefixCache'.bytes = 0
             /\ prefixCache'.maxBytes = limit
  BY <1>2 DEF Prefix!Enable, Prefix!Boundary, Prefix!Disabled
<1>3. ASSUME Prefix!Disable
      PROVE  /\ prefixCache'.entries = Prefix!Empty /\ prefixCache'.order = <<>> /\ prefixCache'.bytes = 0
             /\ prefixCache'.maxBytes = 0
  BY <1>3 DEF Prefix!Disable, Prefix!Boundary, Prefix!Disabled
<1>4. ASSUME Prefix!Clear
      PROVE  /\ prefixCache'.entries = Prefix!Empty /\ prefixCache'.order = <<>> /\ prefixCache'.bytes = 0
             /\ prefixCache'.maxBytes = prefixCache.maxBytes
  BY <1>1, <1>4 DEF Prefix!Clear, Prefix!Boundary, CacheFields
<1>5. /\ prefixCache'.entries = Prefix!Empty /\ prefixCache'.order = <<>> /\ prefixCache'.bytes = 0
      /\ prefixCache'.maxBytes \in Nat
  BY <1>1, <1>2, <1>3, <1>4, PrefixAssumption
<1>6. DOMAIN prefixCache' = CacheFields /\ DOMAIN prefixCache'.entries = {} /\ UNCHANGED <<request, workspace>>
  BY BoundaryEmpties
<1>7. Exact(prefixCache')
  BY <1>5, <1>6, EmptyExact
<1> QED BY <1>6, <1>7 DEF PrefixAccount

\* Every step of a request that leaves the cache alone.
LEMMA OthersAccount ==
    ASSUME PrefixInv, PrefixAccount, NEW r \in Requests,
           \/ \E p \in StaticPrefixes : Prefix!Begin(r, p)
           \/ \E format \in Formats : Prefix!Start(r, format)
           \/ Prefix!Resident(r) \/ Prefix!Copy(r) \/ Prefix!Complete(r) \/ Prefix!Cancel(r) \/ Prefix!Clone(r)
    PROVE  PrefixAccount'
<1>1. UNCHANGED prefixCache
  BY DEF Prefix!Begin, Prefix!Start, Prefix!Resident, Prefix!Copy, Prefix!Complete, Prefix!Cancel, Prefix!Clone
<1>2. workspace'.format \in Nat
  <2>1. workspace.format \in Nat /\ DOMAIN workspace = {"text", "format"}
    BY DEF PrefixAccount, PrefixInv, PrefixShape
  <2>2. ASSUME NEW format \in Formats, Prefix!Start(r, format) PROVE workspace'.format \in Nat
    BY <2>1, <2>2, PrefixAssumption DEF Prefix!Start
  <2>3. CASE Prefix!Copy(r)
    <3>1. request[r].pc = "copy" /\ workspace' = request[r].source
      BY <2>3 DEF Prefix!Copy, Prefix!At
    <3>2. request[r].source = [text |-> request[r].prefix, format |-> workspace.format]
      BY <3>1 DEF PrefixInv, PrefixRowsExact
    <3> QED BY <2>1, <3>1, <3>2
  <2>4. CASE Prefix!Complete(r) \/ Prefix!Cancel(r)
    <3>1. PICK text : workspace' = [workspace EXCEPT !.text = text]
      BY <2>4 DEF Prefix!Complete, Prefix!Cancel
    <3> QED BY <2>1, <3>1
  <2>5. CASE UNCHANGED workspace
    BY <2>1, <2>5
  <2> QED BY <2>2, <2>3, <2>4, <2>5 DEF Prefix!Begin, Prefix!Resident, Prefix!Clone
<1>3. \A q \in Requests : request'[q].pc # "idle" => request'[q].prefix \in StaticPrefixes
  <2>1. \A q \in Requests : request[q].pc # "idle" => request[q].prefix \in StaticPrefixes
    BY DEF PrefixAccount
  <2>2. DOMAIN request = Requests /\ \A q \in Requests : DOMAIN request[q] = {"pc", "prefix", "epoch", "enabled", "source"}
    BY DEF PrefixInv, PrefixShape
  <2>3. ASSUME NEW p \in StaticPrefixes, Prefix!Begin(r, p)
        PROVE  (\A q \in Requests \ {r} : request'[q] = request[q]) /\ request'[r].prefix = p
    BY <2>2, <2>3 DEF Prefix!Begin, Prefix!NoRequest
  <2>4. ASSUME NEW format \in Formats, Prefix!Start(r, format)
        PROVE  /\ \A q \in Requests \ {r} : request'[q] = request[q]
               /\ request'[r].prefix = request[r].prefix /\ request[r].pc # "idle"
    BY <2>2, <2>4 DEF Prefix!Start, Prefix!At
  <2>5. ASSUME Prefix!Resident(r) \/ Prefix!Copy(r) \/ Prefix!Clone(r)
        PROVE  /\ \A q \in Requests \ {r} : request'[q] = request[q]
               /\ request'[r].prefix = request[r].prefix /\ request[r].pc # "idle"
    BY <2>2, <2>5 DEF Prefix!Resident, Prefix!Copy, Prefix!Clone, Prefix!At
  <2>6. ASSUME Prefix!Complete(r) \/ Prefix!Cancel(r)
        PROVE  /\ \A q \in Requests \ {r} : request'[q] = request[q]
               /\ request'[r].pc = "idle" \/ (request'[r].prefix = request[r].prefix /\ request[r].pc # "idle")
    BY <2>2, <2>6 DEF Prefix!Complete, Prefix!Cancel, Prefix!Leave, Prefix!NoRequest
  <2> QED BY <2>1, <2>3, <2>4, <2>5, <2>6
<1> QED BY <1>1, <1>2, <1>3 DEF PrefixAccount

LEMMA LookupAccounts ==
    ASSUME PrefixInv, PrefixAccount, NEW r \in Requests, Prefix!Lookup(r) \/ Prefix!Check(r)
    PROVE  PrefixAccount'
<1> DEFINE p == request[r].prefix
<1>1. \/ UNCHANGED prefixCache
      \/ p \in DOMAIN prefixCache.entries /\ prefixCache' = Prefix!Touch(prefixCache, p)
  BY DEF Prefix!Lookup, Prefix!Check, Prefix!Compatible
<1>2. Exact(prefixCache') /\ prefixCache'.enabled = prefixCache.enabled /\ prefixCache'.entries = prefixCache.entries
  BY <1>1, TouchExact DEF PrefixAccount
<1>3. UNCHANGED workspace
  BY DEF Prefix!Lookup, Prefix!Check
<1>4. \A q \in Requests : request'[q].pc # "idle" => request'[q].prefix \in StaticPrefixes
  BY DEF PrefixAccount, PrefixInv, PrefixShape, GenLockLines, Prefix!At, Prefix!Leave, Prefix!NoRequest, Prefix!NoRows,
     Prefix!Lookup, Prefix!Check
<1> QED BY <1>2, <1>3, <1>4 DEF PrefixAccount

LEMMA InsertAccounts ==
    ASSUME PrefixInv, PrefixAccount, NEW r \in Requests, Prefix!Insert(r)
    PROVE  PrefixAccount'
<1> DEFINE key == request[r].prefix
           left == Prefix!MakeRoom(Prefix!Without(prefixCache, key), Prefix!EntryBytes(key))
           item == [rows |-> request[r].source, bytes |-> Prefix!EntryBytes(key)]
           book == [q \in DOMAIN left.entries \cup {key} |-> IF q = key THEN item ELSE left.entries[q]]
           next == [left EXCEPT !.entries = book, !.order = Append(@, key), !.bytes = @ + Prefix!EntryBytes(key)]
<1>1. prefixCache' = IF Prefix!Open(r) /\ Prefix!EntryBytes(key) <= prefixCache.maxBytes THEN next ELSE prefixCache
  BY DEF Prefix!Insert
<1>2. key \in StaticPrefixes /\ Prefix!EntryBytes(key) \in Nat
  <2>1. key \in StaticPrefixes /\ workspace.format \in Nat /\ Length[key] \in Nat
    BY PrefixAssumption DEF Prefix!Insert, Prefix!At, PrefixAccount
  <2> QED BY <2>1 DEF Prefix!EntryBytes
<1>3. item.bytes = Prefix!EntryBytes(key)
  OBVIOUS
<1>4. prefixCache'.enabled = prefixCache.enabled
  BY InsertStores DEF PrefixInv
<1>5. ASSUME prefixCache' = next, Prefix!EntryBytes(key) <= prefixCache.maxBytes PROVE Exact(prefixCache')
  <2>1. Exact(prefixCache)
    BY DEF PrefixAccount
  <2>2. left = Prefix!MakeRoom(Prefix!Without(prefixCache, key), Prefix!EntryBytes(key))
    OBVIOUS
  <2>3. /\ DOMAIN book = DOMAIN left.entries \cup {key} /\ book[key] = item
        /\ \A q \in DOMAIN left.entries \ {key} : book[q] = left.entries[q]
    <3> HIDE DEF key, left, item
    <3> QED OBVIOUS
  <2> HIDE DEF left
  <2>4. /\ Exact(left) /\ key \notin DOMAIN left.entries
        /\ Len(left.order) < MaxEntries /\ left.bytes + Prefix!EntryBytes(key) <= left.maxBytes
    <3> HIDE DEF key
    <3> QED BY <1>2, <1>5, <2>1, <2>2, RoomExact
  <2>5. /\ DOMAIN next = CacheFields /\ next.entries = book /\ next.order = Append(left.order, key)
        /\ next.bytes = left.bytes + item.bytes /\ next.maxBytes = left.maxBytes
    <3> HIDE DEF key, book
    <3> QED BY <1>3, <2>4 DEF Exact, CacheFields
  <2> HIDE DEF key, item, book, next
  <2>6. /\ Account(left.entries, left.order, left.bytes, left.maxBytes) /\ key \in StaticPrefixes
        /\ key \notin DOMAIN left.entries /\ item.bytes \in Nat /\ Len(left.order) < MaxEntries
        /\ left.bytes + item.bytes <= left.maxBytes /\ DOMAIN book = DOMAIN left.entries \cup {key}
        /\ book[key] = item /\ \A q \in DOMAIN left.entries : book[q] = left.entries[q]
    BY <1>2, <1>3, <2>3, <2>4 DEF Exact
  <2>7. Account(book, Append(left.order, key), left.bytes + item.bytes, left.maxBytes)
    BY <2>6, AccountAdded
  <2> QED BY <1>5, <2>5, <2>7 DEF Exact
<1>6. Exact(prefixCache')
  BY <1>1, <1>5 DEF PrefixAccount
<1>7. prefixCache'.enabled \/ DOMAIN prefixCache'.entries = {}
  <2>1. prefixCache' = prefixCache \/ Prefix!Open(r)
    <3> HIDE DEF next
    <3> QED BY <1>1
  <2> QED BY <1>4, <2>1 DEF Prefix!Open, PrefixAccount
<1>8. UNCHANGED workspace /\ \A q \in Requests : request'[q].pc # "idle" => request'[q].prefix \in StaticPrefixes
  BY DEF PrefixAccount, PrefixInv, PrefixShape, Prefix!Leave, Prefix!NoRequest, Prefix!Insert
<1> QED BY <1>6, <1>7, <1>8 DEF PrefixAccount

LEMMA AccountKeeps == PrefixInv /\ PrefixAccount /\ [Prefix!Next]_(Prefix!vars) => PrefixAccount'
<1> SUFFICES ASSUME PrefixInv, PrefixAccount, [Prefix!Next]_(Prefix!vars) PROVE PrefixAccount'
  OBVIOUS
<1>1. CASE UNCHANGED Prefix!vars
  BY <1>1 DEF Prefix!vars, PrefixAccount
<1>2. ASSUME NEW r \in Requests, Prefix!Generate(r) PROVE PrefixAccount'
  BY <1>2, OthersAccount, LookupAccounts, InsertAccounts DEF Prefix!Generate
<1> QED BY <1>1, <1>2, BoundaryAccounts DEF Prefix!Next

LEMMA AccountInvariance == Prefix!Spec => []PrefixAccount
<1>1. PrefixInv /\ PrefixAccount /\ [Prefix!Next]_(Prefix!vars) => PrefixAccount'
  BY AccountKeeps
<1> QED BY AccountInit, PrefixInvariance, <1>1, PTL DEF Prefix!Spec

LEMMA SameSize == \A S : Prefix!Cardinality(S) = Cardinality(S)
BY DEF Prefix!Cardinality, Cardinality

\* THEOREM: nothing but exact rows is kept, on an exact account: every retained prefix has the
\* rows of its key, a request that copies or clones one owns the workspace and has the rows
\* of its own prefix, and whatever is inserted, replaced, evicted and cleared, the running
\* byte count is the sum of the entries' bytes and both limits hold (mistralKVPrefixCache).
THEOREM PrefixesAreExact == SpecOne => []PrefixCacheExact
<1>1. PrefixAccount => Prefix!AccountExact
  <2> SUFFICES ASSUME PrefixAccount PROVE Prefix!AccountExact
    OBVIOUS
  <2>1. Account(prefixCache.entries, prefixCache.order, prefixCache.bytes, prefixCache.maxBytes)
    BY DEF PrefixAccount, Exact
  <2>2. Cardinality(DOMAIN prefixCache.entries) = Len(prefixCache.order)
    BY <2>1, AccountTypes
  <2>3. Prefix!ToSet(prefixCache.order) = Keys(prefixCache.order)
    <3>1. \A list \in Seq(StaticPrefixes) : DOMAIN list = 1 .. Len(list)
      OBVIOUS
    <3> QED BY <2>1, <3>1 DEF Prefix!ToSet, Keys, Account
  <2> QED BY <2>1, <2>2, <2>3, SameSize DEF Prefix!AccountExact, Account, PrefixAccount
<1>2. PrefixInv /\ PrefixAccount => PrefixCacheExact
  BY <1>1, PrefixRowsKept DEF PrefixCacheExact, Prefix!PrefixCacheExact
<1> QED BY <1>2, PrefixBehaviour, PrefixInvariance, AccountInvariance, PTL

-----------------------------------------------------------------------------
(* Speculative decoding: what the variables hold. *)

Rows   == [1 .. MaxSeqLen -> Seq(Tok)]
States == [rows : Rows, rec : Seq(Tok), draftRows : Rows, pending : Seq(Tok)]
Gens   == [prompt : Seq(Tok), mtp : BOOLEAN, lookup : BOOLEAN, verify : BOOLEAN, max : Nat, len : 0 .. MaxSeqLen,
           generated : Seq(Tok), recent : Seq(Tok), resident : Seq(Tok), next : Tok \cup {0},
           drafts : Seq(Tok), seeded : BOOLEAN]
Blocks == [active : BOOLEAN, inputs : Seq(Tok), hidden : Seq(Seq(Tok)), predictions : Seq(Tok), checked : Nat,
           seeded : BOOLEAN, checkpoint : Seq(Tok), pending : Seq(Tok), keep : Nat, next : Tok \cup {0},
           stop : BOOLEAN]

DecodeTypes ==
    /\ recurrent \in BOOLEAN /\ kv \in States
    /\ prefix \in [tokens : Seq(Tok), prompt : Nat, pending : Seq(Tok)]
    /\ step \in {"idle", "emit", "draft", "verify", "finish", "serial", "end"}
    /\ gen \in Gens /\ block \in Blocks

\* The first n rows and the recurrent state are those of the first n tokens of a text, and
\* so are the draft head's rows and boundary.
TargetAt(c, text, n) ==
    /\ \A i \in 1 .. n : c.rows[i] = SubSeq(text, 1, i)
    /\ recurrent => c.rec = SubSeq(text, 1, n)
HeadAt(c, text, n) ==
    /\ c.pending = SubSeq(text, 1, n)
    /\ \A i \in 1 .. n : c.draftRows[i] = SubSeq(text, 1, i)

\* Between requests the advertised tokens are resident, with their boundaries.
Advertised ==
    step = "idle" =>
      /\ gen = NoGen /\ ~block.active
      /\ Len(prefix.tokens) <= MaxSeqLen /\ prefix.prompt <= Len(prefix.tokens)
      /\ TargetAt(kv, prefix.tokens, Len(prefix.tokens))
      /\ prefix.pending # NoMTP =>
           /\ prefix.pending = prefix.tokens
           /\ HeadAt(kv, prefix.tokens, Len(prefix.tokens))

\* A request's resident tokens begin its text, which fits in the cache.
Requested ==
    step # "idle" =>
      /\ gen.mtp => recurrent
      /\ gen.prompt \in Prompts
      /\ Pos \in 1 .. MaxSeqLen /\ Len(gen.prompt) <= Pos
      /\ Pos <= Len(Text) /\ gen.resident = SubSeq(Text, 1, Pos)
      /\ gen.recent = Recent(Text)
      /\ step = "emit" => Text = gen.resident /\ gen.next = Choice(Text, Recent(Text))
      /\ step \in {"draft", "serial"} =>
           /\ Text = Append(gen.resident, Seed) /\ gen.generated # <<>>
           /\ Pos < gen.len /\ Len(gen.generated) < gen.max
      /\ step = "serial" => gen.mtp /\ (gen.seeded => kv.draftRows[Pos + 1] = Text)
      /\ block.active <=> step \in {"verify", "finish"}

\* Outside a block the state is that of the resident tokens.
Settled ==
    step \notin {"idle", "verify", "finish"} =>
      /\ TargetAt(kv, gen.resident, Pos)
      /\ gen.mtp => HeadAt(kv, gen.resident, Pos)

\* The resident tokens and the first i inputs of the block.
BlockText(i) == gen.resident \o SubSeq(block.inputs, 1, i)

\* Inside one the target has read all its inputs, and the checkpoint is the boundary before
\* it; the draft head may have read the first.
Speculating ==
    block.active =>
      /\ Count >= 2 /\ Pos + Count <= MaxSeqLen
      /\ Len(block.hidden) = Count /\ Len(block.predictions) = Count
      /\ TargetAt(kv, BlockText(Count), Pos + Count)
      /\ recurrent => block.checkpoint = gen.resident
      /\ block.seeded => gen.mtp /\ kv.draftRows[Pos + 1] = BlockText(1)
      /\ gen.mtp => /\ block.pending = gen.resident /\ kv.pending = gen.resident
                    /\ \A i \in 1 .. Pos : kv.draftRows[i] = SubSeq(gen.resident, 1, i)
      /\ \A i \in 1 .. Count : /\ block.hidden[i] = BlockText(i)
                               /\ block.predictions[i] = Choice(BlockText(i), Recent(BlockText(i)))
      /\ step = "verify" => block.checked + 1 < Count /\ Text = BlockText(block.checked + 1)
      /\ step = "finish" =>
           /\ block.keep \in 1 .. Count
           /\ Pos + block.keep <= Len(Text) /\ BlockText(block.keep) = SubSeq(Text, 1, Pos + block.keep)
           /\ ~block.stop => Text = BlockText(block.keep) /\ block.next = Choice(Text, Recent(Text))

DecodeInv == DecodeTypes /\ Advertised /\ Requested /\ Settled /\ Speculating

-----------------------------------------------------------------------------
(* Texts and recent tokens. *)

\* The whole of a text is a beginning of it.
LEMMA WholeText ==
    ASSUME NEW S, NEW s \in Seq(S)
    PROVE  Len(s) \in Nat /\ SubSeq(s, 1, Len(s)) = s
BY LenProperties, SubSeqFull

\* How many tokens of a text of length n are recent.
Window(n) == IF n <= PenaltyWindow THEN n ELSE PenaltyWindow

LEMMA WindowSize ==
    ASSUME NEW n \in Nat
    PROVE  Window(n) \in Nat /\ Window(n) <= n /\ Window(n) <= PenaltyWindow
BY DecodeAssumption DEF Window

\* A window of the window and what follows it is one of the whole.
LEMMA WindowContinues ==
    ASSUME NEW n \in Nat, NEW l \in Nat
    PROVE  Window(Window(n) + l) = Window(n + l) /\ Window(n + l) <= Window(n) + l
BY DecodeAssumption DEF Window

\* The recent tokens are the last ones, at most the window.
LEMMA RecentOf ==
    ASSUME NEW s \in Seq(Tok), NEW n \in Nat, n = Len(s), NEW m \in Nat, m = Window(n)
    PROVE  /\ Recent(s) \in Seq(Tok) /\ Len(Recent(s)) = m
           /\ \A i \in 1 .. m : Recent(s)[i] = s[n - m + i]
<1>1. m = Window(n)
  OBVIOUS
<1>2. m \in Nat /\ m <= n
  BY <1>1, WindowSize
<1>3. Max({1, n - PenaltyWindow + 1}) = n - m + 1
  <2>1. PICK x : x = n - PenaltyWindow + 1
    OBVIOUS
  <2>2. x \in Int /\ PenaltyWindow \in Nat
    BY <2>1, DecodeAssumption
  <2>3. Max({1, x}) = IF x >= 1 THEN x ELSE 1
    BY <2>2 DEF Max
  <2>4. CASE n <= PenaltyWindow
    <3>1. m = n /\ (x >= 1 => x = 1)
      BY <1>1, <2>1, <2>2, <2>4 DEF Window
    <3> QED BY <2>1, <2>3, <3>1
  <2>5. CASE ~(n <= PenaltyWindow)
    <3>1. m = PenaltyWindow /\ x >= 1
      BY <1>1, <2>1, <2>2, <2>5 DEF Window
    <3> QED BY <2>1, <2>3, <3>1
  <2> QED BY <2>4, <2>5
<1>4. PICK a : a = n - m
  OBVIOUS
<1>5. a \in Nat /\ a + m = n
  BY <1>2, <1>4
<1>6. Recent(s) = SubSeq(s, a + 1, n)
  BY <1>3, <1>4 DEF Recent
<1>7. \A i \in a + 1 .. n : s[i] \in Tok
  <2>1. \A i \in 1 .. Len(s) : s[i] \in Tok
    BY LenProperties, ElementOfSeq
  <2>2. \A i \in a + 1 .. n : i \in 1 .. Len(s)
    BY <1>5
  <2> QED BY <2>1, <2>2
<1>8. /\ SubSeq(s, a + 1, n) \in Seq(Tok)
      /\ Len(SubSeq(s, a + 1, n)) = IF a + 1 <= n THEN n - (a + 1) + 1 ELSE 0
      /\ \A i \in 1 .. n - (a + 1) + 1 : SubSeq(s, a + 1, n)[i] = s[a + 1 + i - 1]
  <2>1. a + 1 \in Int /\ n \in Int
    BY <1>5
  <2> QED BY <1>7, <2>1, SubSeqProperties
<1>9. PICK r : r = Recent(s)
  OBVIOUS
<1>10. r \in Seq(Tok) /\ Len(r) = m
  BY <1>2, <1>5, <1>6, <1>8, <1>9
<1>11. \A i \in 1 .. m : r[i] = s[a + i]
  <2>1. TAKE i \in 1 .. m
  <2>2. a + 1 + i - 1 = a + i /\ i \in 1 .. n - (a + 1) + 1
    BY <1>2, <1>5
  <2> QED BY <1>6, <1>8, <1>9, <2>2
<1> QED BY <1>1, <1>4, <1>9, <1>10, <1>11

\* The recent tokens of a text are all one has to remember of it.
LEMMA RecentContinues ==
    ASSUME NEW s \in Seq(Tok), NEW t \in Seq(Tok)
    PROVE  Recent(Recent(s) \o t) = Recent(s \o t)
<1>1. PICK r : r = Recent(s)
  OBVIOUS
<1>2. PICK n \in Nat, l \in Nat : n = Len(s) /\ l = Len(t)
  BY LenProperties
<1>3. PICK m \in Nat : m = Window(n) /\ m <= n
  BY WindowSize
<1>4. r \in Seq(Tok) /\ Len(r) = m /\ \A i \in 1 .. m : r[i] = s[n - m + i]
  BY <1>1, <1>2, <1>3, RecentOf, SMTT(60)
<1>5. PICK a, b : a = r \o t /\ b = s \o t
  OBVIOUS
<1>6. PICK p \in Nat, q \in Nat : p = m + l /\ q = n + l
  <2>1. m + l \in Nat /\ n + l \in Nat
    OBVIOUS
  <2> QED BY <2>1
<1>7. /\ a \in Seq(Tok) /\ Len(a) = p
      /\ \A i \in 1 .. p : a[i] = IF i <= m THEN r[i] ELSE t[i - m]
  BY <1>2, <1>4, <1>5, <1>6, ConcatProperties
<1>8. /\ b \in Seq(Tok) /\ Len(b) = q
      /\ \A i \in 1 .. q : b[i] = IF i <= n THEN s[i] ELSE t[i - n]
  BY <1>2, <1>5, <1>6, ConcatProperties
<1>9. PICK k \in Nat : k <= p /\ k = Window(q) /\ k = Window(p)
  BY <1>3, <1>6, WindowSize, WindowContinues
<1>10. Recent(a) \in Seq(Tok) /\ Len(Recent(a)) = k /\ \A i \in 1 .. k : Recent(a)[i] = a[p - k + i]
  BY <1>7, <1>9, RecentOf
<1>11. Recent(b) \in Seq(Tok) /\ Len(Recent(b)) = k /\ \A i \in 1 .. k : Recent(b)[i] = b[q - k + i]
  BY <1>8, <1>9, RecentOf, ZenonT(90)
<1>a. k <= p
  BY <1>9
<1>b. m <= n
  BY <1>3
<1>12. ASSUME NEW i \in 1 .. k PROVE a[p - k + i] = b[q - k + i]
  <2>1. PICK j \in Nat : j = p - k + i /\ j >= 1 /\ j <= p
    <3>1. p - k + i \in Nat /\ p - k + i >= 1 /\ p - k + i <= p
      BY <1>a
    <3> QED BY <3>1
  <2>2. PICK h \in Nat : h = q - k + i /\ h = n - m + j /\ h >= 1 /\ h <= q
    <3>1. q - k + i \in Nat /\ q - k + i = n - m + j /\ q - k + i >= 1 /\ q - k + i <= q
      BY <1>6, <1>a, <1>b, <2>1
    <3> QED BY <3>1
  <2>3. CASE j <= m
    <3>1. h <= n /\ j \in 1 .. m
      BY <1>b, <2>1, <2>2, <2>3
    <3>2. r[j] = s[h]
      BY <1>4, <2>2, <3>1
    <3>3. a[j] = r[j]
      BY <1>7, <2>1, <2>3
    <3>4. b[h] = s[h]
      BY <1>8, <2>2, <3>1
    <3> QED BY <2>1, <2>2, <3>2, <3>3, <3>4
  <2>4. CASE ~(j <= m)
    <3>1. ~(h <= n) /\ h - n = j - m
      BY <1>b, <2>1, <2>2, <2>4
    <3>2. a[j] = t[j - m]
      BY <1>7, <2>1, <2>4
    <3>3. b[h] = t[h - n]
      BY <1>8, <2>2, <3>1
    <3> QED BY <2>1, <2>2, <3>1, <3>2, <3>3
  <2> QED BY <2>3, <2>4
<1>13. \A i \in 1 .. k : Recent(a)[i] = Recent(b)[i]
  BY <1>10, <1>11, <1>12
<1> QED BY <1>1, <1>5, <1>10, <1>11, <1>13, SeqEqual


-----------------------------------------------------------------------------
(* The two models. *)

\* The target reads the next token of the text it holds.
LEMMA ForwardAt ==
    ASSUME recurrent \in BOOLEAN, NEW c \in States, NEW text \in Seq(Tok),
           NEW n \in Nat, n < Len(text), n < MaxSeqLen, TargetAt(c, text, n)
    PROVE  LET d == Forward(c, text[n + 1], n + 1)
           IN  /\ d \in States /\ TargetAt(d, text, n + 1) /\ d.rows[n + 1] = SubSeq(text, 1, n + 1)
               /\ d.draftRows = c.draftRows /\ d.pending = c.pending
               /\ d.rec = IF recurrent THEN SubSeq(text, 1, n + 1) ELSE c.rec
<1> DEFINE d == Forward(c, text[n + 1], n + 1)
           t == text[n + 1]
           begin == SubSeq(text, 1, n)
<1>1. /\ MaxSeqLen \in Nat /\ Len(text) \in Nat
      /\ c.rows \in [1 .. MaxSeqLen -> Seq(Tok)] /\ c.rec \in Seq(Tok)
  BY DecodeAssumption, LenProperties DEF States, Rows
<1>2. n + 1 \in 1 .. MaxSeqLen
  BY <1>1
<1>3. begin \in Seq(Tok) /\ Len(begin) = n /\ t \in Tok /\ Append(begin, t) = SubSeq(text, 1, n + 1)
  BY <1>1, Beginning, NextBeginning
<1>4. ReadBy(c, n + 1) = begin
  <2>1. CASE n = 0
    BY <2>1, SubSeqEmpty DEF ReadBy
  <2>2. CASE n # 0
    BY <2>2 DEF ReadBy, TargetAt
  <2> QED BY <2>1, <2>2
<1>5. \A j \in 1 .. n : c.rows[j] = SubSeq(begin, 1, j)
  <2>1. TAKE j \in 1 .. n
  <2>2. c.rows[j] = SubSeq(text, 1, j)
    BY DEF TargetAt
  <2> QED BY <1>1, <2>2, BeginningOfBeginning
<1> HIDE DEF begin, t
<1>6. Coherent(c, n + 1)
  <2>1. (n + 1) - 1 = n
    OBVIOUS
  <2>2. recurrent => c.rec = begin
    BY DEF TargetAt, begin
  <2> QED BY <1>3, <1>4, <1>5, <2>1, <2>2 DEF Coherent
<1>7. PICK long : long = SubSeq(text, 1, n + 1)
  OBVIOUS
<1>8. long \in Seq(Tok)
  BY <1>1, <1>2, <1>7, Beginning
<1>9. PICK rows : rows = [c.rows EXCEPT ![n + 1] = long]
  OBVIOUS
<1>10. d = [c EXCEPT !.rows = rows, !.rec = IF recurrent THEN Append(c.rec, t) ELSE c.rec]
  BY <1>3, <1>4, <1>6, <1>7, <1>9 DEF Forward, t
<1>11. recurrent => Append(c.rec, t) = long
  BY <1>3, <1>7 DEF TargetAt, begin
<1> HIDE DEF d
<1>12. d = [rows |-> rows, rec |-> IF recurrent THEN long ELSE c.rec, draftRows |-> c.draftRows, pending |-> c.pending]
  BY <1>10, <1>11 DEF States
<1>13. rows \in [1 .. MaxSeqLen -> Seq(Tok)]
  BY <1>1, <1>8, <1>9
<1>14. d \in States
  BY <1>1, <1>8, <1>12, <1>13 DEF States, Rows
<1>15. \A i \in 1 .. n + 1 : rows[i] = SubSeq(text, 1, i)
  <2>1. TAKE i \in 1 .. n + 1
  <2>2. i \in 1 .. MaxSeqLen
    BY <1>1
  <2>3. rows[i] = IF i = n + 1 THEN long ELSE c.rows[i]
    BY <1>1, <1>9, <2>2
  <2>4. i # n + 1 => c.rows[i] = SubSeq(text, 1, i)
    BY DEF TargetAt
  <2> QED BY <1>7, <2>3, <2>4
<1>16. TargetAt(d, text, n + 1)
  BY <1>7, <1>12, <1>15 DEF TargetAt
<1>17. /\ d.draftRows = c.draftRows /\ d.pending = c.pending /\ d.rows = rows
       /\ d.rec = IF recurrent THEN long ELSE c.rec
  BY <1>12
<1>18. d.rows[n + 1] = long
  BY <1>1, <1>7, <1>15, <1>17, SMTT(60)
<1> QED BY <1>7, <1>14, <1>16, <1>17, <1>18 DEF d, t

\* The draft head leaves the target alone.
SameTarget(d, c) == d.rows = c.rows /\ d.rec = c.rec

\* And the target the draft head.
SameHead(d, c) == d.draftRows = c.draftRows /\ d.pending = c.pending

\* The draft head follows by one token, whose hidden state is the text's.
LEMMA CatchUpAt ==
    ASSUME NEW c \in States, NEW text \in Seq(Tok), NEW n \in Nat, n < Len(text), n < MaxSeqLen,
           HeadAt(c, text, n), NEW t, t = text[n + 1], NEW m \in Nat, m = n + 1,
           NEW hidden, hidden = SubSeq(text, 1, m)
    PROVE  /\ CatchUp(c, t, m, hidden) \in States /\ HeadAt(CatchUp(c, t, m, hidden), text, m)
           /\ SameTarget(CatchUp(c, t, m, hidden), c)
<1>1. /\ MaxSeqLen \in Nat /\ Len(text) \in Nat
      /\ c.draftRows \in [1 .. MaxSeqLen -> Seq(Tok)] /\ c.pending = SubSeq(text, 1, n)
  BY DecodeAssumption, LenProperties DEF States, Rows, HeadAt
<1>2. m \in 1 .. MaxSeqLen
  BY <1>1
<1>3. Append(c.pending, t) = hidden /\ hidden \in Seq(Tok)
  BY <1>1, Beginning, NextBeginning
<1>4. PICK rows : rows = [c.draftRows EXCEPT ![m] = hidden]
  OBVIOUS
<1>5. PICK d : d = CatchUp(c, t, m, hidden)
  OBVIOUS
<1>6. d = [c EXCEPT !.draftRows = rows, !.pending = hidden]
  BY <1>3, <1>4, <1>5 DEF CatchUp
<1>7. d = [rows |-> c.rows, rec |-> c.rec, draftRows |-> rows, pending |-> hidden]
  BY <1>6 DEF States
<1>8. rows \in [1 .. MaxSeqLen -> Seq(Tok)]
  BY <1>1, <1>3, <1>4
<1>9. d \in States
  BY <1>3, <1>7, <1>8 DEF States, Rows
<1>10. \A i \in 1 .. n : c.draftRows[i] = SubSeq(text, 1, i)
  BY DEF HeadAt
<1>11. ASSUME NEW i \in 1 .. m PROVE rows[i] = SubSeq(text, 1, i)
  <2>1. i \in 1 .. MaxSeqLen /\ (i # m => i \in 1 .. n)
    BY <1>1
  <2>2. rows[i] = IF i = m THEN hidden ELSE c.draftRows[i]
    BY <1>1, <1>4, <2>1
  <2> QED BY <1>10, <2>1, <2>2
<1>12. HeadAt(d, text, m)
  BY <1>7, <1>11 DEF HeadAt
<1>13. SameTarget(d, c)
  BY <1>7 DEF SameTarget
<1> QED BY <1>5, <1>9, <1>12, <1>13

\* What Read does with its ith token.
ReadStep(c, t, i, mtp) ==
    LET f == Forward(c, t, i) IN IF mtp THEN CatchUp(f, t, i, f.rows[i]) ELSE f

\* The states Read goes through.
Reading(f, c, ts, l, n, mtp) ==
    /\ f[0] = c /\ \A i \in 1 .. l : f[i] = ReadStep(f[i - 1], ts[i], n + i, mtp)
    /\ Read(c, ts, n, mtp) = f[l]

LEMMA ReadStates ==
    ASSUME NEW c, NEW ts, NEW l \in Nat, l = Len(ts), NEW n \in Nat, NEW mtp
    PROVE  \E f : Reading(f, c, ts, l, n, mtp)
<1> DEFINE chain(f, top) == f = [i \in 0 .. top |-> IF i = 0 THEN c ELSE ReadStep(f[i - 1], ts[i], n + i, mtp)]
           bad == {k \in Nat : ~ \E f : chain(f, k)}
<1>1. bad = {}
  <2> SUFFICES ASSUME bad # {} PROVE FALSE
    OBVIOUS
  <2>1. PICK least \in bad : \A k \in bad : least <= k
    <3>1. bad \subseteq Nat
      OBVIOUS
    <3> HIDE DEF bad
    <3> QED BY <3>1, LeastExists
  <2>2. least \in Nat /\ ~ \E f : chain(f, least)
    OBVIOUS
  <2>3. CASE least = 0
    <3>1. PICK g : g = [i \in 0 .. 0 |-> c]
      OBVIOUS
    <3>2. g = [i \in 0 .. 0 |-> IF i = 0 THEN c ELSE ReadStep(g[i - 1], ts[i], n + i, mtp)]
      <4>1. \A i \in 0 .. 0 : c = IF i = 0 THEN c ELSE ReadStep(g[i - 1], ts[i], n + i, mtp)
        OBVIOUS
      <4> QED BY <3>1, <4>1
    <3>3. chain(g, 0)
      BY <3>2
    <3> HIDE DEF chain
    <3> QED BY <2>2, <2>3, <3>3
  <2>4. CASE least # 0
    <3>1. PICK m \in Nat : least = m + 1
      BY <2>2, <2>4
    <3>2. m \notin bad
      <4> HIDE DEF bad
      <4> QED BY <2>1, <3>1
    <3>3. PICK f : chain(f, m)
      BY <3>2
    <3> DEFINE g == [i \in 0 .. m + 1 |-> IF i = m + 1 THEN ReadStep(f[m], ts[m + 1], n + (m + 1), mtp) ELSE f[i]]
    <3>4. \A i \in 0 .. m + 1 : g[i] = IF i = 0 THEN c ELSE ReadStep(g[i - 1], ts[i], n + i, mtp)
      <4>1. TAKE i \in 0 .. m + 1
      <4>2. CASE i = m + 1
        BY <4>2
      <4>3. CASE i # m + 1 /\ i # 0
        <5>1. i \in 0 .. m /\ i - 1 \in 0 .. m + 1 /\ i - 1 # m + 1
          BY <4>3
        <5>2. f[i] = ReadStep(f[i - 1], ts[i], n + i, mtp)
          BY <3>3, <4>3, <5>1
        <5> QED BY <4>3, <5>1, <5>2
      <4>4. CASE i = 0
        <5>1. 0 \in 0 .. m
          OBVIOUS
        <5>2. f[0] = c
          BY <3>3, <5>1
        <5>3. g[0] = f[0]
          OBVIOUS
        <5> QED BY <4>4, <5>2, <5>3
      <4> QED BY <4>2, <4>3, <4>4
    <3>5. chain(g, m + 1)
      BY <3>4
    <3> QED BY <2>2, <3>1, <3>5
  <2> QED BY <2>3, <2>4
<1>2. \E f : chain(f, Len(ts))
  BY <1>1
<1>3. Read(c, ts, n, mtp) = (CHOOSE f : chain(f, Len(ts)))[Len(ts)]
  BY DEF Read, ReadStep
<1> HIDE DEF chain
<1>4. PICK f : chain(f, Len(ts)) /\ Read(c, ts, n, mtp) = f[Len(ts)]
  BY <1>2, <1>3
<1>6. f = [i \in 0 .. l |-> IF i = 0 THEN c ELSE ReadStep(f[i - 1], ts[i], n + i, mtp)]
  BY <1>4 DEF chain
<1>7. f[0] = c /\ \A i \in 1 .. l : f[i] = ReadStep(f[i - 1], ts[i], n + i, mtp)
  <2>1. f[0] = c
    BY <1>6
  <2>2. ASSUME NEW i \in 1 .. l PROVE f[i] = ReadStep(f[i - 1], ts[i], n + i, mtp)
    <3>1. i \in 0 .. l /\ i # 0
      OBVIOUS
    <3> QED BY <1>6, <3>1
  <2> QED BY <2>1, <2>2
<1> QED BY <1>4, <1>7 DEF Reading

\* A text is read token by token.
LEMMA ReadAt ==
    ASSUME recurrent \in BOOLEAN, NEW c \in States, NEW text \in Seq(Tok), NEW n \in Nat, NEW ts \in Seq(Tok),
           NEW mtp \in BOOLEAN, NEW l \in Nat, l = Len(ts), n + l <= Len(text), n + l <= MaxSeqLen,
           \A i \in 1 .. l : ts[i] = text[n + i],
           TargetAt(c, text, n), mtp => HeadAt(c, text, n)
    PROVE  LET d == Read(c, ts, n, mtp)
           IN  /\ d \in States /\ TargetAt(d, text, n + l)
               /\ IF mtp THEN HeadAt(d, text, n + l) ELSE SameHead(d, c)
<1> DEFINE Good(d, i) ==
             /\ d \in States /\ TargetAt(d, text, n + i)
             /\ IF mtp THEN HeadAt(d, text, n + i) ELSE SameHead(d, c)
<1>1. PICK f : /\ f[0] = c /\ \A i \in 1 .. l : f[i] = ReadStep(f[i - 1], ts[i], n + i, mtp)
               /\ Read(c, ts, n, mtp) = f[l]
  <2>1. PICK f : Reading(f, c, ts, l, n, mtp)
    BY ReadStates
  <2> QED BY <2>1 DEF Reading
<1>2. Good(f[0], 0)
  <2>1. n + 0 = n
    OBVIOUS
  <2> QED BY <1>1, <2>1 DEF SameHead
<1>3. ASSUME NEW i \in 1 .. l, Good(f[i - 1], i - 1)
      PROVE  Good(f[i], i)
  <2>1. PICK k \in Nat : k = n + (i - 1)
    <3>1. n + (i - 1) \in Nat
      OBVIOUS
    <3> QED BY <3>1
  <2>2. k + 1 = n + i /\ k < n + l
    BY <2>1
  <2>3. Len(text) \in Nat /\ MaxSeqLen \in Nat
    BY LenProperties, DecodeAssumption
  <2>4. k < Len(text) /\ k < MaxSeqLen
    BY <2>2, <2>3
  <2>5. PICK b : b = f[i - 1]
    OBVIOUS
  <2>6. b \in States /\ TargetAt(b, text, k) /\ IF mtp THEN HeadAt(b, text, k) ELSE SameHead(b, c)
    BY <1>3, <2>1, <2>5
  <2>7. ts[i] = text[k + 1]
    BY <2>2
  <2>8. PICK d : d = Forward(b, text[k + 1], k + 1)
    OBVIOUS
  <2>9. /\ d \in States /\ TargetAt(d, text, k + 1) /\ d.rows[k + 1] = SubSeq(text, 1, k + 1)
        /\ d.draftRows = b.draftRows /\ d.pending = b.pending
    BY <2>4, <2>6, <2>8, ForwardAt
  <2>10. f[i] = IF mtp THEN CatchUp(d, text[k + 1], k + 1, d.rows[k + 1]) ELSE d
    BY <1>1, <2>2, <2>5, <2>7, <2>8 DEF ReadStep
  <2>11. CASE mtp
    <3>1. HeadAt(d, text, k)
      BY <2>6, <2>9, <2>11 DEF HeadAt
    <3>2. PICK t, hidden : t = text[k + 1] /\ hidden = SubSeq(text, 1, k + 1)
      OBVIOUS
    <3>a. PICK m \in Nat : m = k + 1
      <4>1. k + 1 \in Nat
        OBVIOUS
      <4> QED BY <4>1
    <3>b. PICK e : e = CatchUp(d, t, m, hidden)
      OBVIOUS
    <3>3. e \in States /\ HeadAt(e, text, m) /\ SameTarget(e, d)
      BY <2>4, <2>9, <3>1, <3>2, <3>a, <3>b, CatchUpAt
    <3>4. TargetAt(e, text, m)
      BY <2>9, <3>a, <3>3 DEF TargetAt, SameTarget
    <3>5. f[i] = e
      BY <2>9, <2>10, <2>11, <3>2, <3>a, <3>b
    <3> QED BY <2>2, <2>11, <3>a, <3>3, <3>4, <3>5
  <2>12. CASE ~mtp
    BY <2>2, <2>6, <2>9, <2>10, <2>12 DEF SameHead
  <2> QED BY <2>11, <2>12
<1> DEFINE bad == {i \in 0 .. l : ~Good(f[i], i)}
<1>4. bad = {}
  <2> SUFFICES ASSUME bad # {} PROVE FALSE
    OBVIOUS
  <2>1. PICK i \in bad : \A j \in bad : i <= j
    <3>1. bad \subseteq Nat
      OBVIOUS
    <3> HIDE DEF bad
    <3> QED BY <3>1, LeastExists
  <2>2. i \in 0 .. l /\ ~Good(f[i], i)
    OBVIOUS
  <2> HIDE DEF Good
  <2>3. i # 0
    BY <1>2, <2>2
  <2>4. i \in 1 .. l /\ i - 1 \in 0 .. l
    BY <2>2, <2>3
  <2>5. i - 1 \notin bad
    <3> HIDE DEF bad
    <3> QED BY <2>1, <2>4
  <2>6. Good(f[i - 1], i - 1)
    BY <2>4, <2>5
  <2> QED BY <1>3, <2>2, <2>4, <2>6
<1>5. Good(f[l], l)
  <2>1. l \in 0 .. l
    OBVIOUS
  <2> HIDE DEF Good
  <2> QED BY <1>4, <2>1
<1> QED BY <1>1, <1>5

\* What the draft head does with the ith input of the block.
FollowStep(c, i) == CatchUp(c, block.inputs[i], Pos + i, block.hidden[i])

\* Where it starts: its row of the seed may be there already.
FirstFollowed == IF block.seeded THEN 1 ELSE 0
FollowedFrom(c) == IF block.seeded THEN [c EXCEPT !.pending = block.hidden[1]] ELSE c

\* The states Followed goes through.
Following(f, c, n) ==
    /\ f[FirstFollowed] = FollowedFrom(c)
    /\ \A i \in FirstFollowed + 1 .. n : f[i] = FollowStep(f[i - 1], i)
    /\ Followed(c, n) = f[n]

LEMMA FollowedStates ==
    ASSUME NEW c, NEW n \in Nat, n >= 1
    PROVE  \E f : Following(f, c, n)
<1> DEFINE first == FirstFollowed
           from == FollowedFrom(c)
           chain(f, top) == f = [i \in first .. top |-> IF i = first THEN from ELSE FollowStep(f[i - 1], i)]
           bad == {k \in Nat : ~ \E f : chain(f, first + k)}
<1>1. first \in {0, 1}
  BY DEF FirstFollowed
<1> HIDE DEF first, from
<1>2. bad = {}
  <2> SUFFICES ASSUME bad # {} PROVE FALSE
    OBVIOUS
  <2>1. PICK least \in bad : \A k \in bad : least <= k
    <3>1. bad \subseteq Nat
      OBVIOUS
    <3> HIDE DEF bad
    <3> QED BY <3>1, LeastExists
  <2>2. least \in Nat /\ ~ \E f : chain(f, first + least)
    OBVIOUS
  <2>3. CASE least = 0
    <3>1. PICK g : g = [i \in first .. first |-> from]
      OBVIOUS
    <3>2. g = [i \in first .. first |-> IF i = first THEN from ELSE FollowStep(g[i - 1], i)]
      <4>1. \A i \in first .. first : from = IF i = first THEN from ELSE FollowStep(g[i - 1], i)
        BY <1>1
      <4> QED BY <3>1, <4>1
    <3>3. chain(g, first)
      BY <3>2
    <3>4. first + least = first
      BY <1>1, <2>3
    <3> HIDE DEF chain
    <3> QED BY <2>2, <3>3, <3>4
  <2>4. CASE least # 0
    <3>1. PICK m \in Nat : least = m + 1
      BY <2>2, <2>4
    <3>2. m \notin bad
      <4> HIDE DEF bad
      <4> QED BY <2>1, <3>1
    <3>3. PICK f : chain(f, first + m)
      BY <3>2
    <3>a. PICK top \in Nat : top = first + m /\ first <= top
      <4>1. first + m \in Nat /\ first <= first + m
        BY <1>1
      <4> QED BY <4>1
    <3> DEFINE g == [i \in first .. top + 1 |-> IF i = top + 1 THEN FollowStep(f[top], top + 1) ELSE f[i]]
    <3>4. \A i \in first .. top + 1 : g[i] = IF i = first THEN from ELSE FollowStep(g[i - 1], i)
      <4>1. TAKE i \in first .. top + 1
      <4>2. CASE i = top + 1
        <5>1. i # first /\ i - 1 = top /\ top \in first .. top + 1 /\ top # top + 1
          BY <1>1, <3>a, <4>2
        <5> QED BY <4>2, <5>1
      <4>3. CASE i # top + 1 /\ i # first
        <5>1. i \in first .. top /\ i - 1 \in first .. top + 1 /\ i - 1 # top + 1
          BY <1>1, <3>a, <4>3
        <5>2. f[i] = FollowStep(f[i - 1], i)
          BY <3>3, <3>a, <4>3, <5>1
        <5> QED BY <4>3, <5>1, <5>2
      <4>4. CASE i = first
        <5>1. first \in first .. top /\ first # top + 1
          BY <1>1, <3>a
        <5>2. f[first] = from
          BY <3>3, <3>a, <5>1
        <5>3. g[first] = f[first]
          BY <4>4, <5>1
        <5> QED BY <4>4, <5>2, <5>3
      <4> QED BY <4>2, <4>3, <4>4
    <3>5. chain(g, top + 1)
      BY <3>4
    <3>6. first + least = top + 1
      BY <1>1, <3>1, <3>a
    <3> QED BY <2>2, <3>5, <3>6
  <2> QED BY <2>3, <2>4
<1>3. \E f : chain(f, n)
  <2>1. n - first \in Nat /\ first + (n - first) = n
    BY <1>1
  <2> QED BY <1>2, <2>1
<1>4. Followed(c, n) = (CHOOSE f : chain(f, n))[n]
  BY DEF Followed, FollowStep, FirstFollowed, FollowedFrom, first, from
<1> HIDE DEF chain
<1>5. PICK f : chain(f, n) /\ Followed(c, n) = f[n]
  BY <1>3, <1>4
<1>6. f = [i \in first .. n |-> IF i = first THEN from ELSE FollowStep(f[i - 1], i)]
  BY <1>5 DEF chain
<1>7. f[first] = from
  <2>1. first \in first .. n
    BY <1>1
  <2> QED BY <1>6, <2>1
<1>8. ASSUME NEW i \in first + 1 .. n PROVE f[i] = FollowStep(f[i - 1], i)
  <2>1. i \in first .. n /\ i # first
    BY <1>1
  <2> QED BY <1>6, <2>1
<1> QED BY <1>5, <1>7, <1>8 DEF Following, first, from

\* The draft head follows the target over a text.
LEMMA FollowedAt ==
    ASSUME block.seeded \in BOOLEAN, NEW c \in States, NEW text \in Seq(Tok), NEW p \in Nat, p = Pos,
           NEW n \in Nat, n >= 1, p + n <= Len(text), p + n <= MaxSeqLen,
           \A i \in 1 .. n : block.inputs[i] = text[p + i] /\ block.hidden[i] = SubSeq(text, 1, p + i),
           HeadAt(c, text, p), block.seeded => c.draftRows[p + 1] = SubSeq(text, 1, p + 1)
    PROVE  Followed(c, n) \in States /\ HeadAt(Followed(c, n), text, p + n) /\ SameTarget(Followed(c, n), c)
<1> DEFINE Good(d, i) == d \in States /\ HeadAt(d, text, p + i) /\ SameTarget(d, c)
<1>1. PICK first \in {0, 1} : first = FirstFollowed
  BY DEF FirstFollowed
<1>2. PICK f : Following(f, c, n)
  BY FollowedStates
<1>3. /\ f[first] = FollowedFrom(c) /\ Followed(c, n) = f[n]
      /\ \A i \in first + 1 .. n : f[i] = FollowStep(f[i - 1], i)
  BY <1>1, <1>2 DEF Following
<1>4. Len(text) \in Nat /\ MaxSeqLen \in Nat
  BY LenProperties, DecodeAssumption
<1>5. Good(f[first], first)
  <2>1. CASE block.seeded
    <3>1. first = 1
      BY <1>1, <2>1 DEF FirstFollowed
    <3>2. PICK m \in Nat : m = p + 1
      <4>1. p + 1 \in Nat
        OBVIOUS
      <4> QED BY <4>1
    <3>3. PICK hidden : hidden = SubSeq(text, 1, m)
      OBVIOUS
    <3>4. hidden \in Seq(Tok)
      BY <1>4, <3>2, <3>3, Beginning
    <3>5. block.hidden[1] = hidden
      <4>1. 1 \in 1 .. n
        OBVIOUS
      <4> QED BY <3>2, <3>3, <4>1
    <3>6. PICK d : d = f[first]
      OBVIOUS
    <3>7. d = [c EXCEPT !.pending = hidden]
      BY <1>3, <2>1, <3>5, <3>6 DEF FollowedFrom
    <3>8. d \in States /\ d.draftRows = c.draftRows /\ d.pending = hidden /\ d.rows = c.rows /\ d.rec = c.rec
      BY <3>4, <3>7 DEF States
    <3>9. \A i \in 1 .. p : c.draftRows[i] = SubSeq(text, 1, i)
      BY DEF HeadAt
    <3>10. c.draftRows[m] = SubSeq(text, 1, m)
      BY <2>1, <3>2
    <3>11. ASSUME NEW i \in 1 .. m PROVE d.draftRows[i] = SubSeq(text, 1, i)
      <4>1. i \in 1 .. p \/ i = m
        BY <3>2
      <4> QED BY <3>8, <3>9, <3>10, <4>1
    <3>12. HeadAt(d, text, m)
      BY <3>3, <3>8, <3>11 DEF HeadAt
    <3> QED BY <3>1, <3>2, <3>6, <3>8, <3>12 DEF SameTarget
  <2>2. CASE ~block.seeded
    <3>1. first = 0 /\ p + 0 = p
      BY <1>1, <2>2 DEF FirstFollowed
    <3>2. f[first] = c
      BY <1>3, <2>2 DEF FollowedFrom
    <3> QED BY <3>1, <3>2 DEF SameTarget
  <2> QED BY <2>1, <2>2
<1>6. ASSUME NEW i \in first + 1 .. n, Good(f[i - 1], i - 1)
      PROVE  Good(f[i], i)
  <2>1. PICK k \in Nat : k = p + (i - 1)
    <3>1. p + (i - 1) \in Nat
      OBVIOUS
    <3> QED BY <3>1
  <2>2. PICK m \in Nat : m = p + i /\ m = k + 1
    <3>1. p + i \in Nat /\ p + i = k + 1
      BY <2>1
    <3> QED BY <3>1
  <2>3. k < p + n /\ i \in 1 .. n
    BY <2>1
  <2>4. k < Len(text) /\ k < MaxSeqLen
    BY <1>4, <2>3
  <2>5. PICK b : b = f[i - 1]
    OBVIOUS
  <2>6. b \in States /\ HeadAt(b, text, k) /\ SameTarget(b, c)
    BY <1>6, <2>1, <2>5
  <2>7. PICK t, hidden : t = text[k + 1] /\ hidden = SubSeq(text, 1, m)
    OBVIOUS
  <2>8. PICK e : e = CatchUp(b, t, m, hidden)
    OBVIOUS
  <2>9. e \in States /\ HeadAt(e, text, m) /\ SameTarget(e, b)
    BY <2>2, <2>4, <2>6, <2>7, <2>8, CatchUpAt, ZenonT(90)
  <2>10. block.inputs[i] = t /\ block.hidden[i] = hidden
    BY <2>2, <2>3, <2>7
  <2>11. f[i] = e
    BY <1>3, <2>2, <2>5, <2>8, <2>10 DEF FollowStep
  <2> QED BY <2>2, <2>6, <2>9, <2>11 DEF SameTarget
<1> DEFINE bad == {i \in first .. n : ~Good(f[i], i)}
<1>7. bad = {}
  <2> SUFFICES ASSUME bad # {} PROVE FALSE
    OBVIOUS
  <2>1. PICK i \in bad : \A j \in bad : i <= j
    <3>1. bad \subseteq Nat
      OBVIOUS
    <3> HIDE DEF bad
    <3> QED BY <3>1, LeastExists
  <2>2. i \in first .. n /\ ~Good(f[i], i)
    OBVIOUS
  <2> HIDE DEF Good
  <2>3. i # first
    BY <1>5, <2>2
  <2>4. i \in first + 1 .. n /\ i - 1 \in first .. n
    BY <2>2, <2>3
  <2>5. i - 1 \notin bad
    <3> HIDE DEF bad
    <3> QED BY <2>1, <2>4
  <2>6. Good(f[i - 1], i - 1)
    BY <2>4, <2>5
  <2> QED BY <1>6, <2>2, <2>4, <2>6
<1>8. Good(f[n], n)
  <2>1. n \in first .. n
    OBVIOUS
  <2> HIDE DEF Good
  <2> QED BY <1>7, <2>1
<1> QED BY <1>3, <1>8

-----------------------------------------------------------------------------
(* The texts of a request. *)

\* The greedy token is a token.
LEMMA ChoiceIn ==
    ASSUME NEW s \in Seq(Tok), Len(s) <= MaxSeqLen
    PROVE  Choice(s, Recent(s)) \in Tok
<1>1. PICK n \in Nat : n = Len(s)
  BY LenProperties
<1>2. PICK m \in Nat : m = Window(n) /\ m <= PenaltyWindow
  BY WindowSize
<1>3. PICK r : r = Recent(s)
  OBVIOUS
<1>4. r \in Seq(Tok) /\ Len(r) = m
  BY <1>1, <1>2, <1>3, RecentOf
<1>5. s \in [1 .. n -> Tok] /\ r \in [1 .. m -> Tok]
  BY <1>1, <1>4, LenProperties
<1>6. n \in 0 .. MaxSeqLen /\ m \in 0 .. PenaltyWindow
  BY <1>1, <1>2, DecodeAssumption
<1> QED BY <1>3, <1>5, <1>6, ChoiceAssumption

\* One token more: the recent ones follow.
LEMMA NextToken ==
    ASSUME NEW s \in Seq(Tok), NEW t \in Tok
    PROVE  /\ Append(s, t) \in Seq(Tok) /\ Len(Append(s, t)) = Len(s) + 1 /\ Append(s, t)[Len(s) + 1] = t
           /\ SubSeq(Append(s, t), 1, Len(s)) = s
           /\ Recent(Append(Recent(s), t)) = Recent(Append(s, t))
<1>1. <<t>> \in Seq(Tok) /\ Len(s) \in Nat
  BY LenProperties
<1>2. PICK r : r = Recent(s)
  OBVIOUS
<1>3. r \in Seq(Tok)
  BY <1>1, <1>2, WindowSize, RecentOf
<1>4. Append(s, t) = s \o <<t>> /\ Append(r, t) = r \o <<t>>
  BY <1>3, AppendIsConcat
<1>5. Recent(r \o <<t>>) = Recent(s \o <<t>>)
  BY <1>1, <1>2, RecentContinues
<1>6. SubSeq(s \o <<t>>, 1, Len(s)) = SubSeq(s, 1, Len(s))
  BY <1>1, BeginningOfConcat
<1>7. SubSeq(s, 1, Len(s)) = s
  BY WholeText
<1>8. Append(s, t) \in Seq(Tok) /\ Len(Append(s, t)) = Len(s) + 1 /\ Append(s, t)[Len(s) + 1] = t
  BY <1>1, AppendProperties
<1> QED BY <1>2, <1>4, <1>5, <1>6, <1>7, <1>8

\* The first i inputs of a block behind a text.
LEMMA Behind ==
    ASSUME NEW head \in Seq(Tok), NEW tail \in Seq(Tok), NEW size \in Nat, size = Len(head),
           NEW many \in Nat, many <= Len(tail), NEW whole, whole = head \o SubSeq(tail, 1, many)
    PROVE  /\ whole \in Seq(Tok) /\ Len(whole) = size + many
           /\ \A j \in 0 .. size : SubSeq(whole, 1, j) = SubSeq(head, 1, j)
           /\ \A j \in 0 .. many : SubSeq(whole, 1, size + j) = head \o SubSeq(tail, 1, j)
           /\ \A j \in 1 .. many : whole[size + j] = tail[j]
           /\ SubSeq(whole, 1, size) = head
<1>1. PICK u : u = SubSeq(tail, 1, many)
  OBVIOUS
<1>2. u \in Seq(Tok) /\ Len(u) = many /\ (\A j \in 1 .. many : u[j] = tail[j]) /\ Len(tail) \in Nat
  BY <1>1, Beginning, LenProperties
<1>3. /\ head \o u \in Seq(Tok) /\ Len(head \o u) = size + many
      /\ \A j \in 1 .. size + many : (head \o u)[j] = IF j <= size THEN head[j] ELSE u[j - size]
  BY <1>2, ConcatProperties
<1>4. ASSUME NEW j \in 0 .. size PROVE SubSeq(head \o u, 1, j) = SubSeq(head, 1, j)
  BY <1>2, BeginningOfConcat
<1>5. ASSUME NEW j \in 0 .. many PROVE SubSeq(head \o u, 1, size + j) = head \o SubSeq(tail, 1, j)
  <2>1. SubSeq(head \o u, 1, size + j) = head \o SubSeq(u, 1, j)
    <3>1. j \in Nat /\ j <= Len(u)
      BY <1>2
    <3>2. SubSeq(head \o u, 1, Len(head) + j) = head \o SubSeq(u, 1, j)
      BY <1>2, <3>1, BeginningPastConcat
    <3> QED BY <3>2
  <2>2. SubSeq(u, 1, j) = SubSeq(tail, 1, j)
    BY <1>1, <1>2, BeginningOfBeginning
  <2> QED BY <2>1, <2>2
<1>6. ASSUME NEW j \in 1 .. many PROVE (head \o u)[size + j] = tail[j]
  <2>1. size + j \in 1 .. size + many /\ ~(size + j <= size) /\ (size + j) - size = j
    OBVIOUS
  <2> QED BY <1>2, <1>3, <2>1
<1>7. SubSeq(head \o u, 1, size) = head
  BY <1>4, WholeText
<1> QED BY <1>1, <1>3, <1>4, <1>5, <1>6, <1>7

\* What is computed for one text is computed for another that begins with it.
LEMMA TargetMoves ==
    ASSUME NEW c, NEW s \in Seq(Tok), NEW t \in Seq(Tok), NEW n \in Nat, n <= Len(s), n <= Len(t),
           SubSeq(s, 1, n) = SubSeq(t, 1, n)
    PROVE  /\ TargetAt(c, s, n) => TargetAt(c, t, n)
           /\ HeadAt(c, s, n) => HeadAt(c, t, n)
<1>1. Len(s) \in Nat /\ Len(t) \in Nat
  BY LenProperties
<1>2. ASSUME NEW i \in 1 .. n PROVE SubSeq(s, 1, i) = SubSeq(t, 1, i)
  <2>1. i \in Nat /\ i <= n
    OBVIOUS
  <2>2. SubSeq(SubSeq(s, 1, n), 1, i) = SubSeq(s, 1, i)
    BY <2>1, BeginningOfBeginning
  <2>3. SubSeq(SubSeq(t, 1, n), 1, i) = SubSeq(t, 1, i)
    BY <2>1, BeginningOfBeginning
  <2> QED BY <2>2, <2>3
<1>3. ASSUME TargetAt(c, s, n) PROVE TargetAt(c, t, n)
  BY <1>2, <1>3 DEF TargetAt
<1>4. ASSUME HeadAt(c, s, n) PROVE HeadAt(c, t, n)
  BY <1>2, <1>4 DEF HeadAt
<1> QED BY <1>3, <1>4

-----------------------------------------------------------------------------
(* A request in progress. *)

LEMMA InRequest ==
    ASSUME DecodeInv, step # "idle"
    PROVE  /\ recurrent \in BOOLEAN /\ kv \in States /\ gen \in Gens /\ block \in Blocks
           /\ gen.prompt \in Seq(Tok) /\ gen.generated \in Seq(Tok) /\ gen.resident \in Seq(Tok)
           /\ Text \in Seq(Tok) /\ Len(Text) \in Nat /\ Pos \in Nat /\ Len(gen.generated) \in Nat
           /\ gen.prompt \in Prompts /\ Pos >= 1 /\ Pos <= MaxSeqLen /\ Len(gen.prompt) <= Pos /\ Pos <= Len(Text)
           /\ gen.resident = SubSeq(Text, 1, Pos) /\ gen.recent = Recent(Text)
           /\ gen.mtp \in BOOLEAN /\ (gen.mtp => recurrent)
           /\ gen.len \in 0 .. MaxSeqLen /\ gen.max \in Nat
           /\ (block.active <=> step \in {"verify", "finish"})
<1>1. DecodeTypes /\ Requested
  BY DEF DecodeInv
<1>2. /\ gen.prompt \in Seq(Tok) /\ gen.generated \in Seq(Tok) /\ gen.resident \in Seq(Tok)
      /\ gen.mtp \in BOOLEAN /\ gen.len \in 0 .. MaxSeqLen /\ gen.max \in Nat
  BY <1>1 DEF DecodeTypes, Gens
<1>3. Text \in Seq(Tok) /\ Len(Text) \in Nat
  BY <1>2, ConcatProperties, LenProperties DEF Text
<1>4. Pos \in Nat /\ Len(gen.generated) \in Nat
  BY <1>2, LenProperties DEF Pos
<1>5. /\ gen.prompt \in Prompts /\ Len(gen.prompt) <= Pos /\ Pos <= Len(Text) /\ Pos \in 1 .. MaxSeqLen
      /\ gen.resident = SubSeq(Text, 1, Pos) /\ gen.recent = Recent(Text) /\ (gen.mtp => recurrent)
      /\ (block.active <=> step \in {"verify", "finish"})
  BY <1>1 DEF Requested
<1>6. Pos >= 1 /\ Pos <= MaxSeqLen
  BY <1>4, <1>5, DecodeAssumption
<1>7. recurrent \in BOOLEAN /\ kv \in States /\ gen \in Gens /\ block \in Blocks
  BY <1>1 DEF DecodeTypes
<1> QED BY <1>2, <1>3, <1>4, <1>5, <1>6, <1>7

\* Between the emitted token and what follows, the text is the resident tokens and it.
LEMMA AtSeed ==
    ASSUME DecodeInv, step \in {"draft", "serial"}
    PROVE  /\ Seed \in Tok /\ Text = Append(gen.resident, Seed) /\ Len(Text) = Pos + 1 /\ Text[Pos + 1] = Seed
           /\ SubSeq(Text, 1, Pos) = gen.resident /\ SubSeq(Text, 1, Pos + 1) = Text
           /\ Pos < gen.len /\ Pos + 1 <= MaxSeqLen /\ Len(gen.generated) < gen.max
           /\ TargetAt(kv, gen.resident, Pos) /\ TargetAt(kv, Text, Pos)
           /\ gen.mtp => HeadAt(kv, gen.resident, Pos) /\ HeadAt(kv, Text, Pos)
<1>1. step # "idle" /\ step \notin {"idle", "verify", "finish"}
  OBVIOUS
<1>2. /\ gen.generated \in Seq(Tok) /\ gen.resident \in Seq(Tok) /\ Text \in Seq(Tok) /\ Len(Text) \in Nat
      /\ Pos \in Nat /\ Pos <= Len(Text) /\ gen.resident = SubSeq(Text, 1, Pos) /\ gen.len \in 0 .. MaxSeqLen
  BY <1>1, InRequest
<1>3. /\ Text = Append(gen.resident, Seed) /\ gen.generated # <<>> /\ Pos < gen.len /\ Len(gen.generated) < gen.max
  BY DEF DecodeInv, Requested
<1>4. Seed \in Tok
  <2>1. Len(gen.generated) \in 1 .. Len(gen.generated)
    BY <1>2, <1>3, EmptySeq, LenProperties
  <2>2. gen.generated[Len(gen.generated)] \in Tok
    BY <1>2, <2>1, ElementOfSeq
  <2> QED BY <2>2 DEF Seed, Last
<1>5. Len(Text) = Pos + 1 /\ Text[Pos + 1] = Seed
  <2>1. PICK r : r = gen.resident
    OBVIOUS
  <2>2. Len(Append(r, Seed)) = Len(r) + 1 /\ Append(r, Seed)[Len(r) + 1] = Seed
    BY <1>2, <1>4, <2>1, NextToken
  <2> QED BY <1>3, <2>1, <2>2 DEF Pos
<1>6. SubSeq(Text, 1, Pos + 1) = Text
  BY <1>2, <1>5, WholeText
<1>7. Pos + 1 <= MaxSeqLen
  BY <1>2, <1>3, DecodeAssumption
<1>8. TargetAt(kv, gen.resident, Pos) /\ (gen.mtp => HeadAt(kv, gen.resident, Pos))
  BY <1>1 DEF DecodeInv, Settled
<1>9. SubSeq(gen.resident, 1, Pos) = SubSeq(Text, 1, Pos) /\ Pos <= Len(gen.resident)
  BY <1>2, BeginningOfBeginning DEF Pos
<1>10. TargetAt(kv, Text, Pos) /\ (gen.mtp => HeadAt(kv, Text, Pos))
  BY <1>2, <1>8, <1>9, TargetMoves
<1> QED BY <1>2, <1>3, <1>4, <1>5, <1>6, <1>7, <1>8, <1>10

\* The text a request's locals stand for.
TextOf(g) == g.prompt \o g.generated

\* emitToken keeps a token: the recent ones are those of the text it makes.
LEMMA KeepAt ==
    ASSUME NEW h \in Gens, h.recent = Recent(TextOf(h)), NEW t \in Tok, NEW g, g = Keep(h, t)
    PROVE  /\ g \in Gens /\ TextOf(g) = Append(TextOf(h), t) /\ g.recent = Recent(TextOf(g))
           /\ g.generated # <<>> /\ Last(g.generated) = t
           /\ g.prompt = h.prompt /\ g.mtp = h.mtp /\ g.lookup = h.lookup /\ g.verify = h.verify
           /\ g.max = h.max /\ g.len = h.len /\ g.resident = h.resident /\ g.next = h.next
           /\ g.drafts = h.drafts /\ g.seeded = h.seeded
<1>1. h.prompt \in Seq(Tok) /\ h.generated \in Seq(Tok)
  BY DEF Gens
<1>2. PICK text : text = TextOf(h)
  OBVIOUS
<1>3. text \in Seq(Tok)
  BY <1>1, <1>2, ConcatProperties DEF TextOf
<1>4. PICK recent, generated : recent = Recent(Append(h.recent, t)) /\ generated = Append(h.generated, t)
  OBVIOUS
<1>5. recent = Recent(Append(text, t)) /\ Append(text, t) \in Seq(Tok)
  BY <1>2, <1>3, <1>4, NextToken
<1>6. recent \in Seq(Tok)
  <2>1. PICK s : s = Append(text, t)
    OBVIOUS
  <2>2. s \in Seq(Tok) /\ Len(s) \in Nat
    BY <1>5, <2>1, LenProperties
  <2> QED BY <1>5, <2>1, <2>2, WindowSize, RecentOf
<1>7. generated \in Seq(Tok) /\ generated # <<>> /\ generated[Len(generated)] = t
  <2>1. Len(generated) = Len(h.generated) + 1
    BY <1>1, <1>4, AppendProperties
  <2> QED BY <1>1, <1>4, <2>1, AppendProperties
<1>8. g = [h EXCEPT !.generated = generated, !.recent = recent]
  BY <1>4 DEF Keep
<1>9. /\ g.prompt = h.prompt /\ g.mtp = h.mtp /\ g.lookup = h.lookup /\ g.verify = h.verify
      /\ g.max = h.max /\ g.len = h.len /\ g.resident = h.resident /\ g.next = h.next
      /\ g.drafts = h.drafts /\ g.seeded = h.seeded /\ g.generated = generated /\ g.recent = recent
  BY <1>8 DEF Gens
<1>10. g \in Gens
  BY <1>6, <1>7, <1>8 DEF Gens
<1>11. TextOf(g) = Append(text, t)
  <2>1. h.prompt \o Append(h.generated, t) = Append(h.prompt \o h.generated, t)
    <3>1. <<t>> \in Seq(Tok)
      OBVIOUS
    <3>2. Append(h.generated, t) = h.generated \o <<t>>
      BY <1>1, AppendIsConcat
    <3>3. h.prompt \o (h.generated \o <<t>>) = (h.prompt \o h.generated) \o <<t>>
      <4>1. PICK a, b, c : a = h.prompt /\ b = h.generated /\ c = <<t>>
        OBVIOUS
      <4>2. a \in Seq(Tok) /\ b \in Seq(Tok) /\ c \in Seq(Tok)
        BY <1>1, <3>1, <4>1
      <4>3. (a \o b) \o c = a \o (b \o c)
        BY <4>2, ConcatAssociative
      <4> QED BY <4>1, <4>3
    <3>4. (h.prompt \o h.generated) \o <<t>> = Append(h.prompt \o h.generated, t)
      <4>1. h.prompt \o h.generated \in Seq(Tok)
        BY <1>1, ConcatProperties
      <4> QED BY <4>1, AppendIsConcat
    <3> QED BY <3>2, <3>3, <3>4
  <2> QED BY <1>2, <1>4, <1>9, <2>1 DEF TextOf
<1> QED BY <1>2, <1>5, <1>7, <1>9, <1>10, <1>11 DEF Last

\* Drafting leaves the accepted rows and the boundary of the head alone.
LEMMA DraftedAt ==
    ASSUME NEW c \in States, NEW n \in Nat, gen.resident \in Seq(Tok), Pos \in Nat, Pos + 1 <= MaxSeqLen, Seed \in Tok,
           HeadAt(c, gen.resident, Pos), NEW d, d = Drafted(c, n)
    PROVE  /\ d \in States /\ SameTarget(d, c) /\ HeadAt(d, gen.resident, Pos) /\ d.pending = c.pending
           /\ n > 0 => d.draftRows[Pos + 1] = Append(gen.resident, Seed)
<1>1. PICK p \in Nat : p = Pos
  OBVIOUS
<1>2. MaxSeqLen \in Nat /\ p + 1 <= MaxSeqLen
  BY <1>1, DecodeAssumption
<1>3. c.draftRows \in [1 .. MaxSeqLen -> Seq(Tok)] /\ c.pending \in Seq(Tok)
  BY DEF States, Rows
<1>4. c.pending = gen.resident
  BY WholeText DEF HeadAt, Pos
<1>5. PICK new : new = Append(c.pending, Seed)
  OBVIOUS
<1>6. new \in Seq(Tok) /\ Broken \in Seq(Tok)
  BY <1>3, <1>5, AppendProperties, EmptySeq DEF Broken
<1>7. PICK rows : rows = [i \in 1 .. MaxSeqLen |-> IF n > 0 /\ i = p + 1 THEN new
                                                  ELSE IF i \in p + 2 .. p + n THEN Broken ELSE c.draftRows[i]]
  OBVIOUS
<1>8. rows \in Rows
  BY <1>3, <1>6, <1>7 DEF Rows
<1>9. d = [c EXCEPT !.draftRows = rows]
  BY <1>1, <1>3, <1>5, <1>7 DEF Drafted
<1>10. d \in States /\ d.rows = c.rows /\ d.rec = c.rec /\ d.pending = c.pending /\ d.draftRows = rows
  BY <1>8, <1>9 DEF States
<1>11. \A i \in 1 .. p : rows[i] = c.draftRows[i]
  BY <1>2, <1>7
<1>12. n > 0 => rows[p + 1] = new
  BY <1>2, <1>7
<1>13. HeadAt(d, gen.resident, p)
  BY <1>1, <1>10, <1>11 DEF HeadAt
<1> QED BY <1>1, <1>4, <1>5, <1>10, <1>12, <1>13 DEF SameTarget

-----------------------------------------------------------------------------
(* Every step keeps the invariant. *)

\* What holds of a request outside a block, of its locals g and the state c at s.
Outside(c, g, s) ==
    /\ c \in States /\ g \in Gens /\ s \in {"emit", "draft", "serial", "end"}
    /\ g.mtp => recurrent
    /\ g.prompt \in Prompts /\ Len(g.prompt) <= Len(g.resident)
    /\ Len(g.resident) \in 1 .. MaxSeqLen /\ Len(g.resident) <= Len(TextOf(g))
    /\ g.resident = SubSeq(TextOf(g), 1, Len(g.resident)) /\ g.recent = Recent(TextOf(g))
    /\ TargetAt(c, g.resident, Len(g.resident))
    /\ g.mtp => HeadAt(c, g.resident, Len(g.resident))
    /\ s = "emit" => TextOf(g) = g.resident /\ g.next = Choice(TextOf(g), Recent(TextOf(g)))
    /\ s \in {"draft", "serial"} =>
         /\ TextOf(g) = Append(g.resident, Last(g.generated)) /\ g.generated # <<>>
         /\ Len(g.resident) < g.len /\ Len(g.generated) < g.max
    /\ s = "serial" => g.mtp /\ (g.seeded => c.draftRows[Len(g.resident) + 1] = TextOf(g))

LEMMA OutsideBlock ==
    ASSUME recurrent' = recurrent, recurrent \in BOOLEAN, Outside(kv', gen', step'),
           block' \in Blocks, ~block'.active, prefix' \in [tokens : Seq(Tok), prompt : Nat, pending : Seq(Tok)]
    PROVE  DecodeInv'
<1>1. /\ Text' = TextOf(gen') /\ Pos' = Len(gen'.resident) /\ Seed' = Last(gen'.generated)
  BY DEF Text, TextOf, Pos, Seed
<1>2. DecodeTypes'
  BY DEF DecodeTypes, Outside
<1>3. step' \in {"emit", "draft", "serial", "end"}
  BY DEF Outside
<1>4. Advertised' /\ Speculating'
  BY <1>3 DEF Advertised, Speculating
<1>5. Requested'
  BY <1>1, <1>3 DEF Requested, Outside
<1>6. Settled'
  <2>1. TargetAt(kv', gen'.resident, Len(gen'.resident)) /\ (gen'.mtp => HeadAt(kv', gen'.resident, Len(gen'.resident)))
    BY DEF Outside
  <2> QED BY <1>1, <2>1 DEF Settled, TargetAt, HeadAt
<1> QED BY <1>2, <1>4, <1>5, <1>6 DEF DecodeInv

\* Between blocks it holds.
LEMMA StaysOutside ==
    ASSUME DecodeInv, step \in {"emit", "draft", "serial", "end"}
    PROVE  Outside(kv, gen, step) /\ ~block.active /\ step \notin {"verify", "finish"}
<1>1. step # "idle" /\ step \notin {"idle", "verify", "finish"} /\ step \notin {"verify", "finish"}
  OBVIOUS
<1>2. /\ Text = TextOf(gen) /\ Pos = Len(gen.resident) /\ Seed = Last(gen.generated)
  BY DEF Text, TextOf, Pos, Seed
<1>3. DecodeTypes /\ Requested /\ Settled
  BY DEF DecodeInv
<1> QED BY <1>1, <1>2, <1>3 DEF DecodeTypes, Requested, Settled, Outside

LEMMA EmitKeeps ==
    ASSUME DecodeInv, NEW outcome, Emit(outcome)
    PROVE  DecodeInv'
<1>1. /\ step = "emit" /\ recurrent' = recurrent /\ kv' = kv /\ prefix' = prefix /\ block' = block
  BY DEF Emit
<1>2. Outside(kv, gen, "emit") /\ ~block.active
  BY <1>1, StaysOutside
<1>3. /\ recurrent \in BOOLEAN /\ block \in Blocks /\ prefix \in [tokens : Seq(Tok), prompt : Nat, pending : Seq(Tok)]
  BY DEF DecodeInv, DecodeTypes
<1>4. CASE outcome = "kept"
  <2>1. PICK g, s : /\ g = Keep(gen, gen.next) /\ s = IF ~Full(g, Pos) THEN "draft" ELSE "end"
                    /\ gen' = g /\ step' = s
    BY <1>4 DEF Emit
  <2>2. /\ gen \in Gens /\ gen.recent = Recent(TextOf(gen)) /\ gen.resident \in Seq(Tok) /\ gen.len \in 0 .. MaxSeqLen
        /\ gen.resident = TextOf(gen) /\ gen.next = Choice(TextOf(gen), Recent(TextOf(gen))) /\ gen.max \in Nat
    BY <1>2 DEF Outside, Gens
  <2>3. PICK p \in Nat : p = Len(gen.resident) /\ p = Pos /\ p >= 1 /\ p <= MaxSeqLen
    <3>1. Len(gen.resident) \in Nat /\ Len(gen.resident) \in 1 .. MaxSeqLen
      BY <1>2, <2>2, LenProperties DEF Outside
    <3> QED BY <3>1, DecodeAssumption DEF Pos
  <2>4. PICK text : text = TextOf(gen)
    OBVIOUS
  <2>5. text \in Seq(Tok) /\ Len(text) = p /\ gen.next \in Tok
    BY <2>2, <2>3, <2>4, ChoiceIn
  <2>6. /\ g \in Gens /\ TextOf(g) = Append(text, gen.next) /\ g.recent = Recent(TextOf(g))
        /\ g.generated # <<>> /\ Last(g.generated) = gen.next
        /\ g.prompt = gen.prompt /\ g.mtp = gen.mtp /\ g.max = gen.max /\ g.len = gen.len /\ g.resident = gen.resident
    BY <2>1, <2>2, <2>4, <2>5, KeepAt, ZenonT(90)
  <2>7. /\ Len(TextOf(g)) = p + 1 /\ SubSeq(TextOf(g), 1, p) = text
    BY <2>5, <2>6, NextToken
  <2>8. s = "draft" => p < g.len /\ Len(g.generated) < g.max
    <3>1. Len(g.generated) \in Nat /\ g.len \in Nat /\ g.max \in Nat
      BY <2>2, <2>6, LenProperties, DecodeAssumption DEF Gens
    <3> QED BY <2>1, <2>3, <3>1 DEF Full
  <2>9. s \in {"draft", "end"}
    BY <2>1
  <2>10. p <= p + 1
    BY <2>3
  <2>11. Outside(kv, g, s)
    BY <1>2, <2>2, <2>3, <2>4, <2>6, <2>7, <2>8, <2>9, <2>10 DEF Outside
  <2> QED BY <1>1, <1>2, <1>3, <2>1, <2>11, OutsideBlock
<1>5. CASE outcome # "kept"
  <2>1. gen' = gen /\ step' = "end"
    BY <1>5 DEF Emit
  <2>2. Outside(kv, gen, "end")
    BY <1>2 DEF Outside
  <2> QED BY <1>1, <1>2, <1>3, <2>1, <2>2, OutsideBlock
<1> QED BY <1>4, <1>5

LEMMA CancelKeeps ==
    ASSUME DecodeInv, Cancel
    PROVE  DecodeInv'
<1>1. /\ step \in {"emit", "serial"} /\ step' = "end"
      /\ recurrent' = recurrent /\ kv' = kv /\ prefix' = prefix /\ block' = block /\ gen' = gen
  BY DEF Cancel
<1>2. Outside(kv, gen, step) /\ ~block.active
  BY <1>1, StaysOutside
<1>3. /\ recurrent \in BOOLEAN /\ block \in Blocks /\ prefix \in [tokens : Seq(Tok), prompt : Nat, pending : Seq(Tok)]
  BY DEF DecodeInv, DecodeTypes
<1>4. Outside(kv, gen, "end")
  BY <1>2 DEF Outside
<1> QED BY <1>1, <1>2, <1>3, <1>4, OutsideBlock

LEMMA SerialDraftKeeps ==
    ASSUME DecodeInv, NEW ts \in Seq(Tok), SerialDraft(ts)
    PROVE  DecodeInv'
<1>1. /\ step = "draft" /\ gen.mtp /\ step' = "serial" /\ recurrent' = recurrent /\ prefix' = prefix /\ block' = block
      /\ kv' = Drafted(kv, Len(ts)) /\ gen' = [gen EXCEPT !.drafts = ts, !.seeded = ts # <<>>]
  BY DEF SerialDraft
<1>2. Outside(kv, gen, "draft") /\ ~block.active
  BY <1>1, StaysOutside
<1>3. /\ recurrent \in BOOLEAN /\ block \in Blocks /\ prefix \in [tokens : Seq(Tok), prompt : Nat, pending : Seq(Tok)]
  BY DEF DecodeInv, DecodeTypes
<1>4. PICK n \in Nat : n = Len(ts) /\ (n > 0 <=> ts # <<>>)
  <2>1. Len(ts) \in Nat /\ (Len(ts) > 0 <=> ts # <<>>)
    BY EmptySeq, LenProperties
  <2> QED BY <2>1
<1>5. /\ kv \in States /\ gen \in Gens /\ gen.resident \in Seq(Tok) /\ Pos \in Nat
  BY <1>1, InRequest
<1>6. /\ Seed \in Tok /\ Text = Append(gen.resident, Seed) /\ Pos + 1 <= MaxSeqLen
      /\ HeadAt(kv, gen.resident, Pos)
  BY <1>1, AtSeed
<1>7. PICK c : c = Drafted(kv, n) /\ kv' = c
  BY <1>1, <1>4
<1>8. /\ c \in States /\ SameTarget(c, kv) /\ HeadAt(c, gen.resident, Pos)
      /\ n > 0 => c.draftRows[Pos + 1] = Append(gen.resident, Seed)
  BY <1>5, <1>6, <1>7, DraftedAt
<1>9. PICK g : g = [gen EXCEPT !.drafts = ts, !.seeded = ts # <<>>] /\ gen' = g
  BY <1>1
<1>10. /\ g \in Gens /\ g.prompt = gen.prompt /\ g.mtp = gen.mtp /\ g.max = gen.max /\ g.len = gen.len
       /\ g.resident = gen.resident /\ g.generated = gen.generated /\ g.recent = gen.recent /\ g.seeded = (ts # <<>>)
  BY <1>5, <1>9 DEF Gens
<1>11. TextOf(g) = TextOf(gen) /\ TextOf(gen) = Text
  BY <1>10 DEF TextOf, Text
<1>12. TargetAt(c, gen.resident, Pos)
  BY <1>2, <1>8 DEF Outside, TargetAt, SameTarget, Pos
<1>13. Outside(c, g, "serial")
  <2>1. Pos = Len(gen.resident)
    BY DEF Pos
  <2>2. g.seeded => c.draftRows[Len(g.resident) + 1] = TextOf(g)
    BY <1>4, <1>6, <1>8, <1>10, <1>11, <2>1
  <2> QED BY <1>1, <1>2, <1>8, <1>10, <1>11, <1>12, <2>1, <2>2 DEF Outside
<1> QED BY <1>1, <1>2, <1>3, <1>7, <1>9, <1>13, OutsideBlock

\* The target reads the seed.
LEMMA SeedRead ==
    ASSUME DecodeInv, step \in {"draft", "serial"}, NEW read, read = Forward(kv, Seed, Pos + 1)
    PROVE  /\ read \in States /\ TargetAt(read, Text, Pos + 1) /\ read.rows[Pos + 1] = Text
           /\ read.draftRows = kv.draftRows /\ read.pending = kv.pending
           /\ Choice(Text, Recent(Text)) \in Tok
<1>1. step # "idle"
  OBVIOUS
<1>2. /\ recurrent \in BOOLEAN /\ kv \in States /\ Text \in Seq(Tok) /\ Pos \in Nat /\ Len(Text) \in Nat
  BY <1>1, InRequest
<1>3. /\ Text[Pos + 1] = Seed /\ Len(Text) = Pos + 1 /\ SubSeq(Text, 1, Pos + 1) = Text
      /\ Pos + 1 <= MaxSeqLen /\ TargetAt(kv, Text, Pos)
  BY AtSeed
<1>4. PICK p \in Nat, text \in Seq(Tok) : p = Pos /\ text = Text
  BY <1>2
<1>5. p < Len(text) /\ p < MaxSeqLen
  BY <1>3, <1>4, DecodeAssumption
<1>6. TargetAt(kv, text, p)
  BY <1>3, <1>4
<1>7. PICK d : d = Forward(kv, text[p + 1], p + 1)
  OBVIOUS
<1>8. /\ d \in States /\ TargetAt(d, text, p + 1) /\ d.rows[p + 1] = SubSeq(text, 1, p + 1)
      /\ d.draftRows = kv.draftRows /\ d.pending = kv.pending
  BY <1>2, <1>5, <1>6, <1>7, ForwardAt
<1>9. read = d
  BY <1>3, <1>4, <1>7
<1>10. Choice(text, Recent(text)) \in Tok
  <2>1. Len(text) <= MaxSeqLen
    BY <1>3, <1>4
  <2> QED BY <2>1, ChoiceIn
<1> QED BY <1>3, <1>4, <1>8, <1>9, <1>10

LEMMA PlainKeeps ==
    ASSUME DecodeInv, Plain
    PROVE  DecodeInv'
<1>1. /\ step = "draft" /\ ~gen.mtp /\ step' = "emit" /\ recurrent' = recurrent /\ prefix' = prefix /\ block' = block
      /\ kv' = Forward(kv, Seed, Pos + 1)
      /\ gen' = [gen EXCEPT !.resident = Append(@, Seed), !.next = Choice(kv'.rows[Pos + 1], gen.recent)]
  BY DEF Plain
<1>2. Outside(kv, gen, "draft") /\ ~block.active
  BY <1>1, StaysOutside
<1>3. /\ recurrent \in BOOLEAN /\ block \in Blocks /\ prefix \in [tokens : Seq(Tok), prompt : Nat, pending : Seq(Tok)]
  BY DEF DecodeInv, DecodeTypes
<1>4. /\ gen \in Gens /\ gen.resident \in Seq(Tok) /\ Pos \in Nat /\ Text \in Seq(Tok) /\ gen.recent = Recent(Text)
      /\ gen.prompt \in Prompts /\ Len(gen.prompt) <= Pos
  BY <1>1, InRequest
<1>5. /\ Text = Append(gen.resident, Seed) /\ Len(Text) = Pos + 1 /\ SubSeq(Text, 1, Pos + 1) = Text /\ Pos + 1 <= MaxSeqLen
  BY <1>1, AtSeed
<1>6. PICK read : read = Forward(kv, Seed, Pos + 1) /\ kv' = read
  BY <1>1
<1>7. read \in States /\ TargetAt(read, Text, Pos + 1) /\ read.rows[Pos + 1] = Text /\ Choice(Text, Recent(Text)) \in Tok
  BY <1>1, <1>6, SeedRead
<1>8. PICK text, t : text = Text /\ t = Choice(Text, Recent(Text))
  OBVIOUS
<1>9. PICK g : g = [gen EXCEPT !.resident = text, !.next = t] /\ gen' = g
  BY <1>1, <1>4, <1>5, <1>6, <1>7, <1>8
<1>10. /\ g \in Gens /\ g.prompt = gen.prompt /\ g.mtp = gen.mtp /\ g.max = gen.max /\ g.len = gen.len
       /\ g.resident = text /\ g.generated = gen.generated /\ g.recent = gen.recent /\ g.next = t
  BY <1>4, <1>7, <1>8, <1>9 DEF Gens
<1>11. TextOf(g) = text
  BY <1>8, <1>10 DEF TextOf, Text
<1>12. PICK n \in Nat : n = Len(text) /\ n = Pos + 1 /\ n \in 1 .. MaxSeqLen /\ Len(gen.prompt) <= n
  <2>1. Len(text) = Pos + 1 /\ Pos + 1 \in Nat /\ Pos + 1 \in 1 .. MaxSeqLen
    BY <1>4, <1>5, <1>8, DecodeAssumption
  <2>2. Len(gen.prompt) \in Nat
    BY <1>4, DecodeAssumption, LenProperties
  <2>3. Len(gen.prompt) <= Pos + 1
    BY <1>4, <2>2
  <2> QED BY <2>1, <2>3
<1>13. Outside(read, g, "emit")
  <2>1. TargetAt(read, text, n)
    BY <1>7, <1>8, <1>12
  <2>2. text = SubSeq(text, 1, n)
    BY <1>5, <1>8, <1>12
  <2>3. ~g.mtp /\ n <= n
    BY <1>1, <1>10
  <2> QED BY <1>4, <1>7, <1>8, <1>10, <1>11, <1>12, <2>1, <2>2, <2>3 DEF Outside
<1> QED BY <1>1, <1>2, <1>3, <1>6, <1>9, <1>13, OutsideBlock

LEMMA SerialKeeps ==
    ASSUME DecodeInv, NEW outcome, Serial(outcome)
    PROVE  DecodeInv'
<1>1. step = "serial" /\ recurrent' = recurrent /\ prefix' = prefix /\ block' = block
  BY DEF Serial
<1>2. Outside(kv, gen, "serial") /\ ~block.active
  BY <1>1, StaysOutside
<1>3. /\ recurrent \in BOOLEAN /\ block \in Blocks /\ prefix \in [tokens : Seq(Tok), prompt : Nat, pending : Seq(Tok)]
  BY DEF DecodeInv, DecodeTypes
<1>4. /\ gen \in Gens /\ gen.resident \in Seq(Tok) /\ Pos \in Nat /\ Text \in Seq(Tok) /\ gen.recent = Recent(Text)
      /\ gen.prompt \in Prompts /\ Len(gen.prompt) <= Pos /\ gen.len \in 0 .. MaxSeqLen /\ gen.max \in Nat
  BY <1>1, InRequest
<1>5. /\ Text = Append(gen.resident, Seed) /\ Len(Text) = Pos + 1 /\ SubSeq(Text, 1, Pos + 1) = Text /\ Pos + 1 <= MaxSeqLen
      /\ Text[Pos + 1] = Seed
  BY <1>1, AtSeed
<1>6. gen.mtp /\ (gen.seeded => kv.draftRows[Pos + 1] = Text) /\ HeadAt(kv, Text, Pos)
  BY <1>1, AtSeed DEF DecodeInv, Requested
<1>7. PICK read : read = Forward(kv, Seed, Pos + 1)
  OBVIOUS
<1>8. /\ read \in States /\ TargetAt(read, Text, Pos + 1) /\ read.rows[Pos + 1] = Text
      /\ read.draftRows = kv.draftRows /\ read.pending = kv.pending /\ Choice(Text, Recent(Text)) \in Tok
  BY <1>1, <1>7, SeedRead
<1>9. PICK text, target : text = Text /\ target = Choice(Text, Recent(Text))
  OBVIOUS
<1>10. PICK n \in Nat : n = Len(text) /\ n = Pos + 1 /\ n \in 1 .. MaxSeqLen /\ Len(gen.prompt) <= n /\ text = SubSeq(text, 1, n)
  <2>1. Len(text) = Pos + 1 /\ Pos + 1 \in Nat /\ Pos + 1 \in 1 .. MaxSeqLen /\ text = SubSeq(text, 1, Pos + 1)
    BY <1>4, <1>5, <1>9, DecodeAssumption
  <2>2. Len(gen.prompt) \in Nat
    BY <1>4, DecodeAssumption, LenProperties
  <2>3. Len(gen.prompt) <= Pos + 1
    BY <1>4, <2>2
  <2> QED BY <2>1, <2>3
<1>11. PICK c : c = (IF gen.seeded THEN [read EXCEPT !.pending = text] ELSE CatchUp(read, Seed, n, text)) /\ kv' = c
  BY <1>7, <1>8, <1>9, <1>10 DEF Serial
<1>12. c \in States /\ SameTarget(c, read) /\ HeadAt(c, text, n)
  <2>1. CASE gen.seeded
    <3>1. c = [read EXCEPT !.pending = text]
      BY <1>11, <2>1
    <3>2. c \in States /\ SameTarget(c, read) /\ c.draftRows = read.draftRows /\ c.pending = text
      BY <1>4, <1>8, <1>9, <3>1 DEF States, SameTarget
    <3>3. \A i \in 1 .. Pos : kv.draftRows[i] = SubSeq(text, 1, i)
      BY <1>6, <1>9 DEF HeadAt
    <3>4. kv.draftRows[n] = text /\ text = SubSeq(text, 1, n)
      BY <1>6, <1>9, <1>10, <2>1
    <3>5. ASSUME NEW i \in 1 .. n PROVE c.draftRows[i] = SubSeq(text, 1, i)
      <4>1. i \in 1 .. Pos \/ i = n
        BY <1>4, <1>10
      <4> QED BY <1>8, <3>2, <3>3, <3>4, <4>1
    <3> QED BY <3>2, <3>4, <3>5 DEF HeadAt
  <2>2. CASE ~gen.seeded
    <3>1. c = CatchUp(read, Seed, n, text)
      BY <1>11, <2>2
    <3>2. PICK p \in Nat : p = Pos
      BY <1>4
    <3>3. HeadAt(read, text, p)
      BY <1>6, <1>8, <1>9, <3>2 DEF HeadAt
    <3>4. text \in Seq(Tok) /\ p < Len(text) /\ p < MaxSeqLen /\ Seed = text[p + 1] /\ n = p + 1 /\ text = SubSeq(text, 1, n)
      BY <1>4, <1>5, <1>9, <1>10, <3>2, DecodeAssumption
    <3> QED BY <1>8, <3>1, <3>3, <3>4, CatchUpAt
  <2> QED BY <2>1, <2>2
<1>13. TargetAt(c, text, n)
  BY <1>8, <1>9, <1>10, <1>12 DEF TargetAt, SameTarget
<1>14. PICK h : h = [gen EXCEPT !.resident = text, !.seeded = FALSE]
  OBVIOUS
<1>15. /\ h \in Gens /\ h.prompt = gen.prompt /\ h.mtp = gen.mtp /\ h.max = gen.max /\ h.len = gen.len
       /\ h.resident = text /\ h.generated = gen.generated /\ h.recent = gen.recent /\ h.seeded = FALSE
       /\ h.drafts = gen.drafts /\ h.drafts \in Seq(Tok)
  BY <1>4, <1>9, <1>14 DEF Gens
<1>16. TextOf(h) = text /\ h.recent = Recent(text) /\ text \in Seq(Tok) /\ target \in Tok
  BY <1>4, <1>8, <1>9, <1>15 DEF TextOf, Text
<1>17. Outside(c, h, "end")
  <2>1. Len(h.resident) = n /\ n <= n
    BY <1>10, <1>15
  <2>2. gen.mtp => recurrent
    BY <1>2 DEF Outside
  <2> QED BY <1>4, <1>10, <1>12, <1>13, <1>15, <1>16, <2>1, <2>2 DEF Outside
<1>18. \/ gen' = [h EXCEPT !.next = target, !.drafts = <<>>] /\ step' = "emit"
       \/ /\ h.drafts # <<>> /\ gen' = Keep([h EXCEPT !.drafts = Tail(@)], target)
          /\ step' = IF Full(gen', Pos + 1) THEN "end" ELSE "serial"
       \/ gen' = h /\ step' = "end"
  BY <1>4, <1>5, <1>7, <1>8, <1>9, <1>14 DEF Serial
<1>19. CASE gen' = [h EXCEPT !.next = target, !.drafts = <<>>] /\ step' = "emit"
  <2>1. PICK g : g = [h EXCEPT !.next = target, !.drafts = <<>>] /\ gen' = g
    BY <1>19
  <2>2. /\ g \in Gens /\ g.prompt = h.prompt /\ g.mtp = h.mtp /\ g.generated = h.generated /\ g.recent = h.recent
        /\ g.resident = h.resident /\ g.next = target
    BY <1>15, <1>16, <2>1, EmptySeq DEF Gens
  <2>3. TextOf(g) = TextOf(h)
    BY <2>2 DEF TextOf
  <2>4. Outside(c, g, "emit")
    BY <1>9, <1>15, <1>16, <1>17, <2>2, <2>3 DEF Outside
  <2> QED BY <1>1, <1>2, <1>3, <1>11, <1>19, <2>1, <2>4, OutsideBlock
<1>20. CASE /\ h.drafts # <<>> /\ gen' = Keep([h EXCEPT !.drafts = Tail(@)], target)
            /\ step' = IF Full(gen', Pos + 1) THEN "end" ELSE "serial"
  <2>1. PICK k : k = [h EXCEPT !.drafts = Tail(@)]
    OBVIOUS
  <2>2. Tail(h.drafts) \in Seq(Tok)
    BY <1>15, <1>20, HeadTailProperties
  <2>3. /\ k \in Gens /\ k.prompt = h.prompt /\ k.mtp = h.mtp /\ k.max = h.max /\ k.len = h.len
        /\ k.resident = h.resident /\ k.generated = h.generated /\ k.recent = h.recent /\ k.seeded = h.seeded
    BY <1>15, <2>1, <2>2 DEF Gens
  <2>4. TextOf(k) = text /\ k.recent = Recent(TextOf(k))
    BY <1>16, <2>3 DEF TextOf
  <2>5. PICK g, s : g = Keep(k, target) /\ gen' = g /\ s = (IF Full(g, Pos + 1) THEN "end" ELSE "serial") /\ step' = s
    BY <1>20, <2>1
  <2>6. /\ g \in Gens /\ TextOf(g) = Append(TextOf(k), target) /\ g.recent = Recent(TextOf(g))
        /\ g.generated # <<>> /\ Last(g.generated) = target
        /\ g.prompt = k.prompt /\ g.mtp = k.mtp /\ g.max = k.max /\ g.len = k.len /\ g.resident = k.resident
        /\ g.seeded = k.seeded
    BY <1>16, <2>3, <2>4, <2>5, KeepAt, ZenonT(90)
  <2>7. /\ g.prompt = gen.prompt /\ g.mtp = gen.mtp /\ g.resident = text /\ g.seeded = FALSE
        /\ TextOf(g) = Append(text, target)
    BY <1>15, <2>3, <2>4, <2>6
  <2>8. /\ Len(TextOf(g)) = n + 1 /\ SubSeq(TextOf(g), 1, n) = text
    BY <1>10, <1>16, <2>7, NextToken
  <2>9. s = "serial" => n < g.len /\ Len(g.generated) < g.max
    <3>1. Len(g.generated) \in Nat /\ g.len \in Nat /\ g.max \in Nat
      BY <1>4, <1>15, <2>3, <2>6, LenProperties, DecodeAssumption DEF Gens
    <3>2. ~Full(g, Pos + 1) => ~(Len(g.generated) >= g.max) /\ ~(n >= g.len)
      BY <1>10 DEF Full
    <3> QED BY <2>5, <3>1, <3>2
  <2>10. s \in {"serial", "end"} /\ n <= n + 1
    BY <2>5
  <2>11. Outside(c, g, s)
    <3>1. gen.prompt \in Prompts /\ (gen.mtp => recurrent) /\ gen.mtp
      BY <1>2, <1>6 DEF Outside
    <3> QED BY <1>10, <1>12, <1>13, <2>6, <2>7, <2>8, <2>9, <2>10, <3>1 DEF Outside
  <2> QED BY <1>1, <1>2, <1>3, <1>11, <2>5, <2>11, OutsideBlock
<1>21. CASE gen' = h /\ step' = "end"
  BY <1>1, <1>2, <1>3, <1>11, <1>17, <1>21, OutsideBlock
<1> QED BY <1>18, <1>19, <1>20, <1>21

\* The state returns to the boundary before the block.
LEMMA Restored ==
    ASSUME NEW c \in States, recurrent \in BOOLEAN, NEW checkpoint \in Seq(Tok), NEW pending \in Seq(Tok),
           NEW b, b.checkpoint = checkpoint, b.pending = pending
    PROVE  /\ Restore(c, b) \in States /\ Restore(c, b).rows = c.rows /\ Restore(c, b).draftRows = c.draftRows
           /\ recurrent => Restore(c, b).rec = checkpoint /\ Restore(c, b).pending = pending
<1>1. CASE recurrent
  <2>1. PICK d : d = Restore(c, b)
    OBVIOUS
  <2>2. d = [c EXCEPT !.rec = checkpoint, !.pending = pending]
    BY <1>1, <2>1 DEF Restore
  <2> QED BY <1>1, <2>1, <2>2 DEF States
<1>2. CASE ~recurrent
  BY <1>2 DEF Restore
<1> QED BY <1>1, <1>2

LEMMA PrepareCancelledKeeps ==
    ASSUME DecodeInv, NEW ts \in Seq(Tok), NEW seeded \in BOOLEAN, PrepareCancelled(ts, seeded)
    PROVE  DecodeInv'
<1> DEFINE n == Len(ts)
           c == IF seeded THEN Drafted(kv, n) ELSE kv
           torn == [c EXCEPT !.rec = Broken,
                             !.rows = [i \in DOMAIN @ |-> IF i \in Pos + 1 .. Pos + n + 1 THEN Broken ELSE @[i]]]
           b == [checkpoint |-> c.rec, pending |-> c.pending]
<1>1. /\ step = "draft" /\ step' = "end" /\ recurrent' = recurrent /\ prefix' = prefix /\ block' = block /\ gen' = gen
      /\ kv' \in {c, Restore(torn, b)} /\ (seeded => gen.mtp)
  BY DEF PrepareCancelled, MayDraft
<1>2. Outside(kv, gen, "draft") /\ ~block.active
  BY <1>1, StaysOutside
<1>3. /\ recurrent \in BOOLEAN /\ block \in Blocks /\ prefix \in [tokens : Seq(Tok), prompt : Nat, pending : Seq(Tok)]
  BY DEF DecodeInv, DecodeTypes
<1>4. /\ kv \in States /\ gen.resident \in Seq(Tok) /\ Pos \in Nat /\ Pos = Len(gen.resident) /\ n \in Nat
      /\ (gen.mtp => recurrent)
  BY <1>1, InRequest, LenProperties DEF Pos
<1>5. /\ Seed \in Tok /\ Pos + 1 <= MaxSeqLen /\ TargetAt(kv, gen.resident, Pos) /\ (gen.mtp => HeadAt(kv, gen.resident, Pos))
  BY <1>1, AtSeed
<1>6. /\ c \in States /\ SameTarget(c, kv) /\ (gen.mtp => HeadAt(c, gen.resident, Pos))
  <2>1. CASE seeded
    BY <1>1, <1>4, <1>5, <2>1, DraftedAt
  <2>2. CASE ~seeded
    BY <1>4, <1>5, <2>2 DEF SameTarget
  <2> QED BY <2>1, <2>2
<1>7. TargetAt(c, gen.resident, Pos)
  BY <1>5, <1>6 DEF TargetAt, SameTarget
<1> HIDE DEF c, n
<1>8. PICK rows : rows = [i \in DOMAIN c.rows |-> IF i \in Pos + 1 .. Pos + n + 1 THEN Broken ELSE c.rows[i]]
  OBVIOUS
<1>9. c.rows \in [1 .. MaxSeqLen -> Seq(Tok)] /\ c.rec \in Seq(Tok) /\ c.pending \in Seq(Tok) /\ Broken \in Seq(Tok)
  BY <1>6, EmptySeq DEF States, Rows, Broken
<1>10. rows \in Rows
  BY <1>8, <1>9 DEF Rows
<1>11. torn = [c EXCEPT !.rec = Broken, !.rows = rows]
  BY <1>8
<1>12. torn \in States /\ torn.rows = rows /\ torn.draftRows = c.draftRows
  BY <1>6, <1>9, <1>10, <1>11 DEF States
<1>13. \A i \in 1 .. Pos : rows[i] = c.rows[i]
  BY <1>4, <1>5, <1>8, <1>9, DecodeAssumption
<1> HIDE DEF torn
<1>14. b.checkpoint = c.rec /\ b.pending = c.pending
  OBVIOUS
<1> HIDE DEF b
<1>15. PICK d : d = Restore(torn, b)
  OBVIOUS
<1>16. d \in States /\ d.rows = rows /\ d.draftRows = c.draftRows /\ (recurrent => d.rec = c.rec /\ d.pending = c.pending)
  BY <1>3, <1>9, <1>12, <1>14, <1>15, Restored
<1>17. TargetAt(d, gen.resident, Pos) /\ (gen.mtp => HeadAt(d, gen.resident, Pos))
  BY <1>4, <1>6, <1>7, <1>13, <1>16 DEF TargetAt, HeadAt
<1>18. Outside(c, gen, "end") /\ Outside(d, gen, "end")
  BY <1>2, <1>4, <1>6, <1>7, <1>16, <1>17 DEF Outside
<1>19. Outside(kv', gen, "end")
  BY <1>1, <1>15, <1>18
<1> QED BY <1>1, <1>2, <1>3, <1>19, OutsideBlock

LEMMA EndKeeps ==
    ASSUME DecodeInv, End
    PROVE  DecodeInv'
<1>1. /\ step = "end" /\ step' = "idle" /\ recurrent' = recurrent /\ kv' = kv /\ block' = block /\ gen' = NoGen
      /\ prefix' = [tokens |-> gen.resident, prompt |-> Len(gen.prompt), pending |-> IF gen.mtp THEN kv.pending ELSE NoMTP]
  BY DEF End
<1>2. Outside(kv, gen, "end") /\ ~block.active
  BY <1>1, StaysOutside
<1>3. /\ recurrent \in BOOLEAN /\ kv \in States /\ block \in Blocks /\ gen.resident \in Seq(Tok) /\ gen.prompt \in Seq(Tok)
      /\ Pos = Len(gen.resident) /\ Pos \in Nat /\ Pos <= MaxSeqLen /\ Len(gen.prompt) <= Pos
  BY <1>1, InRequest DEF Pos
<1>4. kv.pending \in Seq(Tok) /\ NoMTP \in Seq(Tok) /\ Len(gen.prompt) \in Nat
  BY <1>3, EmptySeq, LenProperties DEF States, NoMTP
<1>5. NoGen \in Gens
  BY DecodeAssumption, EmptySeq DEF NoGen, Gens
<1>6. DecodeTypes'
  BY <1>1, <1>3, <1>4, <1>5 DEF DecodeTypes
<1>7. Advertised'
  <2>1. PICK p : p = prefix'
    OBVIOUS
  <2>2. /\ p.tokens = gen.resident /\ p.prompt = Len(gen.prompt)
        /\ p.pending # NoMTP => gen.mtp /\ p.pending = kv.pending
    BY <1>1, <2>1
  <2>3. /\ TargetAt(kv, gen.resident, Len(gen.resident))
        /\ gen.mtp => HeadAt(kv, gen.resident, Len(gen.resident))
    BY <1>2 DEF Outside
  <2>4. gen.mtp => kv.pending = gen.resident
    BY <1>3, <2>3, WholeText DEF HeadAt
  <2>5. TargetAt(kv, p.tokens, Len(p.tokens)) /\ (p.pending # NoMTP => p.pending = p.tokens /\ HeadAt(kv, p.tokens, Len(p.tokens)))
    BY <2>2, <2>3, <2>4
  <2>6. Len(p.tokens) <= MaxSeqLen /\ p.prompt <= Len(p.tokens)
    BY <1>3, <2>2
  <2> QED BY <1>1, <1>2, <2>1, <2>5, <2>6 DEF Advertised, TargetAt, HeadAt
<1>8. Requested' /\ Settled' /\ Speculating'
  BY <1>1, <1>2 DEF Requested, Settled, Speculating
<1> QED BY <1>6, <1>7, <1>8 DEF DecodeInv

\* What may be reused of the advertised text for a prompt.
LEMMA ReusableAt ==
    ASSUME DecodeInv, step = "idle", NEW prompt \in Seq(Tok), Len(prompt) >= 1, NEW mtp \in BOOLEAN, mtp => recurrent,
           NEW k, k = Reusable(prompt, mtp)
    PROVE  /\ k \in Nat /\ k <= Len(prompt) /\ k <= Len(prefix.tokens) /\ k <= MaxSeqLen
           /\ SubSeq(prompt, 1, k) = SubSeq(prefix.tokens, 1, k)
           /\ recurrent => k = 0 \/ (k = Len(prefix.tokens) /\ ~(k = Len(prompt) /\ prefix.prompt # k))
           /\ mtp => k = 0 \/ prefix.pending # NoMTP
<1>1. prefix.tokens \in Seq(Tok) /\ Len(prefix.tokens) \in Nat /\ Len(prompt) \in Nat /\ Len(prefix.tokens) <= MaxSeqLen
  BY LenProperties DEF DecodeInv, DecodeTypes, Advertised
<1>2. PICK a, b : a = prompt /\ b = prefix.tokens
  OBVIOUS
<1>3. PICK m : m = Len(LongestCommonPrefix({a, b}))
  OBVIOUS
<1>4. m \in Nat /\ m <= Len(a) /\ m <= Len(b) /\ SubSeq(a, 1, m) = SubSeq(b, 1, m)
  <2>1. a \in Seq(Tok) /\ b \in Seq(Tok)
    BY <1>1, <1>2
  <2> QED BY <1>3, <2>1, CommonBeginning
<1>5. SubSeq(a, 1, 0) = SubSeq(b, 1, 0)
  BY SubSeqEmpty
<1>6. k = IF recurrent /\ \/ m # Len(b)
                          \/ m = Len(a) /\ prefix.prompt # m
                          \/ mtp /\ prefix.pending = NoMTP
          THEN 0 ELSE m
  BY <1>2, <1>3 DEF Reusable
<1>7. CASE k = 0
  BY <1>1, <1>2, <1>5, <1>7, DecodeAssumption
<1>8. CASE k # 0
  <2>1. k = m /\ ~(recurrent /\ \/ m # Len(b)
                                \/ m = Len(a) /\ prefix.prompt # m
                                \/ mtp /\ prefix.pending = NoMTP)
    BY <1>6, <1>8
  <2>2. recurrent => k = Len(b) /\ ~(k = Len(a) /\ prefix.prompt # k) /\ ~(mtp /\ prefix.pending = NoMTP)
    BY <2>1
  <2>3. k <= MaxSeqLen
    BY <1>1, <1>2, <1>4, <2>1, DecodeAssumption
  <2> QED BY <1>2, <1>4, <2>1, <2>2, <2>3
<1> QED BY <1>7, <1>8

\* The prefill starts from a boundary of the prompt.
LEMMA BoundaryAt ==
    ASSUME DecodeInv, step = "idle", NEW prompt \in Seq(Tok), Len(prompt) >= 1,
           NEW mtp \in BOOLEAN, NEW lookup \in BOOLEAN, mtp => recurrent,
           NEW n, n = (LET k == Reusable(prompt, mtp) IN IF k = Len(prompt) /\ prefix.prompt # k THEN k - 1 ELSE k),
           NEW c, c = Boundary(n, mtp, lookup)
    PROVE  /\ n \in Nat /\ n <= Len(prompt) /\ c \in States
           /\ TargetAt(c, prompt, n) /\ (mtp => HeadAt(c, prompt, n))
<1>1. PICK k : k = Reusable(prompt, mtp) /\ n = IF k = Len(prompt) /\ prefix.prompt # k THEN k - 1 ELSE k
  OBVIOUS
<1>2. /\ k \in Nat /\ k <= Len(prompt) /\ k <= Len(prefix.tokens) /\ k <= MaxSeqLen
      /\ SubSeq(prompt, 1, k) = SubSeq(prefix.tokens, 1, k)
      /\ recurrent => k = 0 \/ (k = Len(prefix.tokens) /\ ~(k = Len(prompt) /\ prefix.prompt # k))
      /\ mtp => k = 0 \/ prefix.pending # NoMTP
  BY <1>1, ReusableAt
<1>3. Len(prompt) \in Nat /\ MaxSeqLen \in Nat /\ prefix.tokens \in Seq(Tok) /\ Len(prefix.tokens) \in Nat
  BY LenProperties, DecodeAssumption DEF DecodeInv, DecodeTypes
<1>4. n \in Nat /\ n <= k /\ n <= Len(prompt) /\ n <= Len(prefix.tokens) /\ n <= MaxSeqLen
  BY <1>1, <1>2, <1>3
<1>5. recurrent => n = 0 \/ (n = k /\ n = Len(prefix.tokens))
  BY <1>1, <1>2, <1>3
<1>6. mtp => n = 0 \/ prefix.pending # NoMTP
  <2>1. k = 0 => n = 0
    BY <1>2, <1>4
  <2>2. mtp => k = 0 \/ prefix.pending # NoMTP
    BY <1>2
  <2> QED BY <2>1, <2>2
<1>7. SubSeq(prompt, 1, n) = SubSeq(prefix.tokens, 1, n)
  <2>1. SubSeq(SubSeq(prompt, 1, k), 1, n) = SubSeq(prompt, 1, n)
    BY <1>2, <1>4, BeginningOfBeginning
  <2>2. SubSeq(SubSeq(prefix.tokens, 1, k), 1, n) = SubSeq(prefix.tokens, 1, n)
    BY <1>2, <1>3, <1>4, BeginningOfBeginning
  <2> QED BY <1>2, <2>1, <2>2
<1>8. /\ kv \in States /\ recurrent \in BOOLEAN /\ prefix.pending \in Seq(Tok)
      /\ TargetAt(kv, prefix.tokens, Len(prefix.tokens))
      /\ prefix.pending # NoMTP => prefix.pending = prefix.tokens /\ HeadAt(kv, prefix.tokens, Len(prefix.tokens))
  BY DEF DecodeInv, DecodeTypes, Advertised
<1>9. kv.rows \in [1 .. MaxSeqLen -> Seq(Tok)] /\ kv.draftRows \in [1 .. MaxSeqLen -> Seq(Tok)]
      /\ kv.rec \in Seq(Tok) /\ kv.pending \in Seq(Tok) /\ Broken \in Seq(Tok) /\ <<>> \in Seq(Tok)
  BY <1>8, EmptySeq DEF States, Rows, Broken
<1>10. PICK rows, draftRows, rec, pending, top :
         /\ rows = Upto(kv.rows, n) /\ top = (IF mtp \/ lookup THEN n ELSE 0) /\ draftRows = Upto(kv.draftRows, top)
         /\ rec = (IF n = 0 THEN <<>> ELSE kv.rec)
         /\ pending = IF ~mtp THEN kv.pending ELSE IF n = 0 THEN <<>> ELSE prefix.pending
  OBVIOUS
<1>11. c = [kv EXCEPT !.rec = rec, !.rows = rows, !.draftRows = draftRows, !.pending = pending]
  BY <1>10 DEF Boundary
<1>12. /\ rows \in Rows /\ draftRows \in Rows
       /\ \A i \in 1 .. n : rows[i] = kv.rows[i]
       /\ mtp => \A i \in 1 .. n : draftRows[i] = kv.draftRows[i]
  BY <1>3, <1>4, <1>9, <1>10, SMTT(60) DEF Rows, Upto
<1>13. rec \in Seq(Tok) /\ pending \in Seq(Tok)
  BY <1>8, <1>9, <1>10
<1>14. /\ c \in States /\ c.rows = rows /\ c.draftRows = draftRows /\ c.rec = rec /\ c.pending = pending
  BY <1>8, <1>11, <1>12, <1>13 DEF States
<1>15. ASSUME NEW i \in 1 .. n PROVE SubSeq(prompt, 1, i) = SubSeq(prefix.tokens, 1, i) /\ i \in 1 .. Len(prefix.tokens)
  <2>1. i \in Nat /\ i <= n /\ i \in 1 .. Len(prefix.tokens)
    BY <1>3, <1>4
  <2>2. SubSeq(SubSeq(prompt, 1, n), 1, i) = SubSeq(prompt, 1, i)
    BY <1>4, <2>1, BeginningOfBeginning
  <2>3. SubSeq(SubSeq(prefix.tokens, 1, n), 1, i) = SubSeq(prefix.tokens, 1, i)
    BY <1>3, <1>4, <2>1, BeginningOfBeginning
  <2> QED BY <1>7, <2>1, <2>2, <2>3
<1>16. n = 0 => SubSeq(prompt, 1, n) = <<>>
  BY SubSeqEmpty
<1>17. n = Len(prefix.tokens) => SubSeq(prompt, 1, n) = prefix.tokens
  BY <1>3, <1>7, WholeText
<1>18. TargetAt(c, prompt, n)
  <2>1. \A i \in 1 .. n : c.rows[i] = SubSeq(prompt, 1, i)
    <3>1. \A i \in 1 .. Len(prefix.tokens) : kv.rows[i] = SubSeq(prefix.tokens, 1, i)
      BY <1>8 DEF TargetAt
    <3> QED BY <1>12, <1>14, <1>15, <3>1
  <2>2. recurrent => c.rec = SubSeq(prompt, 1, n)
    <3>1. recurrent => kv.rec = prefix.tokens
      BY <1>3, <1>8, WholeText DEF TargetAt
    <3> QED BY <1>5, <1>10, <1>14, <1>16, <1>17, <3>1
  <2> QED BY <2>1, <2>2 DEF TargetAt
<1>19. ASSUME mtp PROVE HeadAt(c, prompt, n)
  <2>1. recurrent
    BY <1>19
  <2>2. c.pending = SubSeq(prompt, 1, n)
    BY <1>5, <1>6, <1>8, <1>10, <1>14, <1>16, <1>17, <1>19, <2>1
  <2>3. ASSUME NEW i \in 1 .. n PROVE c.draftRows[i] = SubSeq(prompt, 1, i)
    <3>1. n # 0
      BY <1>4
    <3>2. \A j \in 1 .. Len(prefix.tokens) : kv.draftRows[j] = SubSeq(prefix.tokens, 1, j)
      BY <1>6, <1>8, <1>19, <3>1 DEF HeadAt
    <3> QED BY <1>12, <1>14, <1>15, <1>19, <3>2
  <2> QED BY <2>2, <2>3 DEF HeadAt
<1> QED BY <1>4, <1>14, <1>18, <1>19

LEMMA BeginKeeps ==
    ASSUME DecodeInv, NEW prompt \in Prompts, NEW mtp \in BOOLEAN, NEW lookup \in BOOLEAN, NEW verify \in BOOLEAN,
           NEW max \in MaxTokensSet, Begin(prompt, mtp, lookup, verify, max)
    PROVE  DecodeInv'
<1>1. PICK n, ts, c :
        /\ n = (LET k == Reusable(prompt, mtp) IN IF k = Len(prompt) /\ prefix.prompt # k THEN k - 1 ELSE k)
        /\ ts = SubSeq(prompt, n + 1, Len(prompt))
        /\ c = Read(Boundary(n, mtp, lookup), ts, n, mtp)
        /\ kv' = c
        /\ gen' = [NoGen EXCEPT !.prompt = prompt, !.mtp = mtp, !.lookup = lookup, !.verify = verify,
                     !.max = max, !.len = CacheLen(Len(prompt), max), !.recent = Recent(prompt), !.resident = prompt,
                     !.next = Choice(c.rows[Len(prompt)], Recent(prompt))]
  <2>1. PICK n : n = (LET k == Reusable(prompt, mtp) IN IF k = Len(prompt) /\ prefix.prompt # k THEN k - 1 ELSE k)
    OBVIOUS
  <2>2. PICK ts : ts = SubSeq(prompt, n + 1, Len(prompt))
    OBVIOUS
  <2>3. PICK c : c = Read(Boundary(n, mtp, lookup), ts, n, mtp)
    OBVIOUS
  <2> QED BY <2>1, <2>2, <2>3 DEF Begin
<1>2. /\ step = "idle" /\ (mtp => recurrent) /\ step' = "emit" /\ recurrent' = recurrent /\ block' = block
      /\ prefix' = [tokens |-> <<>>, prompt |-> 0, pending |-> NoMTP]
  BY DEF Begin
<1>3. /\ recurrent \in BOOLEAN /\ block \in Blocks /\ ~block.active
  BY <1>2 DEF DecodeInv, DecodeTypes, Advertised
<1>4. PICK len \in Nat : len = Len(prompt) /\ len >= 1 /\ len <= MaxSeqLen
  <2>1. Len(prompt) \in Nat /\ Len(prompt) >= 1 /\ Len(prompt) <= MaxSeqLen
    BY DecodeAssumption, LenProperties
  <2> QED BY <2>1
<1>5. prompt \in Seq(Tok) /\ max \in Nat /\ MaxSeqLen \in Nat
  BY DecodeAssumption
<1>6. PICK from : from = Boundary(n, mtp, lookup)
  OBVIOUS
<1>7. n \in Nat /\ n <= len /\ from \in States /\ TargetAt(from, prompt, n) /\ (mtp => HeadAt(from, prompt, n))
  BY <1>1, <1>2, <1>4, <1>5, <1>6, BoundaryAt
<1>8. PICK l \in Nat : l = len - n /\ n + l = len
  <2>1. len - n \in Nat /\ n + (len - n) = len
    BY <1>7
  <2> QED BY <2>1
<1>9. ts \in Seq(Tok) /\ Len(ts) = l /\ \A i \in 1 .. l : ts[i] = prompt[n + i]
  <2>1. \A i \in n + 1 .. len : prompt[i] \in Tok
    <3>1. \A i \in 1 .. Len(prompt) : prompt[i] \in Tok
      BY <1>5, ElementOfSeq
    <3>2. \A i \in n + 1 .. len : i \in 1 .. Len(prompt)
      BY <1>4, <1>7
    <3> QED BY <3>1, <3>2
  <2>2. PICK first \in Nat : first = n + 1
    <3>1. n + 1 \in Nat
      BY <1>7
    <3> QED BY <3>1
  <2>3. /\ SubSeq(prompt, first, len) \in Seq(Tok)
        /\ Len(SubSeq(prompt, first, len)) = IF first <= len THEN len - first + 1 ELSE 0
        /\ \A i \in 1 .. len - first + 1 : SubSeq(prompt, first, len)[i] = prompt[first + i - 1]
    BY <2>1, <2>2, SubSeqProperties
  <2>4. ts = SubSeq(prompt, first, len)
    BY <1>1, <1>4, <2>2
  <2>5. Len(ts) = l
    BY <1>7, <1>8, <2>2, <2>3, <2>4
  <2>6. ASSUME NEW i \in 1 .. l PROVE ts[i] = prompt[n + i]
    <3>1. i \in 1 .. len - first + 1 /\ first + i - 1 = n + i
      BY <1>7, <1>8, <2>2
    <3> QED BY <2>3, <2>4, <3>1
  <2> QED BY <2>3, <2>4, <2>5, <2>6
<1>10. c = Read(from, ts, n, mtp)
  BY <1>1, <1>6
<1>11. c \in States /\ TargetAt(c, prompt, n + l) /\ (mtp => HeadAt(c, prompt, n + l))
  <2>1. n + l <= Len(prompt) /\ n + l <= MaxSeqLen /\ l = Len(ts)
    BY <1>4, <1>8, <1>9
  <2> QED BY <1>3, <1>5, <1>7, <1>9, <1>10, <2>1, ReadAt
<1>12. SubSeq(prompt, 1, len) = prompt
  BY <1>4, <1>5, WholeText
<1>13. c.rows[len] = prompt
  <2>1. len \in 1 .. n + l
    BY <1>4, <1>8
  <2>2. c.rows[len] = SubSeq(prompt, 1, len)
    BY <1>11, <2>1 DEF TargetAt
  <2> QED BY <1>12, <2>2
<1>14. PICK next, recent : next = Choice(prompt, Recent(prompt)) /\ recent = Recent(prompt)
  OBVIOUS
<1>15. next \in Tok /\ recent \in Seq(Tok)
  <2>1. next \in Tok
    BY <1>4, <1>5, <1>14, ChoiceIn
  <2>2. recent \in Seq(Tok)
    BY <1>4, <1>5, <1>14, WindowSize, RecentOf
  <2> QED BY <2>1, <2>2
<1>16. PICK top : top = CacheLen(Len(prompt), max)
  OBVIOUS
<1>17. top \in 0 .. MaxSeqLen
  <2>1. top = IF max >= MaxSeqLen - len - 1 THEN MaxSeqLen ELSE len + max + 1
    BY <1>4, <1>16 DEF CacheLen
  <2> QED BY <1>4, <1>5, <2>1
<1>18. PICK g : g = [prompt |-> prompt, mtp |-> mtp, lookup |-> lookup, verify |-> verify, max |-> max, len |-> top,
                     generated |-> <<>>, recent |-> recent, resident |-> prompt, next |-> next, drafts |-> <<>>,
                     seeded |-> FALSE]
  OBVIOUS
<1>19. gen' = g
  <2>1. Choice(c.rows[Len(prompt)], Recent(prompt)) = next
    BY <1>4, <1>13, <1>14
  <2>2. gen' = [NoGen EXCEPT !.prompt = prompt, !.mtp = mtp, !.lookup = lookup, !.verify = verify, !.max = max,
                  !.len = top, !.recent = recent, !.resident = prompt, !.next = next]
    BY <1>1, <1>14, <1>16, <2>1
  <2>3. PICK h : h = [NoGen EXCEPT !.prompt = prompt, !.mtp = mtp, !.lookup = lookup, !.verify = verify, !.max = max,
                        !.len = top, !.recent = recent, !.resident = prompt, !.next = next]
    OBVIOUS
  <2>4. h = [prompt |-> prompt, mtp |-> mtp, lookup |-> lookup, verify |-> verify, max |-> max, len |-> top,
             generated |-> <<>>, recent |-> recent, resident |-> prompt, next |-> next, drafts |-> <<>>, seeded |-> FALSE]
    BY <2>3 DEF NoGen
  <2> QED BY <1>18, <2>2, <2>3, <2>4
<1>20. g \in Gens
  BY <1>5, <1>15, <1>17, <1>18, EmptySeq DEF Gens
<1>21. /\ g.prompt = prompt /\ g.mtp = mtp /\ g.generated = <<>> /\ g.recent = recent /\ g.resident = prompt /\ g.next = next
  BY <1>18
<1>22. TextOf(g) = prompt
  BY <1>5, <1>21, ConcatEmptySeq DEF TextOf
<1>23. Outside(c, g, "emit")
  <2>1. Len(prompt) \in 1 .. MaxSeqLen /\ Len(prompt) <= Len(prompt) /\ prompt = SubSeq(prompt, 1, Len(prompt))
    BY <1>4, <1>5, <1>12
  <2>2. TargetAt(c, prompt, Len(prompt)) /\ (mtp => HeadAt(c, prompt, Len(prompt)))
    BY <1>4, <1>8, <1>11
  <2> QED BY <1>2, <1>11, <1>14, <1>20, <1>21, <1>22, <2>1, <2>2 DEF Outside
<1>24. prefix' \in [tokens : Seq(Tok), prompt : Nat, pending : Seq(Tok)]
  BY <1>2, EmptySeq DEF NoMTP
<1> QED BY <1>1, <1>2, <1>3, <1>19, <1>23, <1>24, OutsideBlock

\* The resident tokens of a request with locals g and the first i inputs of a block b.
Beyond(g, b, i) == g.resident \o SubSeq(b.inputs, 1, i)

\* What holds of any request.
RequestOf(g) ==
    /\ g \in Gens
    /\ g.mtp => recurrent
    /\ g.prompt \in Prompts /\ Len(g.prompt) <= Len(g.resident)
    /\ Len(g.resident) \in 1 .. MaxSeqLen /\ Len(g.resident) <= Len(TextOf(g))
    /\ g.resident = SubSeq(TextOf(g), 1, Len(g.resident)) /\ g.recent = Recent(TextOf(g))

\* What holds of a block whatever was accepted of it.
BlockRows(c, g, b) ==
    /\ Len(b.inputs) >= 2 /\ Len(g.resident) + Len(b.inputs) <= MaxSeqLen
    /\ Len(b.hidden) = Len(b.inputs) /\ Len(b.predictions) = Len(b.inputs)
    /\ TargetAt(c, Beyond(g, b, Len(b.inputs)), Len(g.resident) + Len(b.inputs))
    /\ recurrent => b.checkpoint = g.resident
    /\ b.seeded => g.mtp /\ c.draftRows[Len(g.resident) + 1] = Beyond(g, b, 1)
    /\ g.mtp => /\ b.pending = g.resident /\ c.pending = g.resident
                /\ \A i \in 1 .. Len(g.resident) : c.draftRows[i] = SubSeq(g.resident, 1, i)
    /\ \A i \in 1 .. Len(b.inputs) : /\ b.hidden[i] = Beyond(g, b, i)
                                     /\ b.predictions[i] = Choice(Beyond(g, b, i), Recent(Beyond(g, b, i)))

\* What was accepted of it is emitted.
BlockAt(g, b, s) ==
    /\ s = "verify" => b.checked + 1 < Len(b.inputs) /\ TextOf(g) = Beyond(g, b, b.checked + 1)
    /\ s = "finish" =>
         /\ b.keep \in 1 .. Len(b.inputs)
         /\ Len(g.resident) + b.keep <= Len(TextOf(g))
         /\ Beyond(g, b, b.keep) = SubSeq(TextOf(g), 1, Len(g.resident) + b.keep)
         /\ ~b.stop => TextOf(g) = Beyond(g, b, b.keep) /\ b.next = Choice(TextOf(g), Recent(TextOf(g)))

LEMMA InsideBlock ==
    ASSUME recurrent' = recurrent, recurrent \in BOOLEAN, kv' \in States, block' \in Blocks, block'.active,
           prefix' \in [tokens : Seq(Tok), prompt : Nat, pending : Seq(Tok)], step' \in {"verify", "finish"},
           RequestOf(gen'), BlockRows(kv', gen', block'), BlockAt(gen', block', step')
    PROVE  DecodeInv'
<1>1. /\ Text' = TextOf(gen') /\ Pos' = Len(gen'.resident) /\ Count' = Len(block'.inputs)
      /\ \A i : BlockText(i)' = Beyond(gen', block', i)
  BY DEF Text, TextOf, Pos, Count, BlockText, Beyond
<1>2. DecodeTypes'
  BY DEF DecodeTypes, RequestOf
<1>3. Advertised' /\ Settled'
  BY DEF Advertised, Settled
<1>4. Requested'
  BY <1>1 DEF Requested, RequestOf
<1>5. Speculating'
  <2>1. TargetAt(kv, BlockText(Count), Pos + Count)' =
          TargetAt(kv', Beyond(gen', block', Len(block'.inputs)), Len(gen'.resident) + Len(block'.inputs))
    BY DEF TargetAt, Pos, Count, BlockText, Beyond
  <2>2. /\ Len(block'.inputs) >= 2 /\ Len(gen'.resident) + Len(block'.inputs) <= MaxSeqLen
        /\ Len(block'.hidden) = Len(block'.inputs) /\ Len(block'.predictions) = Len(block'.inputs)
        /\ TargetAt(kv, BlockText(Count), Pos + Count)'
    BY <2>1 DEF BlockRows
  <2>3. /\ recurrent' => block'.checkpoint = gen'.resident
        /\ block'.seeded => gen'.mtp /\ kv'.draftRows[Len(gen'.resident) + 1] = Beyond(gen', block', 1)
        /\ gen'.mtp => /\ block'.pending = gen'.resident /\ kv'.pending = gen'.resident
                       /\ \A i \in 1 .. Len(gen'.resident) : kv'.draftRows[i] = SubSeq(gen'.resident, 1, i)
        /\ \A i \in 1 .. Len(block'.inputs) :
             /\ block'.hidden[i] = Beyond(gen', block', i)
             /\ block'.predictions[i] = Choice(Beyond(gen', block', i), Recent(Beyond(gen', block', i)))
    BY DEF BlockRows
  <2>4. /\ step' = "verify" => block'.checked + 1 < Len(block'.inputs) /\ TextOf(gen') = Beyond(gen', block', block'.checked + 1)
        /\ step' = "finish" =>
             /\ block'.keep \in 1 .. Len(block'.inputs)
             /\ Len(gen'.resident) + block'.keep <= Len(TextOf(gen'))
             /\ Beyond(gen', block', block'.keep) = SubSeq(TextOf(gen'), 1, Len(gen'.resident) + block'.keep)
             /\ ~block'.stop => /\ TextOf(gen') = Beyond(gen', block', block'.keep)
                                /\ block'.next = Choice(TextOf(gen'), Recent(TextOf(gen')))
    BY DEF BlockAt
  <2> QED BY <1>1, <2>2, <2>3, <2>4 DEF Speculating
<1> QED BY <1>2, <1>3, <1>4, <1>5 DEF DecodeInv

\* Inside a block all that holds.
LEMMA StaysInside ==
    ASSUME DecodeInv, step \in {"verify", "finish"}
    PROVE  /\ recurrent \in BOOLEAN /\ kv \in States /\ block \in Blocks /\ block.active
           /\ prefix \in [tokens : Seq(Tok), prompt : Nat, pending : Seq(Tok)]
           /\ RequestOf(gen) /\ BlockRows(kv, gen, block) /\ BlockAt(gen, block, step)
<1>1. step # "idle"
  OBVIOUS
<1>2. /\ Text = TextOf(gen) /\ Pos = Len(gen.resident) /\ Count = Len(block.inputs)
      /\ \A i : BlockText(i) = Beyond(gen, block, i)
  BY DEF Text, TextOf, Pos, Count, BlockText, Beyond
<1>3. DecodeTypes /\ Requested /\ Speculating
  BY DEF DecodeInv
<1>4. block.active
  BY <1>1, <1>3 DEF Requested
<1>5. RequestOf(gen)
  BY <1>1, <1>2, <1>3 DEF DecodeTypes, Requested, RequestOf
<1>6. BlockRows(kv, gen, block) /\ BlockAt(gen, block, step)
  BY <1>2, <1>3, <1>4 DEF Speculating, BlockRows, BlockAt
<1> QED BY <1>3, <1>4, <1>5, <1>6 DEF DecodeTypes

\* The tokens of a text behind a position.
TokensBehind(whole, size, tokens, many) == \A at \in 1 .. many : whole[size + at] = tokens[at]

\* The texts of a block.
LEMMA BlockTexts ==
    ASSUME NEW holder, holder.resident \in Seq(Tok), NEW piece, piece.inputs \in Seq(Tok), NEW ahead \in Nat, ahead = Len(holder.resident),
           NEW upto \in Nat, upto <= Len(piece.inputs)
    PROVE  /\ Beyond(holder, piece, upto) \in Seq(Tok) /\ Len(Beyond(holder, piece, upto)) = ahead + upto
           /\ \A at \in 0 .. ahead : SubSeq(Beyond(holder, piece, upto), 1, at) = SubSeq(holder.resident, 1, at)
           /\ \A at \in 0 .. upto : SubSeq(Beyond(holder, piece, upto), 1, ahead + at) = Beyond(holder, piece, at)
           /\ TokensBehind(Beyond(holder, piece, upto), ahead, piece.inputs, upto)
           /\ SubSeq(Beyond(holder, piece, upto), 1, ahead) = holder.resident
           /\ upto < Len(piece.inputs) => Append(Beyond(holder, piece, upto), piece.inputs[upto + 1]) = Beyond(holder, piece, upto + 1) /\ piece.inputs[upto + 1] \in Tok
<1>1. PICK r, inp : r = holder.resident /\ inp = piece.inputs
  OBVIOUS
<1>2. r \in Seq(Tok) /\ inp \in Seq(Tok) /\ ahead = Len(r) /\ upto <= Len(inp) /\ Len(inp) \in Nat
  BY <1>1, LenProperties
<1>a. PICK long : long = r \o SubSeq(inp, 1, upto)
  OBVIOUS
<1>3. /\ long \in Seq(Tok) /\ Len(long) = ahead + upto
      /\ \A at \in 0 .. ahead : SubSeq(long, 1, at) = SubSeq(r, 1, at)
      /\ \A at \in 0 .. upto : SubSeq(long, 1, ahead + at) = r \o SubSeq(inp, 1, at)
      /\ \A at \in 1 .. upto : long[ahead + at] = inp[at]
      /\ SubSeq(long, 1, ahead) = r
  BY <1>2, <1>a, Behind
<1>4. ASSUME upto < Len(inp) PROVE Append(r \o SubSeq(inp, 1, upto), inp[upto + 1]) = r \o SubSeq(inp, 1, upto + 1) /\ inp[upto + 1] \in Tok
  <2>1. Append(SubSeq(inp, 1, upto), inp[upto + 1]) = SubSeq(inp, 1, upto + 1) /\ inp[upto + 1] \in Tok
    BY <1>2, <1>4, NextBeginning
  <2>2. PICK v, x, y : v = SubSeq(inp, 1, upto) /\ x = inp[upto + 1] /\ y = <<x>>
    OBVIOUS
  <2>3. v \in Seq(Tok) /\ x \in Tok /\ y \in Seq(Tok)
    BY <1>2, <2>1, <2>2, Beginning
  <2>4. (r \o v) \o y = r \o (v \o y)
    <3>1. r \in Seq(Tok)
      BY <1>2
    <3> QED BY <2>3, <3>1, ConcatAssociative, SMTT(60)
  <2>5. Append(v, x) = v \o y
    BY <2>2, <2>3, AppendIsConcat
  <2>6. Append(r \o v, x) = (r \o v) \o y
    <3>1. r \o v \in Seq(Tok)
      BY <1>2, <2>3, ConcatProperties
    <3> QED BY <2>2, <2>3, <3>1, AppendIsConcat
  <2> QED BY <2>1, <2>2, <2>4, <2>5, <2>6
<1> QED BY <1>1, <1>a, <1>3, <1>4 DEF Beyond, TokensBehind

\* The rows behind a text are those of the tokens read.
RowsRead(c, base, tokens, size, many) == \A i \in 1 .. many : c.rows[size + i] = base \o SubSeq(tokens, 1, i)

\* The target reads a block over the boundary.
LEMMA BlockRead ==
    ASSUME recurrent \in BOOLEAN, NEW state \in States, NEW base \in Seq(Tok), NEW tokens \in Seq(Tok), NEW size \in Nat, size = Len(base),
           NEW many \in Nat, many = Len(tokens), size + many <= MaxSeqLen, TargetAt(state, base, size), NEW after, after = Read(state, tokens, size, FALSE)
    PROVE  /\ after \in States /\ TargetAt(after, base \o SubSeq(tokens, 1, many), size + many)
           /\ SameHead(after, state)
           /\ RowsRead(after, base, tokens, size, many)
<1>1. PICK long : long = base \o SubSeq(tokens, 1, many)
  OBVIOUS
<1>2. many <= Len(tokens) /\ Len(tokens) \in Nat
  OBVIOUS
<1>3. /\ long \in Seq(Tok) /\ Len(long) = size + many /\ SubSeq(long, 1, size) = base
      /\ \A j \in 0 .. many : SubSeq(long, 1, size + j) = base \o SubSeq(tokens, 1, j)
      /\ \A j \in 1 .. many : long[size + j] = tokens[j]
  BY <1>1, <1>2, Behind
<1>4. TargetAt(state, long, size)
  <2>1. SubSeq(base, 1, size) = base
    BY WholeText
  <2>2. SubSeq(base, 1, size) = SubSeq(long, 1, size) /\ size <= Len(base) /\ size <= Len(long)
    BY <1>3, <2>1
  <2> QED BY <1>3, <2>2, TargetMoves
<1>5. \A i \in 1 .. many : tokens[i] = long[size + i]
  BY <1>3
<1>6. size + many <= Len(long)
  BY <1>3
<1>7. after \in States /\ TargetAt(after, long, size + many) /\ SameHead(after, state)
  <2>1. PICK follow \in BOOLEAN : follow = FALSE
    OBVIOUS
  <2>2. follow => HeadAt(state, long, size)
    BY <2>1
  <2>3. after = Read(state, tokens, size, follow)
    BY <2>1
  <2>4. /\ after \in States /\ TargetAt(after, long, size + many)
        /\ IF follow THEN HeadAt(after, long, size + many) ELSE SameHead(after, state)
    BY <1>3, <1>4, <1>5, <1>6, <2>2, <2>3, ReadAt, ZenonT(90)
  <2> QED BY <2>1, <2>4
<1>8. ASSUME NEW i \in 1 .. many PROVE after.rows[size + i] = base \o SubSeq(tokens, 1, i)
  <2>1. size + i \in 1 .. size + many /\ i \in 0 .. many
    OBVIOUS
  <2>2. after.rows[size + i] = SubSeq(long, 1, size + i)
    BY <1>7, <2>1 DEF TargetAt
  <2> QED BY <1>3, <2>1, <2>2
<1> QED BY <1>1, <1>7, <1>8 DEF RowsRead

\* Some tokens start with the one that ends the text and is not read yet.
SeedFirst(base, tokens, many, seed) ==
    /\ base \in Seq(Tok) /\ seed \in Tok /\ gen.recent = Recent(Append(base, seed))
    /\ tokens \in Seq(Tok) /\ many \in Nat /\ many = Len(tokens) /\ tokens[1] = seed

\* The recent tokens as a position of the block sees them are those of its text.
LEMMA HistoryAt ==
    ASSUME NEW base, NEW tokens, NEW many, NEW seed, SeedFirst(base, tokens, many, seed), NEW at \in 1 .. many
    PROVE  History(tokens, at) = Recent(base \o SubSeq(tokens, 1, at))
<1>1. PICK rest, one : rest = SubSeq(tokens, 2, at) /\ one = <<seed>>
  OBVIOUS
<1>2. /\ base \in Seq(Tok) /\ seed \in Tok /\ gen.recent = Recent(Append(base, seed))
      /\ tokens \in Seq(Tok) /\ many \in Nat /\ many = Len(tokens) /\ tokens[1] = seed
  BY DEF SeedFirst
<1>3. one \in Seq(Tok)
  BY <1>1, <1>2
<1>4. rest \in Seq(Tok)
  <2>1. \A j \in 2 .. at : tokens[j] \in Tok
    <3>1. \A j \in 1 .. Len(tokens) : tokens[j] \in Tok
      BY <1>2, ElementOfSeq
    <3>2. \A j \in 2 .. at : j \in 1 .. Len(tokens)
      BY <1>2
    <3> QED BY <3>1, <3>2
  <2>2. 2 \in Int /\ at \in Int
    BY <1>2
  <2> QED BY <1>1, <2>1, <2>2, SubSeqProperties
<1>5. SubSeq(tokens, 1, at) = one \o rest
  <2>1. 1 \in 1 .. Len(tokens) /\ at \in 1 .. Len(tokens)
    BY <1>2
  <2>2. SubSeq(tokens, 1, at) = <<tokens[1]>> \o SubSeq(tokens, 1 + 1, at)
    BY <1>2, <2>1, SubSeqRecursiveFirst
  <2> QED BY <1>1, <1>2, <2>2
<1>6. PICK whole : whole = Append(base, seed)
  OBVIOUS
<1>7. whole = base \o one /\ whole \in Seq(Tok)
  BY <1>1, <1>2, <1>6, AppendIsConcat, AppendProperties
<1>8. base \in Seq(Tok)
  BY <1>2
<1>9. (base \o one) \o rest = base \o (one \o rest)
  BY <1>3, <1>4, <1>8, ConcatAssociative
<1>10. Recent(Recent(whole) \o rest) = Recent(whole \o rest)
  BY <1>4, <1>7, RecentContinues
<1>11. History(tokens, at) = Recent(Recent(whole) \o rest)
  BY <1>1, <1>2, <1>6 DEF History
<1>12. whole \o rest = base \o SubSeq(tokens, 1, at)
  BY <1>5, <1>7, <1>9
<1> QED BY <1>10, <1>11, <1>12

\* The drafts leave room for the bonus prediction.
LEMMA DraftsFit ==
    ASSUME DecodeInv, NEW ts \in Seq(Tok), NEW seeded \in BOOLEAN, MayDraft(ts, seeded)
    PROVE  Len(ts) \in Nat /\ Len(ts) >= 1 /\ Pos + (Len(ts) + 1) <= MaxSeqLen /\ step = "draft" /\ (seeded => gen.mtp)
<1>1. step = "draft" /\ Len(ts) \in 1 .. DraftLimit /\ (seeded => gen.mtp)
  BY DEF MayDraft
<1>2. gen.len \in 0 .. MaxSeqLen /\ Pos \in Nat /\ gen.max \in Nat /\ Len(gen.generated) \in Nat
  BY <1>1, InRequest
<1>3. Pos < gen.len /\ Len(gen.generated) < gen.max
  BY <1>1, AtSeed
<1>4. PICK a, b : a = gen.len - Pos - 1 /\ b = gen.max - Len(gen.generated) - 1
  OBVIOUS
<1>5. a \in Nat /\ b \in Nat /\ MaxDraft \in Nat /\ Pos + (a + 1) <= MaxSeqLen
  <2>1. MaxSeqLen \in Nat /\ MaxDraft \in Nat
    BY DecodeAssumption
  <2>2. a \in Nat /\ Pos + (a + 1) <= MaxSeqLen
    BY <1>2, <1>3, <1>4, <2>1
  <2>3. b \in Nat
    BY <1>2, <1>3, <1>4
  <2> QED BY <2>1, <2>2, <2>3
<1>6. PICK limit : limit = DraftLimit
  OBVIOUS
<1>7. limit \in {a, b, MaxDraft} /\ limit <= a
  <2>1. limit = Min({a, b, MaxDraft})
    BY <1>4, <1>6 DEF DraftLimit
  <2>2. {a, b, MaxDraft} \subseteq Nat /\ {a, b, MaxDraft} # {}
    BY <1>5
  <2> QED BY <2>1, <2>2, MinOfSet
<1>8. PICK l \in Nat : l = Len(ts)
  BY LenProperties
<1>9. limit \in Nat /\ l \in 1 .. limit
  BY <1>1, <1>5, <1>6, <1>7, <1>8
<1>10. Pos + (l + 1) <= MaxSeqLen
  BY <1>2, <1>5, <1>7, <1>9, DecodeAssumption
<1> QED BY <1>1, <1>8, <1>9, <1>10

LEMMA PrepareKeeps ==
    ASSUME DecodeInv, NEW ts \in Seq(Tok), NEW seeded \in BOOLEAN, Prepare(ts, seeded)
    PROVE  DecodeInv'
<1>1. MayDraft(ts, seeded) /\ step' = "verify" /\ recurrent' = recurrent /\ prefix' = prefix /\ gen' = gen
  BY DEF Prepare
<1>2. PICK l \in Nat, k \in Nat : l = Len(ts) /\ l >= 1 /\ k = l + 1
  <2>1. Len(ts) \in Nat /\ Len(ts) >= 1 /\ Len(ts) + 1 \in Nat
    BY <1>1, DraftsFit
  <2> QED BY <2>1
<1>3. step = "draft" /\ (seeded => gen.mtp)
  BY <1>1, DraftsFit
<1>4. Outside(kv, gen, "draft") /\ ~block.active
  BY <1>3, StaysOutside
<1>5. /\ recurrent \in BOOLEAN /\ kv \in States /\ prefix \in [tokens : Seq(Tok), prompt : Nat, pending : Seq(Tok)]
      /\ gen.resident \in Seq(Tok) /\ Text \in Seq(Tok) /\ gen.recent = Recent(Text) /\ Pos \in Nat
  BY <1>3, InRequest DEF DecodeInv, DecodeTypes
<1>6. PICK r \in Seq(Tok), p \in Nat : r = gen.resident /\ p = Pos /\ p = Len(r) /\ p + k <= MaxSeqLen
  <2>1. Pos = Len(gen.resident) /\ Pos + (Len(ts) + 1) <= MaxSeqLen
    BY <1>1, DraftsFit DEF Pos
  <2> QED BY <1>2, <1>5, <2>1
<1>7. /\ Seed \in Tok /\ Text = Append(gen.resident, Seed) /\ Pos + 1 <= MaxSeqLen
      /\ TargetAt(kv, gen.resident, Pos) /\ (gen.mtp => HeadAt(kv, gen.resident, Pos))
  BY <1>3, AtSeed
<1>8. PICK inp : inp = <<Seed>> \o ts
  OBVIOUS
<1>9. inp \in Seq(Tok) /\ Len(inp) = k /\ inp[1] = Seed /\ DOMAIN inp = 1 .. k
  <2>1. PICK one : one = <<Seed>>
    OBVIOUS
  <2>2. one \in Seq(Tok) /\ Len(one) = 1 /\ one[1] = Seed
    BY <1>7, <2>1
  <2>3. /\ inp \in Seq(Tok) /\ Len(inp) = 1 + l
        /\ \A i \in 1 .. 1 + l : inp[i] = IF i <= 1 THEN one[i] ELSE ts[i - 1]
    BY <1>2, <1>8, <2>1, <2>2, ConcatProperties
  <2>4. 1 \in 1 .. 1 + l /\ 1 + l = k
    BY <1>2
  <2>5. inp[1] = Seed
    BY <2>2, <2>3, <2>4
  <2> QED BY <2>3, <2>4, <2>5, LenProperties
<1>10. PICK c : c = IF seeded THEN Drafted(kv, Len(ts)) ELSE kv
  OBVIOUS
<1>11. /\ c \in States /\ SameTarget(c, kv) /\ (gen.mtp => HeadAt(c, r, p))
       /\ seeded => c.draftRows[p + 1] = Append(r, Seed)
  <2>1. CASE seeded
    <3>1. l > 0
      BY <1>2
    <3>2. c = Drafted(kv, l)
      BY <1>2, <1>10, <2>1
    <3>3. /\ c \in States /\ SameTarget(c, kv) /\ HeadAt(c, gen.resident, Pos)
          /\ l > 0 => c.draftRows[Pos + 1] = Append(gen.resident, Seed)
      BY <1>3, <1>5, <1>7, <2>1, <3>2, DraftedAt
    <3> QED BY <1>6, <3>1, <3>3
  <2>2. CASE ~seeded
    BY <1>5, <1>6, <1>7, <1>10, <2>2 DEF SameTarget
  <2> QED BY <2>1, <2>2
<1>12. TargetAt(c, r, p) /\ c.rec \in Seq(Tok) /\ c.pending \in Seq(Tok)
  BY <1>6, <1>7, <1>11 DEF TargetAt, SameTarget, States
<1>13. PICK d : d = Read(c, inp, p, FALSE)
  OBVIOUS
<1>14. /\ d \in States /\ TargetAt(d, r \o SubSeq(inp, 1, k), p + k)
       /\ SameHead(d, c)
       /\ RowsRead(d, r, inp, p, k)
  BY <1>5, <1>6, <1>9, <1>11, <1>12, <1>13, BlockRead
<1>15. PICK hidden, predictions :
         /\ hidden = [i \in 1 .. k |-> d.rows[p + i]]
         /\ predictions = [i \in 1 .. k |-> Choice(hidden[i], History(inp, i))]
  <2>1. PICK hidden : hidden = [i \in 1 .. k |-> d.rows[p + i]]
    OBVIOUS
  <2> QED BY <2>1
<1>17. ASSUME NEW i \in 1 .. k
       PROVE  LET s == r \o SubSeq(inp, 1, i)
              IN  s \in Seq(Tok) /\ hidden[i] = s /\ predictions[i] = Choice(s, Recent(s)) /\ predictions[i] \in Tok
  <2>1. PICK s : s = r \o SubSeq(inp, 1, i)
    OBVIOUS
  <2>2. i \in Nat /\ i <= Len(inp) /\ Len(inp) \in Nat
    BY <1>9
  <2>3. s \in Seq(Tok) /\ Len(s) = p + i
    BY <1>6, <1>9, <2>1, <2>2, Behind
  <2>4. hidden[i] = s
    BY <1>14, <1>15, <2>1 DEF RowsRead
  <2>5. History(inp, i) = Recent(s)
    <3>1. SeedFirst(r, inp, k, Seed)
      BY <1>5, <1>6, <1>7, <1>9 DEF SeedFirst
    <3>2. History(inp, i) = Recent(r \o SubSeq(inp, 1, i))
      BY <3>1, HistoryAt
    <3> QED BY <2>1, <3>2
  <2>6. predictions[i] = Choice(s, Recent(s))
    BY <1>15, <2>4, <2>5
  <2>7. Len(s) <= MaxSeqLen
    BY <1>6, <2>2, <2>3, DecodeAssumption
  <2> QED BY <2>1, <2>3, <2>4, <2>6, <2>7, ChoiceIn
<1>18. /\ hidden \in Seq(Seq(Tok)) /\ Len(hidden) = k
       /\ predictions \in Seq(Tok) /\ Len(predictions) = k
  <2>1. hidden \in [1 .. k -> Seq(Tok)] /\ predictions \in [1 .. k -> Tok]
    <3>1. \A i \in 1 .. k : hidden[i] \in Seq(Tok) /\ predictions[i] \in Tok
      BY <1>17
    <3> QED BY <1>15, <3>1
  <2>2. hidden \in Seq(Seq(Tok)) /\ predictions \in Seq(Tok)
    BY <2>1
  <2> QED BY <2>1, <2>2, LenProperties
<1>19. PICK b : b = [active |-> TRUE, inputs |-> inp, hidden |-> hidden, predictions |-> predictions, checked |-> 0,
                     seeded |-> seeded, checkpoint |-> c.rec, pending |-> c.pending, keep |-> 0, next |-> 0, stop |-> FALSE]
  OBVIOUS
<1>20. kv' = d /\ block' = b
  <2>1. /\ kv' = d
        /\ block' = [NoBlock EXCEPT !.active = TRUE, !.inputs = inp, !.hidden = hidden, !.seeded = seeded,
                       !.predictions = predictions, !.checkpoint = c.rec, !.pending = c.pending]
    <3>1. hidden = [i \in DOMAIN inp |-> d.rows[Pos + i]]
      BY <1>6, <1>9, <1>15
    <3>2. predictions = [i \in DOMAIN inp |-> Choice(hidden[i], History(inp, i))]
      BY <1>9, <1>15
    <3> QED BY <1>6, <1>8, <1>10, <1>13, <3>1, <3>2 DEF Prepare
  <2>2. PICK h : h = [NoBlock EXCEPT !.active = TRUE, !.inputs = inp, !.hidden = hidden, !.seeded = seeded,
                        !.predictions = predictions, !.checkpoint = c.rec, !.pending = c.pending]
    OBVIOUS
  <2>3. h = [active |-> TRUE, inputs |-> inp, hidden |-> hidden, predictions |-> predictions, checked |-> 0,
             seeded |-> seeded, checkpoint |-> c.rec, pending |-> c.pending, keep |-> 0, next |-> 0, stop |-> FALSE]
    BY <2>2 DEF NoBlock
  <2> QED BY <1>19, <2>1, <2>2, <2>3
<1>21. b \in Blocks
  BY <1>9, <1>12, <1>18, <1>19 DEF Blocks
<1>22. /\ b.active /\ b.inputs = inp /\ b.hidden = hidden /\ b.predictions = predictions /\ b.checked = 0
       /\ b.seeded = seeded /\ b.checkpoint = c.rec /\ b.pending = c.pending
  BY <1>19
<1>23. \A i : Beyond(gen, b, i) = r \o SubSeq(inp, 1, i)
  BY <1>6, <1>22 DEF Beyond
<1>24. SubSeq(inp, 1, 1) = <<Seed>> /\ r \o <<Seed>> = Append(r, Seed)
  <2>1. 1 \in 1 .. Len(inp)
    BY <1>2, <1>9
  <2>2. SubSeq(inp, 1, 1) = <<inp[1]>> \o SubSeq(inp, 1 + 1, 1)
    BY <1>9, <2>1, SubSeqRecursiveFirst
  <2>3. SubSeq(inp, 1 + 1, 1) = <<>>
    BY SubSeqEmpty
  <2>4. <<Seed>> \o <<>> = <<Seed>>
    <3>1. <<Seed>> \in Seq(Tok)
      BY <1>7
    <3> QED BY <3>1, ConcatEmptySeq
  <2>5. r \o <<Seed>> = Append(r, Seed)
    BY <1>6, <1>7, AppendIsConcat
  <2> QED BY <1>9, <2>2, <2>3, <2>4, <2>5
<1>25. Beyond(gen, b, 1) = Append(r, Seed)
  BY <1>23, <1>24
<1>26. recurrent => c.rec = r
  BY <1>6, <1>12, WholeText DEF TargetAt
<1>27. gen.mtp => c.pending = r /\ \A i \in 1 .. p : c.draftRows[i] = SubSeq(r, 1, i)
  BY <1>6, <1>11, WholeText DEF HeadAt
<1>28. BlockRows(d, gen, b)
  <2>1. k >= 2
    BY <1>2
  <2>2. \A i \in 1 .. k : /\ b.hidden[i] = Beyond(gen, b, i)
                          /\ b.predictions[i] = Choice(Beyond(gen, b, i), Recent(Beyond(gen, b, i)))
    BY <1>17, <1>22, <1>23
  <2>3. TargetAt(d, Beyond(gen, b, k), p + k)
    BY <1>14, <1>23
  <2>4. Len(gen.resident) = p /\ Len(b.inputs) = k /\ Len(b.hidden) = k /\ Len(b.predictions) = k
    BY <1>6, <1>9, <1>18, <1>22
  <2> QED BY <1>3, <1>6, <1>11, <1>14, <1>22, <1>25, <1>26, <1>27, <2>1, <2>2, <2>3, <2>4 DEF BlockRows, SameHead
<1>29. BlockAt(gen, b, "verify")
  <2>1. TextOf(gen) = Append(r, Seed)
    BY <1>6, <1>7 DEF TextOf, Text
  <2>2. b.checked + 1 = 1 /\ 1 < Len(b.inputs)
    BY <1>2, <1>9, <1>22
  <2> QED BY <1>25, <2>1, <2>2 DEF BlockAt
<1>30. RequestOf(gen)
  BY <1>4 DEF Outside, RequestOf
<1> QED BY <1>1, <1>5, <1>14, <1>20, <1>21, <1>22, <1>28, <1>29, <1>30, InsideBlock

\* The state before the block is there behind it.
LEMMA BoundaryKept ==
    ASSUME recurrent \in BOOLEAN, NEW c \in States, NEW g \in Gens, NEW b \in Blocks, RequestOf(g), BlockRows(c, g, b),
           NEW d \in States, d.rows = c.rows, recurrent => d.rec = b.checkpoint /\ d.pending = b.pending,
           g.mtp => \A i \in 1 .. Len(g.resident) : d.draftRows[i] = SubSeq(g.resident, 1, i)
    PROVE  Outside(d, g, "end")
<1>1. g.resident \in Seq(Tok) /\ b.inputs \in Seq(Tok)
  BY DEF Gens, Blocks
<1>2. PICK p \in Nat, k \in Nat : p = Len(g.resident) /\ k = Len(b.inputs)
  BY <1>1, LenProperties
<1>3. /\ TargetAt(c, Beyond(g, b, k), p + k) /\ (recurrent => b.checkpoint = g.resident)
      /\ g.mtp => b.pending = g.resident
  BY <1>2 DEF BlockRows
<1>4. k <= Len(b.inputs)
  BY <1>2
<1>5. \A j \in 0 .. p : SubSeq(Beyond(g, b, k), 1, j) = SubSeq(g.resident, 1, j)
  BY <1>1, <1>2, <1>4, BlockTexts
<1>6. SubSeq(g.resident, 1, p) = g.resident
  BY <1>1, <1>2, WholeText
<1>7. TargetAt(d, g.resident, p)
  <2>1. ASSUME NEW i \in 1 .. p PROVE d.rows[i] = SubSeq(g.resident, 1, i)
    <3>1. i \in 1 .. p + k /\ i \in 0 .. p
      OBVIOUS
    <3>2. c.rows[i] = SubSeq(Beyond(g, b, k), 1, i)
      BY <1>3, <3>1 DEF TargetAt
    <3> QED BY <1>5, <3>1, <3>2
  <2> QED BY <1>3, <1>6, <2>1 DEF TargetAt
<1>8. g.mtp => HeadAt(d, g.resident, p)
  <2>1. g.mtp => recurrent
    BY DEF RequestOf
  <2> QED BY <1>2, <1>3, <1>6, <2>1 DEF HeadAt
<1> QED BY <1>2, <1>7, <1>8 DEF Outside, RequestOf

LEMMA AbortKeeps ==
    ASSUME DecodeInv, step \in {"verify", "finish"}, Abort
    PROVE  DecodeInv'
<1>1. kv' = Restore(kv, block) /\ block' = NoBlock /\ step' = "end" /\ recurrent' = recurrent /\ prefix' = prefix /\ gen' = gen
  BY DEF Abort
<1>2. /\ recurrent \in BOOLEAN /\ kv \in States /\ block \in Blocks /\ block.active
      /\ prefix \in [tokens : Seq(Tok), prompt : Nat, pending : Seq(Tok)]
      /\ RequestOf(gen) /\ BlockRows(kv, gen, block)
  BY StaysInside
<1>3. gen \in Gens /\ block.checkpoint \in Seq(Tok) /\ block.pending \in Seq(Tok)
  BY <1>2 DEF RequestOf, Blocks
<1>4. PICK d : d = Restore(kv, block)
  OBVIOUS
<1>5. /\ d \in States /\ d.rows = kv.rows /\ d.draftRows = kv.draftRows
      /\ recurrent => d.rec = block.checkpoint /\ d.pending = block.pending
  BY <1>2, <1>3, <1>4, Restored
<1>6. gen.mtp => \A i \in 1 .. Len(gen.resident) : d.draftRows[i] = SubSeq(gen.resident, 1, i)
  BY <1>2, <1>5 DEF BlockRows
<1>7. Outside(d, gen, "end")
  BY <1>2, <1>3, <1>5, <1>6, BoundaryKept
<1>8. NoBlock \in Blocks /\ ~NoBlock.active
  BY EmptySeq DEF NoBlock, Blocks
<1> QED BY <1>1, <1>2, <1>4, <1>7, <1>8, OutsideBlock

LEMMA AcceptKeeps ==
    ASSUME DecodeInv, NEW outcome, Accept(outcome)
    PROVE  DecodeInv'
<1>1. step = "verify"
  BY DEF Accept
<1>2. /\ recurrent \in BOOLEAN /\ kv \in States /\ block \in Blocks /\ block.active
      /\ prefix \in [tokens : Seq(Tok), prompt : Nat, pending : Seq(Tok)]
      /\ RequestOf(gen) /\ BlockRows(kv, gen, block) /\ BlockAt(gen, block, "verify")
  BY <1>1, StaysInside
<1>3. gen \in Gens /\ gen.resident \in Seq(Tok) /\ gen.recent = Recent(TextOf(gen))
  BY <1>2 DEF RequestOf, Gens
<1>4. block.inputs \in Seq(Tok) /\ block.predictions \in Seq(Tok) /\ block.checked \in Nat
  BY <1>2 DEF Blocks
<1>5. PICK p \in Nat, k \in Nat, i \in Nat : p = Len(gen.resident) /\ k = Len(block.inputs) /\ i = block.checked + 1
  <2>1. Len(gen.resident) \in Nat /\ Len(block.inputs) \in Nat /\ block.checked + 1 \in Nat
    BY <1>3, <1>4, LenProperties
  <2> QED BY <2>1
<1>6. i < k /\ i >= 1 /\ TextOf(gen) = Beyond(gen, block, i)
  BY <1>2, <1>4, <1>5 DEF BlockAt
<1>7. Count = k /\ Pos = p
  BY <1>5 DEF Count, Pos
<1>8. PICK candidate, prediction : candidate = block.inputs[i + 1] /\ prediction = block.predictions[i]
  OBVIOUS
<1>9. /\ candidate \in Tok /\ Append(TextOf(gen), candidate) = Beyond(gen, block, i + 1)
      /\ Len(TextOf(gen)) = p + i /\ SubSeq(TextOf(gen), 1, p + i) = Beyond(gen, block, i)
  <2>1. i <= Len(block.inputs) /\ i < Len(block.inputs) /\ i \in 0 .. i
    BY <1>5, <1>6
  <2>2. /\ Len(Beyond(gen, block, i)) = p + i
        /\ \A j \in 0 .. i : SubSeq(Beyond(gen, block, i), 1, p + j) = Beyond(gen, block, j)
        /\ i < Len(block.inputs) => /\ Append(Beyond(gen, block, i), block.inputs[i + 1]) = Beyond(gen, block, i + 1)
                                    /\ block.inputs[i + 1] \in Tok
    <3>1. gen.resident \in Seq(Tok) /\ block.inputs \in Seq(Tok) /\ p = Len(gen.resident) /\ i <= Len(block.inputs)
      BY <1>3, <1>4, <1>5, <2>1
    <3>2. Len(Beyond(gen, block, i)) = p + i
      BY <3>1, BlockTexts
    <3>3. \A j \in 0 .. i : SubSeq(Beyond(gen, block, i), 1, p + j) = Beyond(gen, block, j)
      BY <3>1, BlockTexts
    <3>4. i < Len(block.inputs) => /\ Append(Beyond(gen, block, i), block.inputs[i + 1]) = Beyond(gen, block, i + 1)
                                   /\ block.inputs[i + 1] \in Tok
      BY <3>1, BlockTexts
    <3> QED BY <3>2, <3>3, <3>4
  <2> QED BY <1>6, <1>8, <2>1, <2>2
<1>10. /\ prediction = Choice(TextOf(gen), Recent(TextOf(gen))) /\ prediction \in Tok
       /\ \A j \in 1 .. k : /\ block.predictions[j] = Choice(Beyond(gen, block, j), Recent(Beyond(gen, block, j)))
                            /\ block.predictions[j] \in Tok
  <2>1. \A j \in 1 .. k : block.predictions[j] = Choice(Beyond(gen, block, j), Recent(Beyond(gen, block, j)))
    BY <1>2, <1>5 DEF BlockRows
  <2>2. \A j \in 1 .. k : block.predictions[j] \in Tok
    <3>1. Len(block.predictions) = k
      BY <1>2, <1>5 DEF BlockRows
    <3> QED BY <1>4, <3>1, ElementOfSeq
  <2>3. i \in 1 .. k
    BY <1>6
  <2> QED BY <1>6, <1>8, <2>1, <2>2, <2>3
<1>11. ASSUME NEW keep \in 1 .. k, NEW next \in Tok, NEW stop \in BOOLEAN, Commit(keep, next, stop)
       PROVE  /\ block' \in Blocks /\ block'.active /\ step' = "finish" /\ kv' = kv /\ recurrent' = recurrent /\ prefix' = prefix
              /\ block'.keep = keep /\ block'.next = next /\ block'.stop = stop /\ block'.inputs = block.inputs
              /\ \A g : g.resident = gen.resident /\ g.mtp = gen.mtp => BlockRows(kv, g, block')
              /\ \A g : g.resident = gen.resident => \A j : Beyond(g, block', j) = Beyond(gen, block, j)
  <2>1. PICK b : b = [block EXCEPT !.keep = keep, !.next = next, !.stop = stop]
    OBVIOUS
  <2>2. /\ block' = b /\ step' = "finish" /\ kv' = kv /\ recurrent' = recurrent /\ prefix' = prefix
    BY <1>11, <2>1 DEF Commit
  <2>3. /\ b \in Blocks /\ b.active = block.active /\ b.keep = keep /\ b.next = next /\ b.stop = stop
        /\ b.inputs = block.inputs /\ b.hidden = block.hidden /\ b.predictions = block.predictions
        /\ b.seeded = block.seeded /\ b.checkpoint = block.checkpoint /\ b.pending = block.pending
    <3>1. keep \in Nat /\ next \in Tok \cup {0}
      OBVIOUS
    <3>2. b \in Blocks
      BY <1>2, <2>1, <3>1 DEF Blocks
    <3>3. /\ b.active = block.active /\ b.keep = keep /\ b.next = next /\ b.stop = stop
          /\ b.inputs = block.inputs /\ b.hidden = block.hidden /\ b.predictions = block.predictions
          /\ b.seeded = block.seeded /\ b.checkpoint = block.checkpoint /\ b.pending = block.pending
      BY <1>2, <2>1 DEF Blocks
    <3> QED BY <3>2, <3>3
  <2>4. ASSUME NEW g, g.resident = gen.resident PROVE \A j : Beyond(g, b, j) = Beyond(gen, block, j)
    BY <2>3, <2>4 DEF Beyond
  <2>5. ASSUME NEW g, g.resident = gen.resident, g.mtp = gen.mtp PROVE BlockRows(kv, g, b)
    BY <1>2, <2>3, <2>4, <2>5, ZenonT(90) DEF BlockRows
  <2> QED BY <1>2, <2>2, <2>3, <2>4, <2>5
<1>12. CASE prediction # candidate
  <2>1. Commit(i, prediction, FALSE) /\ gen' = gen
    BY <1>5, <1>8, <1>12 DEF Accept
  <2>2. i \in 1 .. k
    BY <1>6
  <2>3. /\ block' \in Blocks /\ block'.active /\ step' = "finish" /\ kv' = kv /\ recurrent' = recurrent /\ prefix' = prefix
        /\ block'.keep = i /\ block'.next = prediction /\ block'.stop = FALSE /\ block'.inputs = block.inputs
        /\ BlockRows(kv, gen, block') /\ \A j : Beyond(gen, block', j) = Beyond(gen, block, j)
    BY <1>10, <1>11, <2>1, <2>2
  <2>4. BlockAt(gen, block', "finish")
    BY <1>5, <1>6, <1>9, <1>10, <2>2, <2>3 DEF BlockAt
  <2> QED BY <1>2, <2>1, <2>3, <2>4, InsideBlock
<1>13. CASE prediction = candidate /\ outcome = "kept"
  <2>1. PICK g : g = Keep(gen, candidate)
    OBVIOUS
  <2>2. /\ g \in Gens /\ TextOf(g) = Append(TextOf(gen), candidate) /\ g.recent = Recent(TextOf(g))
        /\ g.prompt = gen.prompt /\ g.mtp = gen.mtp /\ g.resident = gen.resident
    BY <1>3, <1>9, <2>1, KeepAt
  <2>3. TextOf(gen) \in Seq(Tok)
    BY <1>3, ConcatProperties DEF TextOf, Gens
  <2>4. /\ Len(TextOf(g)) = p + (i + 1) /\ SubSeq(TextOf(g), 1, p + i) = Beyond(gen, block, i)
    <3>1. Len(Append(TextOf(gen), candidate)) = Len(TextOf(gen)) + 1 /\ SubSeq(Append(TextOf(gen), candidate), 1, Len(TextOf(gen))) = TextOf(gen)
      BY <1>9, <2>3, NextToken
    <3>2. (p + i) + 1 = p + (i + 1)
      OBVIOUS
    <3> QED BY <1>6, <1>9, <2>2, <3>1, <3>2
  <2>5. p <= p + (i + 1) /\ p + i <= p + (i + 1)
    OBVIOUS
  <2>6. RequestOf(g)
    <3>1. SubSeq(TextOf(g), 1, p) = gen.resident
      <4>1. i + 1 \in Nat /\ i + 1 <= Len(block.inputs)
        BY <1>5, <1>6
      <4>2. SubSeq(Beyond(gen, block, i + 1), 1, p) = gen.resident
        BY <1>3, <1>4, <1>5, <4>1, BlockTexts
      <4> QED BY <1>9, <2>2, <4>2
    <3> QED BY <1>2, <1>5, <2>2, <2>4, <2>5, <3>1 DEF RequestOf
  <2>7. /\ gen' = g
        /\ IF Full(g, Pos + i) THEN Commit(i, candidate, TRUE)
           ELSE IF i + 1 = Count THEN Commit(Count, block.predictions[Count], FALSE)
           ELSE block' = [block EXCEPT !.checked = i] /\ UNCHANGED <<recurrent, kv, prefix, step>>
    BY <1>5, <1>8, <1>13, <2>1 DEF Accept
  <2>8. CASE Full(g, Pos + i)
    <3>1. i \in 1 .. k /\ Commit(i, candidate, TRUE)
      <4>1. i \in 1 .. k
        BY <1>6
      <4> QED BY <2>7, <2>8, <4>1
    <3>2. /\ block' \in Blocks /\ block'.active /\ step' = "finish" /\ kv' = kv /\ recurrent' = recurrent /\ prefix' = prefix
          /\ block'.keep = i /\ block'.stop = TRUE /\ block'.inputs = block.inputs
          /\ BlockRows(kv, g, block') /\ \A j : Beyond(g, block', j) = Beyond(gen, block, j)
      BY <1>9, <1>11, <2>2, <3>1
    <3>3. BlockAt(g, block', "finish")
      BY <1>5, <2>2, <2>4, <2>5, <3>1, <3>2 DEF BlockAt
    <3> QED BY <1>2, <2>6, <2>7, <3>2, <3>3, InsideBlock
  <2>9. CASE ~Full(g, Pos + i) /\ i + 1 = Count
    <3>1. k \in 1 .. k /\ i + 1 = k /\ Commit(k, block.predictions[k], FALSE)
      <4>1. k \in 1 .. k
        BY <1>6
      <4>2. i + 1 = k
        BY <1>7, <2>9
      <4>3. Commit(Count, block.predictions[Count], FALSE)
        BY <2>7, <2>9
      <4> QED BY <1>7, <4>1, <4>2, <4>3
    <3>2. /\ block' \in Blocks /\ block'.active /\ step' = "finish" /\ kv' = kv /\ recurrent' = recurrent /\ prefix' = prefix
          /\ block'.keep = k /\ block'.next = block.predictions[k] /\ block'.stop = FALSE /\ block'.inputs = block.inputs
          /\ BlockRows(kv, g, block') /\ \A j : Beyond(g, block', j) = Beyond(gen, block, j)
      BY <1>10, <1>11, <2>2, <3>1
    <3>3. TextOf(g) = Beyond(gen, block, k)
      BY <1>9, <2>2, <3>1
    <3>4. SubSeq(TextOf(g), 1, p + k) = TextOf(g) /\ Len(TextOf(g)) = p + k
      <4>1. Append(TextOf(gen), candidate) \in Seq(Tok)
        BY <1>9, <2>3, AppendProperties
      <4> QED BY <2>2, <2>4, <3>1, <4>1, WholeText
    <3>5. p + k <= p + k
      OBVIOUS
    <3>6. block.predictions[k] = Choice(Beyond(gen, block, k), Recent(Beyond(gen, block, k)))
      BY <1>10, <3>1
    <3>7. BlockAt(g, block', "finish")
      BY <1>5, <2>2, <3>1, <3>2, <3>3, <3>4, <3>5, <3>6 DEF BlockAt
    <3> QED BY <1>2, <2>6, <2>7, <3>2, <3>7, InsideBlock
  <2>10. CASE ~Full(g, Pos + i) /\ i + 1 # Count
    <3>1. i + 1 < k
      BY <1>6, <1>7, <2>10
    <3>2. PICK b : b = [block EXCEPT !.checked = i]
      OBVIOUS
    <3>3. block' = b /\ recurrent' = recurrent /\ kv' = kv /\ prefix' = prefix /\ step' = "verify"
      BY <1>1, <2>7, <2>10, <3>2
    <3>4. /\ b \in Blocks /\ b.active = block.active /\ b.checked = i
          /\ b.inputs = block.inputs /\ b.hidden = block.hidden /\ b.predictions = block.predictions
          /\ b.seeded = block.seeded /\ b.checkpoint = block.checkpoint /\ b.pending = block.pending
      BY <1>2, <3>2 DEF Blocks
    <3>5. \A j : Beyond(g, b, j) = Beyond(gen, block, j)
      BY <2>2, <3>4 DEF Beyond
    <3>6. BlockRows(kv, g, b)
      BY <1>2, <2>2, <3>4, <3>5 DEF BlockRows
    <3>7. BlockAt(g, b, "verify")
      BY <1>5, <1>9, <2>2, <3>1, <3>4, <3>5 DEF BlockAt
    <3> QED BY <1>2, <2>6, <2>7, <3>3, <3>4, <3>6, <3>7, InsideBlock
  <2> QED BY <2>8, <2>9, <2>10
<1>14. CASE prediction = candidate /\ outcome = "stop"
  <2>1. Commit(i, candidate, TRUE) /\ gen' = gen
    BY <1>5, <1>8, <1>14 DEF Accept
  <2>2. i \in 1 .. k
    BY <1>6
  <2>3. /\ block' \in Blocks /\ block'.active /\ step' = "finish" /\ kv' = kv /\ recurrent' = recurrent /\ prefix' = prefix
        /\ block'.keep = i /\ block'.stop = TRUE /\ block'.inputs = block.inputs
        /\ BlockRows(kv, gen, block') /\ \A j : Beyond(gen, block', j) = Beyond(gen, block, j)
    BY <1>9, <1>11, <2>1, <2>2
  <2>4. BlockAt(gen, block', "finish")
    BY <1>5, <1>9, <2>2, <2>3 DEF BlockAt
  <2> QED BY <1>2, <2>1, <2>3, <2>4, InsideBlock
<1>15. CASE prediction = candidate /\ outcome = "gone"
  <2>1. Abort
    BY <1>5, <1>8, <1>15 DEF Accept
  <2>2. step \in {"verify", "finish"}
    BY <1>1
  <2> QED BY <2>1, <2>2, AbortKeeps
<1> QED BY <1>5, <1>8, <1>12, <1>13, <1>14, <1>15 DEF Accept

LEMMA AcceptCancelledKeeps ==
    ASSUME DecodeInv, AcceptCancelled
    PROVE  DecodeInv'
<1>1. step \in {"verify", "finish"} /\ Abort
  BY DEF AcceptCancelled
<1> QED BY <1>1, AbortKeeps

\* The parts of a block that is finished.
LEMMA AtFinish ==
    ASSUME DecodeInv, step = "finish"
    PROVE  /\ recurrent \in BOOLEAN /\ kv \in States /\ block \in Blocks /\ block.active
           /\ prefix \in [tokens : Seq(Tok), prompt : Nat, pending : Seq(Tok)]
           /\ RequestOf(gen) /\ BlockRows(kv, gen, block) /\ BlockAt(gen, block, "finish")
           /\ gen \in Gens /\ gen.resident \in Seq(Tok) /\ block.inputs \in Seq(Tok)
           /\ block.checkpoint \in Seq(Tok) /\ block.pending \in Seq(Tok) /\ block.seeded \in BOOLEAN
           /\ Len(gen.resident) \in Nat /\ Len(block.inputs) \in Nat /\ Count = Len(block.inputs) /\ Pos = Len(gen.resident)
           /\ Pos + Count <= MaxSeqLen /\ Count >= 2
           /\ block.keep \in 1 .. Count /\ block.keep \in Nat
<1>1. /\ recurrent \in BOOLEAN /\ kv \in States /\ block \in Blocks /\ block.active
      /\ prefix \in [tokens : Seq(Tok), prompt : Nat, pending : Seq(Tok)]
      /\ RequestOf(gen) /\ BlockRows(kv, gen, block) /\ BlockAt(gen, block, "finish")
  BY StaysInside
<1>2. gen \in Gens
  BY <1>1 DEF RequestOf
<1>3. /\ gen.resident \in Seq(Tok) /\ block.inputs \in Seq(Tok)
      /\ block.checkpoint \in Seq(Tok) /\ block.pending \in Seq(Tok) /\ block.seeded \in BOOLEAN /\ block.keep \in Nat
  BY <1>1, <1>2 DEF Gens, Blocks
<1>4. Len(gen.resident) \in Nat /\ Len(block.inputs) \in Nat
  BY <1>3, LenProperties
<1>5. Count = Len(block.inputs) /\ Pos = Len(gen.resident)
  BY DEF Count, Pos
<1>6. Pos + Count <= MaxSeqLen /\ Count >= 2
  BY <1>1, <1>5 DEF BlockRows
<1>7. block.keep \in 1 .. Count
  BY <1>1, <1>5 DEF BlockAt
<1> QED BY <1>1, <1>2, <1>3, <1>4, <1>5, <1>6, <1>7

\* What was accepted is what the target holds after the replay.
LEMMA ReplayedAt ==
    ASSUME DecodeInv, step = "finish"
    PROVE  /\ Replayed \in States /\ SameHead(Replayed, kv)
           /\ TargetAt(Replayed, Beyond(gen, block, block.keep), Pos + block.keep)
<1>1. /\ recurrent \in BOOLEAN /\ kv \in States /\ gen.resident \in Seq(Tok) /\ block.inputs \in Seq(Tok)
      /\ BlockRows(kv, gen, block) /\ block.checkpoint \in Seq(Tok)
      /\ Count = Len(block.inputs) /\ Pos = Len(gen.resident) /\ Pos + Count <= MaxSeqLen
      /\ block.keep \in 1 .. Count
      /\ Len(gen.resident) \in Nat /\ Len(block.inputs) \in Nat
  BY AtFinish
<1>2. PICK p \in Nat, k \in Nat, keep \in Nat : p = Pos /\ k = Count /\ keep = block.keep
  <2>1. Pos \in Nat /\ Count \in Nat /\ block.keep \in Nat
    BY <1>1
  <2> QED BY <2>1
<1>3. keep >= 1 /\ keep <= k /\ p + k <= MaxSeqLen
  <2>1. keep \in 1 .. k
    BY <1>1, <1>2
  <2>2. p + k <= MaxSeqLen
    BY <1>1, <1>2
  <2> QED BY <2>1, <2>2
<1>4. p = Len(gen.resident) /\ keep <= Len(block.inputs) /\ k <= Len(block.inputs) /\ k = Len(block.inputs)
  BY <1>1, <1>2, <1>3
<1>5. PICK text, full : text = Beyond(gen, block, keep) /\ full = Beyond(gen, block, k)
  OBVIOUS
<1>6. /\ full \in Seq(Tok) /\ Len(full) = p + k
      /\ \A at \in 0 .. k : SubSeq(full, 1, p + at) = Beyond(gen, block, at)
  <2>1. gen.resident \in Seq(Tok) /\ block.inputs \in Seq(Tok)
    BY <1>1
  <2>2. p = Len(gen.resident) /\ k <= Len(block.inputs)
    BY <1>4
  <2>3. /\ Beyond(gen, block, k) \in Seq(Tok) /\ Len(Beyond(gen, block, k)) = p + k
        /\ \A at \in 0 .. k : SubSeq(Beyond(gen, block, k), 1, p + at) = Beyond(gen, block, at)
    BY <2>1, <2>2, BlockTexts
  <2> QED BY <1>5, <2>3
<1>7. text \in Seq(Tok) /\ Len(text) = p + keep
  BY <1>1, <1>4, <1>5, BlockTexts
<1>8. text = SubSeq(full, 1, p + keep) /\ full = SubSeq(full, 1, p + k)
  <2>1. keep \in 0 .. k /\ k \in 0 .. k
    BY <1>3
  <2> QED BY <1>5, <1>6, <2>1
<1>9. TargetAt(kv, full, p + k)
  BY <1>1, <1>2, <1>4, <1>5 DEF BlockRows
<1>10. \A i \in 1 .. p + keep : kv.rows[i] = SubSeq(text, 1, i)
  <2>1. ASSUME NEW i \in 1 .. p + keep PROVE kv.rows[i] = SubSeq(text, 1, i)
    <3>1. i \in 1 .. p + k /\ i \in Nat /\ i <= p + keep /\ p + keep \in Nat /\ p + keep <= p + k
      BY <1>3
    <3>2. kv.rows[i] = SubSeq(full, 1, i)
      BY <1>9, <3>1 DEF TargetAt
    <3>3. SubSeq(SubSeq(full, 1, p + keep), 1, i) = SubSeq(full, 1, i)
      BY <1>6, <3>1, BeginningOfBeginning
    <3> QED BY <1>8, <3>2, <3>3
  <2> QED BY <2>1
<1>11. SubSeq(text, 1, p + keep) = text
  BY <1>7, WholeText
<1>12. CASE recurrent /\ keep < k
  <2>1. Replayed = [kv EXCEPT !.rec = block.checkpoint \o SubSeq(block.inputs, 1, block.keep)]
    BY <1>2, <1>12 DEF Replayed
  <2>2. block.checkpoint \o SubSeq(block.inputs, 1, block.keep) = text
    BY <1>1, <1>2, <1>5, <1>12 DEF BlockRows, Beyond
  <2>3. PICK d : d = [kv EXCEPT !.rec = text]
    OBVIOUS
  <2>4. d \in States /\ d.rows = kv.rows /\ d.rec = text /\ d.draftRows = kv.draftRows /\ d.pending = kv.pending
    BY <1>1, <1>7, <2>3 DEF States
  <2>5. TargetAt(d, text, p + keep)
    BY <1>10, <1>11, <2>4 DEF TargetAt
  <2> QED BY <1>2, <1>5, <2>1, <2>2, <2>3, <2>4, <2>5 DEF SameHead
<1>13. CASE ~(recurrent /\ keep < k)
  <2>1. Replayed = kv
    BY <1>2, <1>13 DEF Replayed
  <2>2. recurrent => kv.rec = text
    <3>1. recurrent => keep = k
      BY <1>1, <1>3, <1>13
    <3> QED BY <1>5, <1>8, <1>9, <3>1 DEF TargetAt
  <2>3. TargetAt(kv, text, p + keep)
    BY <1>10, <1>11, <2>2 DEF TargetAt
  <2> QED BY <1>1, <1>2, <1>5, <2>1, <2>3 DEF SameHead
<1> QED BY <1>12, <1>13

\* The draft head follows the inputs of the block as far as it is asked to.
LEMMA FollowedBlock ==
    ASSUME DecodeInv, step = "finish", gen.mtp, NEW from \in States, SameHead(from, kv), NEW n \in 1 .. Count
    PROVE  /\ Followed(from, n) \in States /\ SameTarget(Followed(from, n), from)
           /\ HeadAt(Followed(from, n), Beyond(gen, block, n), Pos + n)
<1>1. /\ gen.resident \in Seq(Tok) /\ block.inputs \in Seq(Tok) /\ BlockRows(kv, gen, block) /\ block.seeded \in BOOLEAN
      /\ Count = Len(block.inputs) /\ Pos = Len(gen.resident) /\ Pos + Count <= MaxSeqLen
      /\ Len(gen.resident) \in Nat /\ Len(block.inputs) \in Nat
  BY AtFinish
<1>2. PICK p \in Nat, k \in Nat : p = Pos /\ k = Count
  BY <1>1
<1>3. n \in Nat /\ n >= 1 /\ n <= k /\ p + n <= MaxSeqLen
  <2>1. p + k <= MaxSeqLen /\ MaxSeqLen \in Nat
    BY <1>1, <1>2, DecodeAssumption
  <2>2. n \in 1 .. k
    BY <1>2
  <2> QED BY <2>1, <2>2
<1>4. p = Len(gen.resident) /\ n <= Len(block.inputs) /\ k = Len(block.inputs)
  BY <1>1, <1>2, <1>3
<1>5. PICK text : text = Beyond(gen, block, n)
  OBVIOUS
<1>6. /\ text \in Seq(Tok) /\ Len(text) = p + n /\ SubSeq(text, 1, p) = gen.resident
      /\ \A at \in 0 .. p : SubSeq(text, 1, at) = SubSeq(gen.resident, 1, at)
      /\ \A at \in 0 .. n : SubSeq(text, 1, p + at) = Beyond(gen, block, at)
      /\ \A at \in 1 .. n : text[p + at] = block.inputs[at]
  <2>1. gen.resident \in Seq(Tok) /\ block.inputs \in Seq(Tok) /\ n \in Nat
    BY <1>1, <1>3
  <2>2. p = Len(gen.resident) /\ n <= Len(block.inputs)
    BY <1>4
  <2>3. PICK m \in Nat : m = n
    BY <2>1
  <2>4. m <= Len(block.inputs)
    BY <2>2, <2>3
  <2>5. /\ Beyond(gen, block, m) \in Seq(Tok) /\ Len(Beyond(gen, block, m)) = p + m
        /\ SubSeq(Beyond(gen, block, m), 1, p) = gen.resident
    BY <2>1, <2>2, <2>4, BlockTexts
  <2>6. \A at \in 0 .. p : SubSeq(Beyond(gen, block, m), 1, at) = SubSeq(gen.resident, 1, at)
    BY <2>1, <2>2, <2>4, BlockTexts
  <2>7. \A at \in 0 .. m : SubSeq(Beyond(gen, block, m), 1, p + at) = Beyond(gen, block, at)
    <3>1. SUFFICES ASSUME NEW x \in 0 .. m PROVE SubSeq(Beyond(gen, block, m), 1, p + x) = Beyond(gen, block, x)
      OBVIOUS
    <3>2. \A at \in 0 .. m : SubSeq(Beyond(gen, block, m), 1, Len(gen.resident) + at) = Beyond(gen, block, at)
      BY <2>1, <2>2, <2>4, BlockTexts
    <3> QED BY <2>2, <3>2
  <2>8. TokensBehind(Beyond(gen, block, m), p, block.inputs, m)
    BY <2>1, <2>2, <2>4, BlockTexts
  <2> QED BY <1>5, <2>3, <2>5, <2>6, <2>7, <2>8 DEF TokensBehind
<1>7. \A i \in 1 .. n : block.inputs[i] = text[p + i] /\ block.hidden[i] = SubSeq(text, 1, p + i)
  <2>1. ASSUME NEW i \in 1 .. n PROVE block.hidden[i] = SubSeq(text, 1, p + i)
    <3>1. i \in 0 .. n /\ i \in 1 .. k
      BY <1>3
    <3>2. block.hidden[i] = Beyond(gen, block, i)
      BY <1>1, <1>4, <3>1 DEF BlockRows
    <3> QED BY <1>6, <3>1, <3>2
  <2> QED BY <1>6, <2>1
<1>8. HeadAt(from, text, p)
  <2>1. from.pending = gen.resident
    BY <1>1 DEF BlockRows, SameHead
  <2>2. ASSUME NEW i \in 1 .. p PROVE from.draftRows[i] = SubSeq(text, 1, i)
    <3>1. kv.draftRows[i] = SubSeq(gen.resident, 1, i) /\ from.draftRows = kv.draftRows
      BY <1>1, <1>4 DEF BlockRows, SameHead
    <3>2. i \in 0 .. p
      OBVIOUS
    <3> QED BY <1>6, <3>1, <3>2
  <2> QED BY <1>6, <2>1, <2>2 DEF HeadAt
<1>9. block.seeded => from.draftRows[p + 1] = SubSeq(text, 1, p + 1)
  <2>1. 1 \in 0 .. n
    BY <1>3
  <2>2. SubSeq(text, 1, p + 1) = Beyond(gen, block, 1)
    BY <1>6, <2>1
  <2>3. block.seeded => kv.draftRows[p + 1] = Beyond(gen, block, 1)
    BY <1>1, <1>4 DEF BlockRows
  <2>4. from.draftRows = kv.draftRows
    BY DEF SameHead
  <2> QED BY <2>2, <2>3, <2>4
<1>10. p + n <= Len(text)
  BY <1>3, <1>6
<1>11. Followed(from, n) \in States /\ HeadAt(Followed(from, n), text, p + n) /\ SameTarget(Followed(from, n), from)
  BY <1>1, <1>2, <1>3, <1>6, <1>7, <1>8, <1>9, <1>10, FollowedAt
<1> QED BY <1>2, <1>5, <1>11

LEMMA FinishKeeps ==
    ASSUME DecodeInv, Finish
    PROVE  DecodeInv'
<1>1. /\ step = "finish" /\ block' = NoBlock /\ recurrent' = recurrent /\ prefix' = prefix
      /\ kv' = (IF gen.mtp THEN Followed(Replayed, block.keep) ELSE Replayed)
      /\ gen' = [gen EXCEPT !.resident = @ \o SubSeq(block.inputs, 1, block.keep), !.next = block.next]
      /\ step' = (IF block.stop THEN "end" ELSE "emit")
  BY DEF Finish
<1>2. /\ recurrent \in BOOLEAN /\ kv \in States /\ block \in Blocks
      /\ prefix \in [tokens : Seq(Tok), prompt : Nat, pending : Seq(Tok)]
      /\ RequestOf(gen) /\ BlockAt(gen, block, "finish") /\ gen \in Gens /\ gen.resident \in Seq(Tok)
      /\ block.inputs \in Seq(Tok) /\ Count = Len(block.inputs) /\ Pos = Len(gen.resident) /\ Pos + Count <= MaxSeqLen
      /\ block.keep \in 1 .. Count /\ Len(gen.resident) \in Nat /\ Len(block.inputs) \in Nat
  BY <1>1, AtFinish
<1>3. PICK p \in Nat, keep \in Nat : p = Pos /\ keep = block.keep
  <2>1. Pos \in Nat /\ block.keep \in Nat
    BY <1>2
  <2> QED BY <2>1
<1>4. keep >= 1 /\ keep <= Len(block.inputs) /\ p + keep <= MaxSeqLen /\ p + keep \in 1 .. MaxSeqLen /\ p <= p + keep
  <2>1. MaxSeqLen \in Nat /\ p + Len(block.inputs) <= MaxSeqLen /\ keep \in 1 .. Len(block.inputs)
    BY <1>2, <1>3, DecodeAssumption
  <2>2. Len(block.inputs) \in Nat
    BY <1>2
  <2> QED BY <2>1, <2>2
<1>5. PICK text : text = Beyond(gen, block, keep)
  OBVIOUS
<1>6. text \in Seq(Tok) /\ Len(text) = p + keep
  <2>1. gen.resident \in Seq(Tok) /\ block.inputs \in Seq(Tok) /\ p = Len(gen.resident)
    BY <1>2, <1>3
  <2> QED BY <1>4, <1>5, <2>1, BlockTexts
<1>7. Replayed \in States /\ SameHead(Replayed, kv) /\ TargetAt(Replayed, text, p + keep)
  BY <1>1, <1>3, <1>5, ReplayedAt
<1>8. gen.mtp => /\ Followed(Replayed, keep) \in States /\ SameTarget(Followed(Replayed, keep), Replayed)
                 /\ HeadAt(Followed(Replayed, keep), text, p + keep)
  <2>1. keep \in 1 .. Count
    BY <1>2, <1>3
  <2> QED BY <1>1, <1>3, <1>5, <1>7, <2>1, FollowedBlock
<1>9. PICK d, g, s : d = kv' /\ g = gen' /\ s = step'
  OBVIOUS
<1>10. d \in States /\ TargetAt(d, text, p + keep) /\ (gen.mtp => HeadAt(d, text, p + keep))
  <2>1. CASE gen.mtp
    <3>1. d = Followed(Replayed, keep)
      BY <1>1, <1>3, <1>9, <2>1
    <3> QED BY <1>7, <1>8, <2>1, <3>1 DEF SameTarget, TargetAt
  <2>2. CASE ~gen.mtp
    <3>1. d = Replayed
      BY <1>1, <1>9, <2>2
    <3> QED BY <1>7, <2>2, <3>1
  <2> QED BY <2>1, <2>2
<1>11. /\ g \in Gens /\ TextOf(g) = TextOf(gen) /\ g.prompt = gen.prompt /\ g.mtp = gen.mtp /\ g.recent = gen.recent
       /\ g.resident = text /\ g.next = block.next
  <2>1. g = [gen EXCEPT !.resident = text, !.next = block.next]
    BY <1>1, <1>3, <1>5, <1>9 DEF Beyond
  <2>2. block.next \in Tok \cup {0}
    BY <1>2 DEF Blocks
  <2>3. g \in Gens
    BY <1>2, <1>6, <2>1, <2>2 DEF Gens
  <2>4. /\ g.prompt = gen.prompt /\ g.mtp = gen.mtp /\ g.recent = gen.recent /\ g.generated = gen.generated
        /\ g.resident = text /\ g.next = block.next
    BY <1>2, <2>1 DEF Gens
  <2> QED BY <2>3, <2>4 DEF TextOf
<1>12. /\ p + keep <= Len(TextOf(gen)) /\ text = SubSeq(TextOf(gen), 1, p + keep)
       /\ ~block.stop => TextOf(gen) = text /\ block.next = Choice(TextOf(gen), Recent(TextOf(gen)))
  BY <1>2, <1>3, <1>5 DEF BlockAt
<1>13. s \in {"emit", "end"} /\ (s = "emit" => ~block.stop)
  BY <1>1, <1>9
<1>14. /\ gen.mtp => recurrent
       /\ gen.prompt \in Prompts /\ gen.recent = Recent(TextOf(gen)) /\ Len(gen.prompt) <= p
  BY <1>2, <1>3 DEF RequestOf
<1>15. Len(gen.prompt) <= p + keep
  <2>1. Len(gen.prompt) \in Nat
    BY <1>2, LenProperties DEF Gens
  <2> QED BY <1>14, <2>1
<1>16. Outside(d, g, s)
  <2>1. s # "draft" /\ s # "serial"
    BY <1>13
  <2>2. Len(g.resident) = p + keep
    BY <1>6, <1>11
  <2>3. TargetAt(d, g.resident, Len(g.resident)) /\ (g.mtp => HeadAt(d, g.resident, Len(g.resident)))
    BY <1>10, <1>11, <2>2
  <2>4. /\ Len(g.resident) \in 1 .. MaxSeqLen /\ Len(g.resident) <= Len(TextOf(g)) /\ Len(g.prompt) <= Len(g.resident)
        /\ g.resident = SubSeq(TextOf(g), 1, Len(g.resident))
    BY <1>4, <1>11, <1>12, <1>15, <2>2
  <2>5. s = "emit" => TextOf(g) = g.resident /\ g.next = Choice(TextOf(g), Recent(TextOf(g)))
    BY <1>11, <1>12, <1>13
  <2> QED BY <1>10, <1>11, <1>13, <1>14, <2>1, <2>3, <2>4, <2>5 DEF Outside
<1>17. NoBlock \in Blocks /\ ~NoBlock.active
  BY EmptySeq DEF NoBlock, Blocks
<1> QED BY <1>1, <1>2, <1>9, <1>16, <1>17, OutsideBlock

LEMMA FinishCancelledKeeps ==
    ASSUME DecodeInv, FinishCancelled
    PROVE  DecodeInv'
<1>1. /\ step = "finish" /\ block' = NoBlock /\ step' = "end" /\ recurrent' = recurrent /\ prefix' = prefix /\ gen' = gen
      /\ \E n \in 1 .. block.keep : kv' = Restore(IF gen.mtp THEN Followed(Replayed, n) ELSE kv, block)
  BY DEF FinishCancelled
<1>2. PICK n \in 1 .. block.keep : kv' = Restore(IF gen.mtp THEN Followed(Replayed, n) ELSE kv, block)
  BY <1>1
<1>3. /\ recurrent \in BOOLEAN /\ kv \in States /\ block \in Blocks
      /\ prefix \in [tokens : Seq(Tok), prompt : Nat, pending : Seq(Tok)]
      /\ RequestOf(gen) /\ BlockRows(kv, gen, block) /\ gen \in Gens /\ gen.resident \in Seq(Tok) /\ block.inputs \in Seq(Tok)
      /\ block.checkpoint \in Seq(Tok) /\ block.pending \in Seq(Tok)
      /\ Count = Len(block.inputs) /\ Pos = Len(gen.resident)
      /\ block.keep \in 1 .. Count /\ Len(gen.resident) \in Nat /\ Len(block.inputs) \in Nat
  BY <1>1, AtFinish
<1>4. n \in 1 .. Count /\ n \in Nat /\ n <= Len(block.inputs)
  BY <1>3
<1>5. PICK c : c = IF gen.mtp THEN Followed(Replayed, n) ELSE kv
  OBVIOUS
<1>6. Replayed \in States /\ SameHead(Replayed, kv) /\ Replayed.rows = kv.rows
  <2>1. Replayed.rows = kv.rows
    BY <1>3 DEF Replayed, States
  <2> QED BY <1>1, <2>1, ReplayedAt
<1>7. PICK size \in Nat : size = Len(gen.resident)
  BY <1>3
<1>8. /\ c \in States /\ c.rows = kv.rows
      /\ gen.mtp => \A i \in 1 .. Len(gen.resident) : c.draftRows[i] = SubSeq(gen.resident, 1, i)
  <2>1. CASE gen.mtp
    <3>1. /\ Followed(Replayed, n) \in States /\ SameTarget(Followed(Replayed, n), Replayed)
          /\ HeadAt(Followed(Replayed, n), Beyond(gen, block, n), Pos + n)
      BY <1>1, <1>4, <1>6, <2>1, FollowedBlock
    <3>2. c = Followed(Replayed, n)
      BY <1>5, <2>1
    <3>3. c.rows = kv.rows
      BY <1>6, <3>1, <3>2 DEF SameTarget
    <3>4. \A at \in 0 .. size : SubSeq(Beyond(gen, block, n), 1, at) = SubSeq(gen.resident, 1, at)
      <4>1. gen.resident \in Seq(Tok) /\ block.inputs \in Seq(Tok)
        BY <1>3
      <4> QED BY <1>4, <1>7, <4>1, BlockTexts
    <3>5. ASSUME NEW i \in 1 .. size PROVE c.draftRows[i] = SubSeq(gen.resident, 1, i)
      <4>1. i \in 1 .. Pos + n /\ i \in 0 .. size
        BY <1>3, <1>4, <1>7
      <4>2. c.draftRows[i] = SubSeq(Beyond(gen, block, n), 1, i)
        BY <3>1, <3>2, <4>1 DEF HeadAt
      <4> QED BY <3>4, <4>1, <4>2
    <3> QED BY <1>7, <3>1, <3>2, <3>3, <3>5
  <2>2. CASE ~gen.mtp
    BY <1>3, <1>5, <2>2
  <2> QED BY <2>1, <2>2
<1>9. PICK d : d = Restore(c, block)
  OBVIOUS
<1>10. /\ d \in States /\ d.rows = c.rows /\ d.draftRows = c.draftRows
       /\ recurrent => d.rec = block.checkpoint /\ d.pending = block.pending
  BY <1>3, <1>8, <1>9, Restored
<1>11. d.rows = kv.rows /\ (gen.mtp => \A i \in 1 .. Len(gen.resident) : d.draftRows[i] = SubSeq(gen.resident, 1, i))
  BY <1>8, <1>10
<1>12. Outside(d, gen, "end")
  BY <1>3, <1>10, <1>11, BoundaryKept
<1>13. NoBlock \in Blocks /\ ~NoBlock.active
  BY EmptySeq DEF NoBlock, Blocks
<1> QED BY <1>1, <1>2, <1>3, <1>5, <1>9, <1>12, <1>13, OutsideBlock

-----------------------------------------------------------------------------
(* Speculative decoding: the theorems. *)

LEMMA DecodeInit ==
    ASSUME Init
    PROVE  DecodeInv
<1>1. /\ recurrent \in BOOLEAN /\ step = "idle" /\ gen = NoGen /\ block = NoBlock
      /\ kv = [rows |-> Blank, rec |-> <<>>, draftRows |-> Blank, pending |-> <<>>]
      /\ prefix = [tokens |-> <<>>, prompt |-> 0, pending |-> NoMTP]
  BY DEF Init
<1>2. PICK e : e = <<>>
  OBVIOUS
<1>3. e \in Seq(Tok) /\ Len(e) = 0 /\ e \in Seq(Seq(Tok)) /\ SubSeq(e, 1, 0) = e
  <2>1. e \in Seq(Tok) /\ Len(e) = 0 /\ e \in Seq(Seq(Tok))
    BY <1>2, EmptySeq
  <2> QED BY <2>1, WholeText
<1>4. Blank \in Rows
  BY <1>2, <1>3 DEF Blank, Broken, Rows
<1>5. kv \in States
  BY <1>1, <1>2, <1>3, <1>4 DEF States
<1>6. prefix \in [tokens : Seq(Tok), prompt : Nat, pending : Seq(Tok)]
  BY <1>1, <1>2, <1>3 DEF NoMTP
<1>7. gen \in Gens
  <2>1. 0 \in 0 .. MaxSeqLen
    BY DecodeAssumption
  <2> QED BY <1>1, <1>2, <1>3, <2>1 DEF Gens, NoGen
<1>8. block \in Blocks /\ ~block.active
  BY <1>1, <1>2, <1>3 DEF Blocks, NoBlock
<1>9. DecodeTypes
  BY <1>1, <1>5, <1>6, <1>7, <1>8 DEF DecodeTypes
<1>10. Advertised
  <2>1. prefix.tokens = e /\ prefix.prompt = 0 /\ prefix.pending = NoMTP /\ kv.rec = e
    BY <1>1, <1>2
  <2>2. TargetAt(kv, e, 0)
    BY <1>3, <2>1 DEF TargetAt
  <2>3. Len(prefix.tokens) <= MaxSeqLen /\ prefix.prompt <= Len(prefix.tokens)
    BY <1>3, <2>1, DecodeAssumption
  <2> QED BY <1>1, <1>3, <1>8, <2>1, <2>2, <2>3 DEF Advertised
<1>11. Requested /\ Settled /\ Speculating
  BY <1>1, <1>8 DEF Requested, Settled, Speculating
<1> QED BY <1>9, <1>10, <1>11 DEF DecodeInv

LEMMA DraftsAreTexts == Drafts \subseteq Seq(Tok)
<1>1. ASSUME NEW ts \in Drafts PROVE ts \in Seq(Tok)
  <2>1. PICK n \in 0 .. MaxDraft : ts \in [1 .. n -> Tok]
    BY DEF Drafts
  <2>2. n \in Nat
    BY <2>1, DecodeAssumption
  <2> QED BY <2>1, <2>2, SeqDef
<1> QED BY <1>1

LEMMA DecodeNextKeeps ==
    ASSUME DecodeInv, Next
    PROVE  DecodeInv'
<1>1. CASE \E p \in Prompts, mtp, lookup, verify \in BOOLEAN, max \in MaxTokensSet : Begin(p, mtp, lookup, verify, max)
  <2>1. PICK p \in Prompts, mtp \in BOOLEAN, lookup \in BOOLEAN, verify \in BOOLEAN, max \in MaxTokensSet :
          Begin(p, mtp, lookup, verify, max)
    BY <1>1
  <2> QED BY <2>1, BeginKeeps
<1>2. CASE \E outcome \in Outcomes : Emit(outcome) \/ Accept(outcome) \/ Serial(outcome)
  BY <1>2, EmitKeeps, AcceptKeeps, SerialKeeps
<1>3. CASE \E ts \in Drafts : SerialDraft(ts)
  BY <1>3, DraftsAreTexts, SerialDraftKeeps
<1>4. CASE \E ts \in Drafts : \E seeded \in BOOLEAN : Prepare(ts, seeded) \/ PrepareCancelled(ts, seeded)
  BY <1>4, DraftsAreTexts, PrepareKeeps, PrepareCancelledKeeps
<1>5. CASE Cancel \/ AcceptCancelled
  BY <1>5, CancelKeeps, AcceptCancelledKeeps
<1>6. CASE Finish \/ FinishCancelled
  BY <1>6, FinishKeeps, FinishCancelledKeeps
<1>7. CASE Plain \/ End
  BY <1>7, PlainKeeps, EndKeeps
<1> QED BY <1>1, <1>2, <1>3, <1>4, <1>5, <1>6, <1>7 DEF Next

LEMMA DecodeStutters ==
    ASSUME DecodeInv, UNCHANGED vars
    PROVE  DecodeInv'
BY DEF vars, DecodeInv, DecodeTypes, Advertised, Requested, Settled, Speculating, TargetAt, HeadAt, BlockText, Pos, Count, Text, Seed

LEMMA DecodeInvariance == Spec => []DecodeInv
<1>1. Init => DecodeInv
  BY DecodeInit
<1>2. DecodeInv /\ [Next]_vars => DecodeInv'
  BY DecodeNextKeeps, DecodeStutters
<1> QED BY <1>1, <1>2, PTL DEF Spec

\* DecodeInv is what CommittedStateMatches promises.
LEMMA CommittedMatches ==
    ASSUME DecodeInv
    PROVE  CommittedStateMatches
<1>1. DecodeTypes /\ Advertised /\ Requested /\ Settled /\ Speculating
  BY DEF DecodeInv
<1>2. CASE step = "idle"
  <2>1. prefix.tokens \in Seq(Tok) /\ prefix.pending \in Seq(Tok)
    BY <1>1 DEF DecodeTypes
  <2>2. PICK text : text = prefix.tokens
    OBVIOUS
  <2>3. text \in Seq(Tok) /\ DOMAIN text = 1 .. Len(text) /\ SubSeq(text, 1, Len(text)) = text
    BY <2>1, <2>2, LenProperties, WholeText
  <2>4. TargetAt(kv, text, Len(text)) /\ (prefix.pending # NoMTP => prefix.pending = text /\ HeadAt(kv, text, Len(text)))
    BY <1>1, <1>2, <2>2 DEF Advertised
  <2>5. HoldsExactly(text, prefix.pending)
    BY <2>3, <2>4 DEF HoldsExactly, TargetAt, HeadAt
  <2> QED BY <1>2, <2>2, <2>5 DEF CommittedStateMatches
<1>3. CASE step # "idle"
  <2>1. /\ gen.resident \in Seq(Tok) /\ Text \in Seq(Tok) /\ Pos \in Nat /\ Len(Text) \in Nat /\ Pos <= Len(Text)
        /\ gen.resident = SubSeq(Text, 1, Pos) /\ (block.active <=> step \in {"verify", "finish"})
    BY <1>3, InRequest
  <2>2. PICK text : text = gen.resident
    OBVIOUS
  <2>3. /\ text \in Seq(Tok) /\ DOMAIN text = 1 .. Len(text) /\ SubSeq(text, 1, Len(text)) = text
        /\ Pos = Len(text) /\ text = SubSeq(Text, 1, Pos)
    BY <2>1, <2>2, LenProperties, WholeText DEF Pos
  <2>4. IsPrefix(text, Text)
    BY <2>1, <2>3 DEF IsPrefix
  <2>5. ASSUME ~block.active PROVE HoldsExactly(text, IF gen.mtp THEN kv.pending ELSE NoMTP)
    <3>1. step \notin {"idle", "verify", "finish"}
      BY <1>3, <2>1, <2>5
    <3>2. TargetAt(kv, text, Pos) /\ (gen.mtp => HeadAt(kv, text, Pos))
      BY <1>1, <2>2, <3>1 DEF Settled
    <3> QED BY <2>3, <3>2 DEF HoldsExactly, TargetAt, HeadAt
  <2> QED BY <1>3, <2>2, <2>4, <2>5 DEF CommittedStateMatches
<1> QED BY <1>2, <1>3

-----------------------------------------------------------------------------
(* Speculation is lossless: the steps of greedy decoding. *)

\* A step that emits nothing.
LEMMA ColdStays ==
    ASSUME step # "idle", step' # "idle", TextOf(gen') = TextOf(gen)
    PROVE  [Cold!Next]_(Cold!vars)
BY DEF Cold!vars, Text, TextOf

\* A step that emits the greedy token.
LEMMA ColdEmits ==
    ASSUME step # "idle", step' # "idle", Text \in Seq(Tok), Len(Text) <= MaxSeqLen,
           TextOf(gen') = Append(Text, Choice(Text, Recent(Text)))
    PROVE  [Cold!Next]_(Cold!vars)
<1>1. Choice(Text, Recent(Text)) \in Tok
  BY ChoiceIn
<1>2. PICK t \in Tok : t = Choice(Text, Recent(Text))
  BY <1>1
<1>3. t = Greedy(Text, 1)
  BY <1>2 DEF Greedy
<1>4. Text' = Append(Text, t)
  BY <1>2 DEF Text, TextOf
<1>5. Cold!Emit
  BY <1>3, <1>4 DEF Cold!Emit, Cold!Idle
<1> QED BY <1>5 DEF Cold!Next

LEMMA ColdBegins ==
    ASSUME DecodeInv, NEW prompt \in Prompts, NEW mtp \in BOOLEAN, NEW lookup \in BOOLEAN, NEW verify \in BOOLEAN,
           NEW max \in MaxTokensSet, Begin(prompt, mtp, lookup, verify, max)
    PROVE  [Cold!Next]_(Cold!vars)
<1>1. step = "idle" /\ step' = "emit"
  BY DEF Begin
<1>2. gen'.prompt = prompt /\ gen'.generated = <<>>
  BY DEF Begin, NoGen
<1>3. prompt \in Seq(Tok)
  BY DecodeAssumption
<1>4. Text' = prompt
  BY <1>2, <1>3, ConcatEmptySeq DEF Text
<1>5. Cold!Ask
  <2>1. \E g \in BOOLEAN, r \in {1} : g = TRUE /\ r = 1
    OBVIOUS
  <2> QED BY <1>1, <1>4, <2>1 DEF Cold!Ask, Cold!Idle
<1> QED BY <1>5 DEF Cold!Next

LEMMA ColdKept ==
    ASSUME DecodeInv, NEW outcome, Emit(outcome)
    PROVE  [Cold!Next]_(Cold!vars)
<1>1. step = "emit" /\ step' # "idle"
  BY DEF Emit
<1>2. /\ gen \in Gens /\ Text \in Seq(Tok) /\ Text = gen.resident /\ gen.recent = Recent(Text)
      /\ gen.next = Choice(Text, Recent(Text)) /\ Len(Text) <= MaxSeqLen
  BY <1>1, InRequest DEF DecodeInv, Requested, Pos
<1>3. Text = TextOf(gen)
  BY DEF Text, TextOf
<1>4. CASE outcome = "kept"
  <2>1. gen' = Keep(gen, gen.next)
    BY <1>4 DEF Emit
  <2>2. gen.next \in Tok
    BY <1>2, ChoiceIn
  <2>3. TextOf(gen') = Append(TextOf(gen), gen.next)
    BY <1>2, <1>3, <2>1, <2>2, KeepAt, ZenonT(90)
  <2> QED BY <1>1, <1>2, <1>3, <2>3, ColdEmits
<1>5. CASE outcome # "kept"
  <2>1. gen' = gen
    BY <1>5 DEF Emit
  <2> QED BY <1>1, <2>1, ColdStays
<1> QED BY <1>4, <1>5

\* The next draft of a block, and what the target would choose in its place.
LEMMA AtCandidate ==
    ASSUME DecodeInv, step = "verify", NEW upto, upto = block.checked + 1
    PROVE  /\ upto \in Nat /\ upto >= 1 /\ upto < Count /\ block.inputs[upto + 1] \in Tok
           /\ Text = Beyond(gen, block, upto) /\ Len(Text) = Pos + upto
           /\ Append(Text, block.inputs[upto + 1]) = Beyond(gen, block, upto + 1)
           /\ block.predictions[upto] = Choice(Text, Recent(Text))
<1>1. /\ block \in Blocks /\ RequestOf(gen) /\ BlockRows(kv, gen, block) /\ BlockAt(gen, block, "verify")
  BY StaysInside
<1>2. gen.resident \in Seq(Tok) /\ block.inputs \in Seq(Tok) /\ block.checked \in Nat
  BY <1>1 DEF RequestOf, Gens, Blocks
<1>3. PICK p \in Nat, i \in Nat, k \in Nat : p = Len(gen.resident) /\ i = upto /\ k = Len(block.inputs)
  BY <1>2, LenProperties
<1>4. i < k /\ i >= 1 /\ Text = Beyond(gen, block, i)
  <2>1. block.checked + 1 < Len(block.inputs) /\ Text = Beyond(gen, block, block.checked + 1)
    BY <1>1 DEF BlockAt, Text, TextOf
  <2>2. i < k
    BY <1>3, <2>1
  <2>3. i >= 1
    BY <1>2, <1>3
  <2> QED BY <1>3, <2>1, <2>2, <2>3
<1>5. i <= Len(block.inputs) /\ p = Len(gen.resident) /\ i < Len(block.inputs) /\ i \in 1 .. k
  BY <1>3, <1>4
<1>6. Len(Beyond(gen, block, i)) = p + i
  BY <1>2, <1>5, BlockTexts
<1>7. /\ Append(Beyond(gen, block, i), block.inputs[i + 1]) = Beyond(gen, block, i + 1)
      /\ block.inputs[i + 1] \in Tok
  BY <1>2, <1>5, BlockTexts
<1>8. block.predictions[i] = Choice(Beyond(gen, block, i), Recent(Beyond(gen, block, i)))
  BY <1>1, <1>3, <1>5 DEF BlockRows
<1> QED BY <1>3, <1>4, <1>6, <1>7, <1>8 DEF Count, Pos

LEMMA ColdAccepts ==
    ASSUME DecodeInv, NEW outcome, Accept(outcome)
    PROVE  [Cold!Next]_(Cold!vars)
<1>1. step = "verify" /\ step # "idle"
  BY DEF Accept
<1>2. PICK i : i = block.checked + 1
  OBVIOUS
<1>3. block.inputs[i + 1] \in Tok /\ block.predictions[i] = Choice(Text, Recent(Text)) /\ i < Count
  BY <1>1, <1>2, AtCandidate
<1>4. gen \in Gens /\ Text \in Seq(Tok) /\ gen.recent = Recent(Text) /\ Text = TextOf(gen)
  BY <1>1, InRequest DEF Text, TextOf
<1>5. Len(Text) <= MaxSeqLen
  <2>1. i \in Nat /\ i < Count /\ Len(Text) = Pos + i
    BY <1>1, <1>2, AtCandidate
  <2>2. Pos + Count <= MaxSeqLen /\ Pos \in Nat /\ Count \in Nat
    <3>1. block \in Blocks /\ BlockRows(kv, gen, block) /\ gen.resident \in Seq(Tok)
      BY <1>1, StaysInside, InRequest
    <3>2. Count \in Nat /\ Pos \in Nat
      BY <3>1, LenProperties DEF Count, Pos, Blocks
    <3> QED BY <3>1, <3>2 DEF BlockRows, Count, Pos
  <2> QED BY <2>1, <2>2, DecodeAssumption
<1>6. step' # "idle"
  BY <1>1 DEF Accept, Commit, Abort
<1>7. CASE gen' = gen
  BY <1>1, <1>6, <1>7, ColdStays
<1>8. CASE gen' # gen
  <2>1. block.predictions[i] = block.inputs[i + 1] /\ gen' = Keep(gen, block.inputs[i + 1])
    BY <1>2, <1>8 DEF Accept, Abort
  <2>2. PICK t : t = block.inputs[i + 1]
    OBVIOUS
  <2>3. t \in Tok /\ t = Choice(Text, Recent(Text)) /\ gen' = Keep(gen, t)
    BY <1>3, <2>1, <2>2
  <2>4. TextOf(gen') = Append(TextOf(gen), t)
    BY <1>4, <2>3, KeepAt, ZenonT(90)
  <2> QED BY <1>1, <1>4, <1>5, <1>6, <2>3, <2>4, ColdEmits
<1> QED BY <1>7, <1>8

LEMMA ColdVerifies ==
    ASSUME DecodeInv, NEW outcome, Serial(outcome)
    PROVE  [Cold!Next]_(Cold!vars)
<1>1. step = "serial" /\ step # "idle" /\ step' # "idle"
  BY DEF Serial
<1>2. gen \in Gens /\ Text \in Seq(Tok) /\ gen.recent = Recent(Text) /\ gen.resident \in Seq(Tok) /\ Text = TextOf(gen)
  BY <1>1, InRequest DEF Text, TextOf
<1>3. Len(Text) <= MaxSeqLen /\ Text = Append(gen.resident, Seed)
  BY <1>1, AtSeed
<1>4. PICK read : read = Forward(kv, Seed, Pos + 1)
  OBVIOUS
<1>5. read.rows[Pos + 1] = Text /\ Choice(Text, Recent(Text)) \in Tok
  BY <1>1, <1>4, SeedRead
<1>6. PICK g : g = [gen EXCEPT !.resident = Append(@, Seed), !.seeded = FALSE]
  OBVIOUS
<1>7. g \in Gens /\ TextOf(g) = TextOf(gen) /\ g.recent = gen.recent /\ g.drafts = gen.drafts /\ g.generated = gen.generated
      /\ g.prompt = gen.prompt
  <2>1. PICK text : text = Text
    OBVIOUS
  <2>2. g = [gen EXCEPT !.resident = text, !.seeded = FALSE]
    BY <1>3, <1>6, <2>1
  <2>3. /\ g \in Gens /\ g.prompt = gen.prompt /\ g.generated = gen.generated /\ g.recent = gen.recent /\ g.drafts = gen.drafts
    BY <1>2, <2>1, <2>2 DEF Gens
  <2> QED BY <2>3 DEF TextOf
<1>8. PICK target : target = Choice(Text, Recent(Text))
  OBVIOUS
<1>9. target = Choice(read.rows[Pos + 1], gen.recent)
  BY <1>2, <1>5, <1>8
<1>10. CASE outcome = "kept" /\ g.drafts # <<>> /\ Head(g.drafts) = target
  <2>1. gen' = Keep([g EXCEPT !.drafts = Tail(@)], target)
    BY <1>4, <1>6, <1>9, <1>10 DEF Serial
  <2>2. PICK h : h = [g EXCEPT !.drafts = Tail(@)]
    OBVIOUS
  <2>3. PICK rest : rest = Tail(g.drafts)
    OBVIOUS
  <2>4. rest \in Seq(Tok)
    <3>1. g.drafts \in Seq(Tok)
      BY <1>7 DEF Gens
    <3> QED BY <1>10, <2>3, <3>1, HeadTailProperties
  <2>5. h = [g EXCEPT !.drafts = rest]
    BY <2>2, <2>3
  <2>6. h \in Gens /\ h.prompt = g.prompt /\ h.generated = g.generated /\ h.recent = g.recent
    BY <1>7, <2>4, <2>5 DEF Gens
  <2>7. TextOf(h) = TextOf(gen) /\ h.recent = Recent(TextOf(h))
    BY <1>2, <1>7, <2>6 DEF TextOf
  <2>8. TextOf(gen') = Append(TextOf(h), target)
    BY <1>5, <1>8, <2>1, <2>2, <2>6, <2>7, KeepAt, ZenonT(90)
  <2> QED BY <1>1, <1>2, <1>3, <1>8, <2>7, <2>8, ColdEmits
<1>11. CASE ~(outcome = "kept" /\ g.drafts # <<>> /\ Head(g.drafts) = target)
  <2>1. gen' = g \/ gen' = [g EXCEPT !.next = target, !.drafts = <<>>]
    BY <1>4, <1>6, <1>9, <1>11 DEF Serial
  <2>2. gen'.prompt = g.prompt /\ gen'.generated = g.generated
    BY <1>7, <2>1 DEF Gens
  <2>3. TextOf(gen') = TextOf(gen)
    BY <1>7, <2>2 DEF TextOf
  <2> QED BY <1>1, <2>3, ColdStays
<1> QED BY <1>10, <1>11

LEMMA ColdEnds ==
    ASSUME DecodeInv, End
    PROVE  [Cold!Next]_(Cold!vars)
<1>1. step = "end" /\ step' = "idle" /\ gen' = NoGen
  BY DEF End
<1>2. Text' = <<>>
  BY <1>1, EmptySeq, ConcatEmptySeq DEF Text, NoGen
<1>3. Cold!End
  BY <1>1, <1>2 DEF Cold!End, Cold!Idle
<1> QED BY <1>3 DEF Cold!Next

\* Everything else drafts, reads, checks or takes back, and emits nothing.
LEMMA ColdWaits ==
    ASSUME DecodeInv,
           \/ Cancel \/ AcceptCancelled \/ Finish \/ FinishCancelled \/ Plain
           \/ \E ts \in Drafts : SerialDraft(ts)
           \/ \E ts \in Drafts : \E seeded \in BOOLEAN : Prepare(ts, seeded) \/ PrepareCancelled(ts, seeded)
    PROVE  [Cold!Next]_(Cold!vars)
<1>1. step # "idle" /\ step' # "idle"
  BY DEF Cancel, AcceptCancelled, Abort, Finish, FinishCancelled, Plain, SerialDraft, Prepare, PrepareCancelled, MayDraft
<1>2. gen \in Gens
  BY DEF DecodeInv, DecodeTypes
<1>3. gen'.prompt = gen.prompt /\ gen'.generated = gen.generated
  BY <1>2 DEF Gens, Cancel, AcceptCancelled, Abort, Finish, FinishCancelled, Plain, SerialDraft, Prepare, PrepareCancelled
<1>4. TextOf(gen') = TextOf(gen)
  BY <1>3 DEF TextOf
<1> QED BY <1>1, <1>4, ColdStays

LEMMA ColdSteps ==
    ASSUME DecodeInv, Next
    PROVE  [Cold!Next]_(Cold!vars)
<1>1. CASE \E p \in Prompts, mtp, lookup, verify \in BOOLEAN, max \in MaxTokensSet : Begin(p, mtp, lookup, verify, max)
  <2>1. PICK p \in Prompts, mtp \in BOOLEAN, lookup \in BOOLEAN, verify \in BOOLEAN, max \in MaxTokensSet :
          Begin(p, mtp, lookup, verify, max)
    BY <1>1
  <2> QED BY <2>1, ColdBegins
<1>2. CASE \E outcome \in Outcomes : Emit(outcome) \/ Accept(outcome) \/ Serial(outcome)
  BY <1>2, ColdKept, ColdAccepts, ColdVerifies
<1>3. CASE End
  BY <1>3, ColdEnds
<1>4. CASE \/ Cancel \/ AcceptCancelled \/ Finish \/ FinishCancelled \/ Plain
           \/ \E ts \in Drafts : SerialDraft(ts)
           \/ \E ts \in Drafts : \E seeded \in BOOLEAN : Prepare(ts, seeded) \/ PrepareCancelled(ts, seeded)
  BY <1>4, ColdWaits
<1> QED BY <1>1, <1>2, <1>3, <1>4 DEF Next

LEMMA ColdStutters ==
    ASSUME UNCHANGED vars
    PROVE  [Cold!Next]_(Cold!vars)
BY DEF vars, Cold!vars, Text

LEMMA ColdStarts ==
    ASSUME Init
    PROVE  Cold!Init
<1>1. step = "idle" /\ gen = NoGen
  BY DEF Init
<1>2. Text = <<>>
  BY <1>1, EmptySeq, ConcatEmptySeq DEF Text, NoGen
<1> QED BY <1>1, <1>2 DEF Cold!Init, Cold!Idle

LEMMA Lossless == Spec => SpeculationIsLossless
<1>1. Init => Cold!Init
  BY ColdStarts
<1>2. DecodeInv /\ [Next]_vars => [Cold!Next]_(Cold!vars)
  BY ColdSteps, ColdStutters
<1> QED BY <1>1, <1>2, DecodeInvariance, PTL DEF Spec, SpeculationIsLossless, Cold!Spec

LEMMA DecodeBehaviour == SpecOne => Spec
<1>1. InitOne => Init
  BY DEF InitOne
<1>2. [NextOne]_allVars => [Next]_vars
  BY DEF NextOne, allVars, vars
<1> QED BY <1>1, <1>2, PTL DEF SpecOne, Spec

\* THEOREM: whatever a block accepted, rejected or was cancelled in, afterwards exactly the
\* committed text is resident: attention rows, the recurrent state and the draft head's rows
\* and boundary (finishSpeculativeBlock, abortSpeculativeBlock and prefixReuseWithMTP).
THEOREM SpeculationTakesBack == SpecOne => []CommittedStateMatches
<1>1. DecodeInv => CommittedStateMatches
  BY CommittedMatches
<1> QED BY <1>1, DecodeBehaviour, DecodeInvariance, PTL

\* THEOREM: whatever is drafted, the tokens emitted are those of greedy decoding one token at
\* a time, each under the penalty of the tokens before it (the decode loop of
\* generateChatStreamUntil, prepareSpeculativeBlock and the histories it verifies with).
THEOREM SpeculativeIsSerial == SpecOne => SpeculationIsLossless
BY DecodeBehaviour, Lossless, PTL

-----------------------------------------------------------------------------
(* Live sessions. *)

LEMMA AudioBehaviour == SpecOne => Audio!Spec
<1>1. InitOne => Audio!Init
  BY DEF InitOne
<1>2. [NextOne]_allVars => [Audio!Next]_(Audio!vars)
  BY DEF NextOne, allVars, audioVars, Audio!vars
<1> QED BY <1>1, <1>2, PTL DEF SpecOne, Audio!Spec

ClientRecords ==
    [pc : {"idle", "createsem", "open", "reserve", "warm", "register", "pushsem", "lock", "begin", "push", "end",
           "remove", "close", "topen", "treserve", "decode"},
     path : Paths \cup {None}, session : Sessions \cup {None}, model : Models \cup {None}, over : BOOLEAN]
SessionRecords ==
    [where : {"none", "map", "removed", "expired", "closed"}, lock : Clients \cup {None}, closed : BOOLEAN, busy : BOOLEAN,
     fresh : BOOLEAN, timer : {"off", "armed", "fired", "closing"}, model : Models \cup {None}]
ModelRecords == [path : Paths \cup {None}, mapped : BOOLEAN, active : BOOLEAN, closed : BOOLEAN]

AudioTypes ==
    /\ batch \in BOOLEAN /\ active \in BOOLEAN
    /\ session \in [Sessions -> SessionRecords]
    /\ model \in [Models -> ModelRecords]
    /\ cached \in Models \cup {None}
    /\ client \in [Clients -> ClientRecords]

\* What a request holds where it is: a model it opened, a session it found, that session's
\* mutex, or a session it removed and nobody else did.
RequestsAt ==
    /\ \A c \in Clients :
         LET s == client[c].session
         IN  /\ client[c].pc \in {"reserve", "warm", "register", "treserve", "decode"} => client[c].model \in Models
             /\ client[c].pc = "warm" => ~batch
             /\ client[c].pc \in {"pushsem", "lock", "begin", "push", "end", "remove", "close"} => s \in Sessions
             /\ client[c].pc \in {"pushsem", "lock"} => Audio!Present(s) \/ session[s].closed
             /\ client[c].pc \in {"begin", "push", "end"} => session[s].lock = c /\ Audio!Present(s)
             /\ client[c].pc = "close" => session[s].where = "removed"
    /\ \A c, d \in Clients : Audio!At(c, "close") /\ Audio!At(d, "close") => c = d

SessionsAt ==
    \A s \in Sessions :
      /\ Audio!Present(s) => session[s].model \in Models
      /\ session[s].where = "map" => session[s].timer \in {"armed", "fired"}
      /\ session[s].timer = "closing" => session[s].where = "expired"

\* A model somebody still knows is the cached one or closed; the weights of a closed one
\* stay while it is in use.
Lifetimes ==
    /\ \A c \in Clients : client[c].model \in Models => client[c].model = cached \/ model[client[c].model].closed
    /\ \A s \in Sessions : session[s].model \in Models => session[s].model = cached \/ model[session[s].model].closed
    /\ \A m \in Models : /\ m = cached => ~model[m].closed
                         /\ model[m].mapped <=> model[m].active \/ m = cached

\* Two sets have at most one element between them, and the flag says whether they have it.
Alone(A, B) == (\A x, y \in A : x = y) /\ (\A x, y \in B : x = y) /\ (A = {} \/ B = {})
Taken(A, B) == A # {} \/ B # {}
OneOwner(A, B, flag) == Alone(A, B) /\ (flag <=> Taken(A, B))

Creators == {c \in Clients : Audio!Creating(c)}
Living   == {s \in Sessions : Audio!Present(s)}

Uses(c, m) == \/ client[c].pc \in {"warm", "decode"} /\ client[c].model = m
              \/ ~batch /\ Audio!At(c, "register") /\ client[c].model = m
              \/ batch /\ Audio!At(c, "push") /\ session[client[c].session].model = m
Users(m)   == {c \in Clients : Uses(c, m)}
Holders(m) == {s \in Sessions : ~batch /\ Audio!Present(s) /\ session[s].model = m}

TokenHeld == OneOwner(Creators, Living, active)
ModelHeld == \A m \in Models : OneOwner(Users(m), Holders(m), model[m].active)

AudioInv == AudioTypes /\ RequestsAt /\ SessionsAt /\ Lifetimes /\ TokenHeld /\ ModelHeld

\* The flag is taken by one when nobody had it, handed on, or given back.
LEMMA OwnerTakes ==
    ASSUME NEW A, NEW B, ~Taken(A, B), NEW x
    PROVE  /\ Alone(A \cup {x}, B) /\ Taken(A \cup {x}, B)
           /\ Alone(A, B \cup {x}) /\ Taken(A, B \cup {x})
BY DEF Alone, Taken

LEMMA OwnerPasses ==
    ASSUME NEW A, NEW B, Alone(A, B), NEW x \in A, NEW y
    PROVE  Alone(A \ {x}, B \cup {y}) /\ Taken(A \ {x}, B \cup {y})
BY DEF Alone, Taken

LEMMA OwnerLeaves ==
    ASSUME NEW A, NEW B, Alone(A, B)
    PROVE  /\ \A x \in A : Alone(A \ {x}, B) /\ ~Taken(A \ {x}, B)
           /\ \A y \in B : Alone(A, B \ {y}) /\ ~Taken(A, B \ {y})
BY DEF Alone, Taken

\* One token is one element of the two sets.
LEMMA OneOwnerCounts ==
    ASSUME NEW A, NEW B, NEW f \in BOOLEAN, OneOwner(A, B, f)
    PROVE  Cardinality(A) + Cardinality(B) = IF f THEN 1 ELSE 0
<1>1. ASSUME NEW S, \A x, y \in S : x = y
      PROVE  Cardinality(S) = IF S = {} THEN 0 ELSE 1
  <2>1. CASE S = {}
    BY <2>1, FS_EmptySet
  <2>2. CASE S # {}
    <3>1. PICK x \in S : S = {x}
      BY <1>1, <2>2
    <3> QED BY <2>2, <3>1, FS_Singleton
  <2> QED BY <2>1, <2>2
<1>2. /\ Cardinality(A) = IF A = {} THEN 0 ELSE 1
      /\ Cardinality(B) = IF B = {} THEN 0 ELSE 1
  BY <1>1 DEF OneOwner, Alone
<1>3. (A = {} \/ B = {}) /\ (f <=> A # {} \/ B # {})
  BY DEF OneOwner, Alone, Taken
<1> QED BY <1>2, <1>3

LEMMA CreateKeeps ==
    ASSUME AudioInv, NEW c \in Clients, NEW path \in Paths, Audio!Create(c, path)
    PROVE  AudioInv'
<1>1. /\ AudioTypes /\ RequestsAt /\ SessionsAt /\ Lifetimes /\ TokenHeld /\ ModelHeld
      /\ Audio!At(c, "idle") /\ ~active /\ active' = TRUE
      /\ client' = [client EXCEPT ![c].pc = "createsem", ![c].path = path]
      /\ batch' = batch /\ session' = session /\ model' = model /\ cached' = cached
  BY DEF AudioInv, Audio!Create, Audio!cacheVars
<1>2. AudioTypes'
  <2>1. PICK r : r = [client[c] EXCEPT !.pc = "createsem", !.path = path]
    OBVIOUS
  <2>2. r \in ClientRecords
    BY <1>1, <2>1 DEF AudioTypes, ClientRecords
  <2>3. client' = [client EXCEPT ![c] = r]
    BY <1>1, <2>1 DEF AudioTypes, ClientRecords
  <2> QED BY <1>1, <2>2, <2>3 DEF AudioTypes
<1>3. RequestsAt'
  BY <1>1 DEF AudioTypes, ClientRecords, RequestsAt, Audio!At, Audio!Present
<1>4. SessionsAt'
  BY <1>1 DEF SessionsAt, Audio!Present
<1>5. Lifetimes'
  BY <1>1 DEF AudioTypes, ClientRecords, Lifetimes
<1>6. TokenHeld'
  <2>1. Creators' = Creators \cup {c} /\ Living' = Living
    BY <1>1 DEF AudioTypes, ClientRecords, Creators, Audio!Creating, Living, Audio!Present
  <2> QED BY <1>1, <2>1, OwnerTakes DEF TokenHeld, OneOwner
<1>7. ModelHeld'
  <2>1. ASSUME NEW m \in Models PROVE Users(m)' = Users(m) /\ Holders(m)' = Holders(m)
    BY <1>1 DEF AudioTypes, ClientRecords, Users, Uses, Holders, Audio!Present, Audio!At
  <2> QED BY <1>1, <2>1 DEF ModelHeld
<1> QED BY <1>2, <1>3, <1>4, <1>5, <1>6, <1>7 DEF AudioInv

\* A request goes on, or returns, with nothing given to it or taken from it.
LEMMA Walks ==
    ASSUME AudioInv, NEW c \in Clients, NEW r \in ClientRecords, client' = [client EXCEPT ![c] = r],
           batch' = batch, active' = active, session' = session, model' = model, cached' = cached,
           r.model \in Models => r.model = client[c].model \/ r.model = cached,
           client[c].pc \notin {"warm", "decode", "register", "push"},
           r.pc \in {"idle", "createsem", "open", "reserve", "pushsem", "lock", "remove", "topen", "treserve"},
           r.pc \in {"pushsem", "lock", "remove"} => r.session \in Sessions /\ (Audio!Present(r.session) \/ session[r.session].closed),
           r.pc \in {"reserve", "treserve"} => r.model \in Models,
           Audio!Creating(c) <=> r.pc \in {"createsem", "open", "reserve", "warm", "register"}
    PROVE  AudioInv'
<1>1. /\ AudioTypes /\ RequestsAt /\ SessionsAt /\ Lifetimes /\ TokenHeld /\ ModelHeld
  BY DEF AudioInv
<1>2. AudioTypes'
  BY <1>1 DEF AudioTypes
<1>3. RequestsAt'
  BY <1>1 DEF AudioTypes, ClientRecords, RequestsAt, Audio!At, Audio!Present
<1>4. SessionsAt'
  BY <1>1 DEF SessionsAt, Audio!Present
<1>5. Lifetimes'
  BY <1>1 DEF AudioTypes, ClientRecords, Lifetimes
<1>6. TokenHeld'
  <2>1. Creators' = Creators /\ Living' = Living
    BY <1>1 DEF AudioTypes, ClientRecords, Creators, Audio!Creating, Living, Audio!Present
  <2> QED BY <1>1, <2>1 DEF TokenHeld
<1>7. ModelHeld'
  <2>1. ASSUME NEW m \in Models PROVE Users(m)' = Users(m) /\ Holders(m)' = Holders(m)
    BY <1>1 DEF AudioTypes, ClientRecords, Users, Uses, Holders, Audio!Present, Audio!At
  <2> QED BY <1>1, <2>1 DEF ModelHeld
<1> QED BY <1>2, <1>3, <1>4, <1>5, <1>6, <1>7 DEF AudioInv

LEMMA IdleRecord ==
    Audio!Idle \in ClientRecords /\ Audio!Idle.pc = "idle" /\ Audio!Idle.model = None /\ None \notin Models /\ None \notin Clients
BY NobodyAssumption DEF Audio!Idle, ClientRecords

LEMMA WaitsKeep ==
    ASSUME AudioInv, NEW c \in Clients,
           \/ Audio!CreateWait(c) \/ Audio!PushWait(c) \/ Audio!PushGiveUp(c)
           \/ \E s \in Sessions : Audio!Push(c, s) \/ Audio!Delete(c, s)
           \/ \E path \in Paths : Audio!Transcribe(c, path)
    PROVE  AudioInv'
<1>1. /\ batch' = batch /\ active' = active /\ session' = session /\ model' = model /\ cached' = cached
      /\ AudioTypes /\ RequestsAt
  BY DEF AudioInv, Audio!CreateWait, Audio!PushWait, Audio!PushGiveUp, Audio!Push, Audio!Delete, Audio!Transcribe, Audio!cacheVars, Audio!closing
<1>2. CASE Audio!CreateWait(c)
  <2>1. PICK r : r = [client[c] EXCEPT !.pc = "open"]
    OBVIOUS
  <2>2. client' = [client EXCEPT ![c] = r] /\ client[c].pc = "createsem"
    BY <1>1, <1>2, <2>1 DEF Audio!CreateWait, Audio!Goto, Audio!At, AudioTypes
  <2>3. r \in ClientRecords /\ r.pc = "open" /\ r.model = client[c].model
    BY <1>1, <2>1 DEF AudioTypes, ClientRecords
  <2> QED BY <1>1, <2>2, <2>3, Walks DEF Audio!Creating
<1>3. CASE Audio!PushWait(c)
  <2>1. PICK r : r = [client[c] EXCEPT !.pc = "lock"]
    OBVIOUS
  <2>2. client' = [client EXCEPT ![c] = r] /\ client[c].pc = "pushsem"
    BY <1>1, <1>3, <2>1 DEF Audio!PushWait, Audio!Goto, Audio!At, AudioTypes
  <2>3. r \in ClientRecords /\ r.pc = "lock" /\ r.model = client[c].model /\ r.session = client[c].session
    BY <1>1, <2>1 DEF AudioTypes, ClientRecords
  <2>4. r.session \in Sessions /\ (Audio!Present(r.session) \/ session[r.session].closed)
    BY <1>1, <2>2, <2>3 DEF RequestsAt
  <2> QED BY <1>1, <2>2, <2>3, <2>4, Walks DEF Audio!Creating
<1>4. CASE Audio!PushGiveUp(c)
  <2>1. client' = [client EXCEPT ![c] = Audio!Idle] /\ client[c].pc = "pushsem"
    BY <1>1, <1>4 DEF Audio!PushGiveUp, Audio!Return, Audio!At
  <2> QED BY <1>1, <2>1, IdleRecord, Walks DEF Audio!Creating
<1>5. ASSUME NEW s \in Sessions, Audio!Push(c, s) \/ Audio!Delete(c, s) PROVE AudioInv'
  <2>1. PICK pc \in {"pushsem", "remove"} : client' = [client EXCEPT ![c].pc = pc, ![c].session = s]
    BY <1>5 DEF Audio!Push, Audio!Delete
  <2>2. client[c].pc = "idle" /\ session[s].where = "map"
    BY <1>5 DEF Audio!Push, Audio!Delete, Audio!At
  <2>3. PICK r : r = [client[c] EXCEPT !.pc = pc, !.session = s]
    OBVIOUS
  <2>4. r \in ClientRecords /\ r.pc = pc /\ r.model = client[c].model /\ r.session = s
    BY <1>1, <2>1, <2>3 DEF AudioTypes, ClientRecords
  <2>5. client' = [client EXCEPT ![c] = r]
    BY <1>1, <2>1, <2>3 DEF AudioTypes, ClientRecords
  <2>6. Audio!Present(s)
    BY <2>2 DEF Audio!Present
  <2> QED BY <1>1, <2>2, <2>4, <2>5, <2>6, Walks DEF Audio!Creating
<1>6. ASSUME NEW path \in Paths, Audio!Transcribe(c, path) PROVE AudioInv'
  <2>1. client' = [client EXCEPT ![c].pc = "topen", ![c].path = path] /\ client[c].pc = "idle"
    BY <1>6 DEF Audio!Transcribe, Audio!At
  <2>2. PICK r : r = [client[c] EXCEPT !.pc = "topen", !.path = path]
    OBVIOUS
  <2>3. r \in ClientRecords /\ r.pc = "topen" /\ r.model = client[c].model
    BY <1>1, <2>2 DEF AudioTypes, ClientRecords
  <2>4. client' = [client EXCEPT ![c] = r]
    BY <1>1, <2>1, <2>2 DEF AudioTypes, ClientRecords
  <2> QED BY <1>1, <2>1, <2>3, <2>4, Walks DEF Audio!Creating
<1> QED BY <1>2, <1>3, <1>4, <1>5, <1>6

\* A request that creates a session and has no model in use gives the token back.
LEMMA AbandonsKeep ==
    ASSUME AudioInv, NEW c \in Clients, client[c].pc \in {"createsem", "reserve", "register"}, client[c].pc = "register" => batch,
           client' = [client EXCEPT ![c] = Audio!Idle], active' = FALSE,
           batch' = batch, session' = session, model' = model, cached' = cached
    PROVE  AudioInv'
<1>1. /\ AudioTypes /\ RequestsAt /\ SessionsAt /\ Lifetimes /\ TokenHeld /\ ModelHeld
  BY DEF AudioInv
<1>2. AudioTypes'
  BY <1>1, IdleRecord DEF AudioTypes
<1>3. RequestsAt'
  BY <1>1, IdleRecord DEF AudioTypes, ClientRecords, RequestsAt, Audio!At, Audio!Present
<1>4. SessionsAt'
  BY <1>1 DEF SessionsAt, Audio!Present
<1>5. Lifetimes'
  BY <1>1, IdleRecord DEF AudioTypes, ClientRecords, Lifetimes
<1>6. TokenHeld'
  <2>1. Creators' = Creators \ {c} /\ c \in Creators /\ Living' = Living
    BY <1>1, IdleRecord DEF AudioTypes, ClientRecords, Creators, Audio!Creating, Living, Audio!Present
  <2> QED BY <1>1, <2>1, OwnerLeaves DEF TokenHeld, OneOwner
<1>7. ModelHeld'
  <2>1. ASSUME NEW m \in Models PROVE Users(m)' = Users(m) /\ Holders(m)' = Holders(m)
    BY <1>1, IdleRecord DEF AudioTypes, ClientRecords, Users, Uses, Holders, Audio!Present, Audio!At
  <2> QED BY <1>1, <2>1 DEF ModelHeld
<1> QED BY <1>2, <1>3, <1>4, <1>5, <1>6, <1>7 DEF AudioInv

LEMMA CreateGiveUpKeeps ==
    ASSUME AudioInv, NEW c \in Clients, Audio!CreateGiveUp(c)
    PROVE  AudioInv'
<1>1. /\ client[c].pc = "createsem" /\ active' = FALSE /\ client' = [client EXCEPT ![c] = Audio!Idle]
      /\ batch' = batch /\ session' = session /\ model' = model /\ cached' = cached
  BY DEF Audio!CreateGiveUp, Audio!Abandon, Audio!Return, Audio!At, Audio!cacheVars
<1> QED BY <1>1, AbandonsKeep

\* The cached model is closed to make room for another file.
LEMMA Evicted ==
    ASSUME AudioInv, NEW stale, stale = IF cached = None THEN model ELSE [model EXCEPT ![cached] = Audio!ClosedModel(@)]
    PROVE  /\ stale \in [Models -> ModelRecords]
           /\ \A m \in Models : /\ stale[m].active = model[m].active
                                /\ stale[m].closed = (model[m].closed \/ m = cached)
                                /\ stale[m].mapped = model[m].active
<1>1. AudioTypes /\ Lifetimes /\ None \notin Models
  BY IdleRecord DEF AudioInv
<1>2. CASE cached = None
  BY <1>1, <1>2 DEF AudioTypes, ModelRecords, Lifetimes
<1>3. CASE cached # None
  BY <1>1, <1>3, ZenonT(90) DEF AudioTypes, ModelRecords, Lifetimes, Audio!ClosedModel
<1> QED BY <1>2, <1>3

\* open, for a session or a transcription.
LEMMA OpenKeeps ==
    ASSUME AudioInv, NEW c \in Clients, NEW next, Audio!Open(c, next), batch' = batch, session' = session,
           \/ client[c].pc = "open" /\ next = "reserve"
           \/ client[c].pc = "topen" /\ next = "treserve"
    PROVE  AudioInv'
<1>1. /\ AudioTypes /\ RequestsAt /\ SessionsAt /\ Lifetimes /\ TokenHeld /\ ModelHeld
  BY DEF AudioInv
<1>2. PICK stale : stale = IF cached = None THEN model ELSE [model EXCEPT ![cached] = Audio!ClosedModel(@)]
  OBVIOUS
<1>3. /\ stale \in [Models -> ModelRecords]
      /\ \A m \in Models : /\ stale[m].active = model[m].active
                           /\ stale[m].closed = (model[m].closed \/ m = cached)
                           /\ stale[m].mapped = model[m].active
  BY <1>2, Evicted
<1>4. CASE cached # None /\ model[cached].path = client[c].path
  <2>1. /\ client' = [client EXCEPT ![c].pc = next, ![c].model = cached]
        /\ model' = model /\ cached' = cached /\ active' = active
    BY <1>4 DEF Audio!Open, Audio!cacheVars
  <2>2. cached \in Models
    BY <1>1, <1>4 DEF AudioTypes
  <2>3. PICK r : r = [client[c] EXCEPT !.pc = next, !.model = cached]
    OBVIOUS
  <2>4. r \in ClientRecords /\ r.pc = next /\ r.model = cached
    BY <1>1, <2>2, <2>3 DEF AudioTypes, ClientRecords
  <2>5. client' = [client EXCEPT ![c] = r]
    BY <1>1, <2>1, <2>3 DEF AudioTypes, ClientRecords
  <2> QED BY <2>1, <2>2, <2>4, <2>5, Walks DEF Audio!Creating
<1>5. ASSUME NEW m \in Models, ~Audio!Known(m),
             model' = [stale EXCEPT ![m] = [Audio!NoModel EXCEPT !.path = client[c].path, !.mapped = TRUE]],
             cached' = m, client' = [client EXCEPT ![c].pc = next, ![c].model = m], active' = active
      PROVE  AudioInv'
  <2>1. /\ m # cached /\ ~model[m].mapped
        /\ \A d \in Clients : client[d].model # m
        /\ \A s \in Sessions : Audio!Present(s) => session[s].model # m
    BY <1>5 DEF Audio!Known, Audio!Present
  <2>2. PICK fresh : fresh = [Audio!NoModel EXCEPT !.path = client[c].path, !.mapped = TRUE]
    OBVIOUS
  <2>3. fresh \in ModelRecords /\ fresh.mapped /\ ~fresh.active /\ ~fresh.closed
    BY <1>1, <2>2 DEF AudioTypes, ClientRecords, ModelRecords, Audio!NoModel
  <2>4. model' = [stale EXCEPT ![m] = fresh]
    BY <1>5, <2>2
  <2>5. AudioTypes'
    <3>1. model' \in [Models -> ModelRecords]
      BY <1>3, <2>3, <2>4
    <3>2. client' \in [Clients -> ClientRecords]
      BY <1>1, <1>5, ZenonT(90) DEF AudioTypes, ClientRecords
    <3> QED BY <1>1, <1>5, <3>1, <3>2 DEF AudioTypes
  <2>6. RequestsAt'
    BY <1>1, <1>5 DEF AudioTypes, ClientRecords, RequestsAt, Audio!At, Audio!Present
  <2>7. SessionsAt'
    BY <1>1 DEF SessionsAt, Audio!Present
  <2>8. Lifetimes'
    <3>1. \A d \in Clients : client'[d].model \in Models => client'[d].model = m \/ model'[client'[d].model].closed
      BY <1>1, <1>3, <1>5, <2>1, <2>4 DEF AudioTypes, ClientRecords, Lifetimes
    <3>2. \A s \in Sessions : session[s].model \in Models => session[s].model = m \/ model'[session[s].model].closed
      BY <1>1, <1>3, <2>4 DEF AudioTypes, Lifetimes
    <3>3. \A n \in Models : /\ n = m => ~model'[n].closed
                            /\ model'[n].mapped <=> model'[n].active \/ n = m
      BY <1>3, <2>3, <2>4
    <3> QED BY <1>5, <3>1, <3>2, <3>3 DEF Lifetimes
  <2>9. TokenHeld'
    <3>1. Creators' = Creators /\ Living' = Living
      BY <1>1, <1>5 DEF AudioTypes, ClientRecords, Creators, Audio!Creating, Living, Audio!Present
    <3> QED BY <1>1, <1>5, <3>1 DEF TokenHeld
  <2>10. ModelHeld'
    <3>1. ASSUME NEW n \in Models PROVE Users(n)' = Users(n) /\ Holders(n)' = Holders(n)
      BY <1>1, <1>5, <2>1 DEF AudioTypes, ClientRecords, Users, Uses, Holders, Audio!Present, Audio!At
    <3>2. Users(m) = {} /\ Holders(m) = {}
      BY <1>1, <2>1 DEF Users, Uses, Holders, Audio!At, RequestsAt
    <3>3. ASSUME NEW n \in Models PROVE OneOwner(Users(n), Holders(n), model'[n].active)
      <4>1. CASE n = m
        BY <1>3, <2>3, <2>4, <3>2, <4>1 DEF OneOwner, Alone, Taken
      <4>2. CASE n # m
        BY <1>1, <1>3, <2>4, <4>2 DEF ModelHeld
      <4> QED BY <4>1, <4>2
    <3> QED BY <3>1, <3>3 DEF ModelHeld
  <2> QED BY <2>5, <2>6, <2>7, <2>8, <2>9, <2>10 DEF AudioInv
<1>6. CASE /\ model' = stale /\ cached' = None /\ Audio!Return(c)
           /\ active' = (active /\ next # "reserve")
  <2>1. client' = [client EXCEPT ![c] = Audio!Idle]
    BY <1>6 DEF Audio!Return
  <2>2. AudioTypes'
    BY <1>1, <1>3, <1>6, <2>1, IdleRecord DEF AudioTypes
  <2>3. RequestsAt'
    BY <1>1, <2>1, IdleRecord DEF AudioTypes, ClientRecords, RequestsAt, Audio!At, Audio!Present
  <2>4. SessionsAt'
    BY <1>1 DEF SessionsAt, Audio!Present
  <2>5. Lifetimes'
    <3>1. \A d \in Clients : client'[d].model \in Models => model'[client'[d].model].closed
      BY <1>1, <1>3, <1>6, <2>1, IdleRecord, ZenonT(90) DEF AudioTypes, ClientRecords, Lifetimes
    <3>2. \A s \in Sessions : session[s].model \in Models => model'[session[s].model].closed
      BY <1>1, <1>3, <1>6 DEF AudioTypes, Lifetimes
    <3>3. \A n \in Models : n # None /\ (model'[n].mapped <=> model'[n].active)
      BY <1>3, <1>6, IdleRecord
    <3> QED BY <1>6, <3>1, <3>2, <3>3 DEF Lifetimes
  <2>6. TokenHeld'
    <3>1. Living' = Living
      BY DEF Living, Audio!Present
    <3>2. CASE next = "reserve"
      <4>1. Creators' = Creators \ {c} /\ c \in Creators
        BY <1>1, <2>1, <3>2, IdleRecord DEF AudioTypes, ClientRecords, Creators, Audio!Creating
      <4> QED BY <1>1, <1>6, <3>1, <3>2, <4>1, OwnerLeaves DEF TokenHeld, OneOwner
    <3>3. CASE next # "reserve"
      <4>1. Creators' = Creators
        BY <1>1, <2>1, <3>3, IdleRecord DEF AudioTypes, ClientRecords, Creators, Audio!Creating
      <4>2. active' = active
        BY <1>1, <1>6, <3>3 DEF AudioTypes
      <4> QED BY <1>1, <3>1, <4>1, <4>2 DEF TokenHeld
    <3> QED BY <3>2, <3>3
  <2>7. ModelHeld'
    <3>1. ASSUME NEW n \in Models PROVE Users(n)' = Users(n) /\ Holders(n)' = Holders(n)
      BY <1>1, <2>1, IdleRecord DEF AudioTypes, ClientRecords, Users, Uses, Holders, Audio!Present, Audio!At
    <3> QED BY <1>1, <1>3, <1>6, <3>1 DEF ModelHeld
  <2> QED BY <2>2, <2>3, <2>4, <2>5, <2>6, <2>7 DEF AudioInv
<1> QED BY <1>2, <1>4, <1>5, <1>6 DEF Audio!Open, Audio!cacheVars

\* Only one model is given back, or reserved; the others, and what is closed, stay.
Freed(now, which) ==
    /\ now \in [Models -> ModelRecords]
    /\ \A n \in Models : /\ now[n].active <=> model[n].active /\ n # which
                         /\ now[n].closed <=> model[n].closed
                         /\ n = cached => ~now[n].closed
                         /\ now[n].mapped <=> now[n].active \/ n = cached
Reserved(now, which) ==
    /\ now \in [Models -> ModelRecords]
    /\ \A n \in Models : /\ now[n].active <=> model[n].active \/ n = which
                         /\ now[n].closed <=> model[n].closed
                         /\ n = cached => ~now[n].closed
                         /\ now[n].mapped <=> now[n].active \/ n = cached

\* A model in use is given back: a closed one is unmapped.
LEMMA GivenBack ==
    ASSUME AudioInv, NEW which \in Models, NEW free, free = [model EXCEPT ![which] = Audio!Released(@)],
           which = cached \/ model[which].closed
    PROVE  Freed(free, which)
<1>1. AudioTypes /\ Lifetimes
  BY DEF AudioInv
<1>2. free \in [Models -> ModelRecords]
  BY <1>1 DEF AudioTypes, ModelRecords, Audio!Released
<1>3. ASSUME NEW n \in Models
      PROVE  /\ free[n].active <=> model[n].active /\ n # which
             /\ free[n].closed <=> model[n].closed
             /\ n = cached => ~free[n].closed
             /\ free[n].mapped <=> free[n].active \/ n = cached
  <2>1. CASE n = which
    BY <1>1, <2>1 DEF AudioTypes, ModelRecords, Audio!Released, Lifetimes
  <2>2. CASE n # which
    BY <1>1, <2>2 DEF AudioTypes, ModelRecords, Lifetimes
  <2> QED BY <2>1, <2>2
<1> QED BY <1>2, <1>3 DEF Freed

\* A model is reserved.
LEMMA TakenUp ==
    ASSUME AudioInv, NEW which \in Models, Audio!Reservable(which), NEW taken, taken = [model EXCEPT ![which].active = TRUE],
           which = cached \/ model[which].closed
    PROVE  Reserved(taken, which) /\ ~model[which].active
<1>1. AudioTypes /\ Lifetimes
  BY DEF AudioInv
<1>2. taken \in [Models -> ModelRecords]
  BY <1>1 DEF AudioTypes, ModelRecords
<1>3. ASSUME NEW n \in Models
      PROVE  /\ taken[n].active <=> model[n].active \/ n = which
             /\ taken[n].closed <=> model[n].closed
             /\ n = cached => ~taken[n].closed
             /\ taken[n].mapped <=> taken[n].active \/ n = cached
  <2>1. CASE n = which
    BY <1>1, <2>1 DEF AudioTypes, ModelRecords, Audio!Reservable, Lifetimes
  <2>2. CASE n # which
    BY <1>1, <2>2 DEF AudioTypes, ModelRecords, Lifetimes
  <2> QED BY <2>1, <2>2
<1> QED BY <1>2, <1>3 DEF Audio!Reservable, Reserved

\* A request reserves the model it opened, for its session or its transcription.
LEMMA ReservesKeep ==
    ASSUME AudioInv, NEW c \in Clients, NEW m, m = client[c].model, Audio!Reservable(m), NEW pc,
           \/ client[c].pc = "reserve" /\ pc = "warm" /\ ~batch
           \/ client[c].pc = "treserve" /\ pc = "decode",
           client' = [client EXCEPT ![c].pc = pc], model' = [model EXCEPT ![m].active = TRUE],
           batch' = batch, active' = active, session' = session, cached' = cached
    PROVE  AudioInv'
<1>1. /\ AudioTypes /\ RequestsAt /\ SessionsAt /\ Lifetimes /\ TokenHeld /\ ModelHeld
  BY DEF AudioInv
<1>2. m \in Models /\ (m = cached \/ model[m].closed)
  BY <1>1 DEF RequestsAt, Lifetimes
<1>3. Reserved(model', m) /\ ~model[m].active
  BY <1>2, TakenUp
<1>a. model' \in [Models -> ModelRecords]
  BY <1>3 DEF Reserved
<1>4. AudioTypes'
  <2>1. client' \in [Clients -> ClientRecords]
    BY <1>1 DEF AudioTypes, ClientRecords
  <2> QED BY <1>1, <1>a, <2>1 DEF AudioTypes
<1>5. RequestsAt'
  BY <1>1, <1>2 DEF AudioTypes, ClientRecords, RequestsAt, Audio!At, Audio!Present
<1>6. SessionsAt'
  BY <1>1 DEF SessionsAt, Audio!Present
<1>7. Lifetimes'
  <2>1. \A d \in Clients : client'[d].model = client[d].model
    BY <1>1 DEF AudioTypes, ClientRecords
  <2> QED BY <1>1, <1>3, <2>1 DEF Lifetimes, Reserved
<1>8. TokenHeld'
  <2>1. Creators' = Creators /\ Living' = Living
    BY <1>1 DEF AudioTypes, ClientRecords, Creators, Audio!Creating, Living, Audio!Present
  <2> QED BY <1>1, <2>1 DEF TokenHeld
<1>9. ModelHeld'
  <2>1. ASSUME NEW n \in Models
        PROVE  Users(n)' = (IF n = m THEN Users(n) \cup {c} ELSE Users(n)) /\ Holders(n)' = Holders(n)
    BY <1>1 DEF AudioTypes, ClientRecords, Users, Uses, Holders, Audio!Present, Audio!At
  <2>2. ASSUME NEW n \in Models PROVE OneOwner(Users(n)', Holders(n)', model'[n].active)
    <3>1. OneOwner(Users(n), Holders(n), model[n].active)
      BY <1>1 DEF ModelHeld
    <3>2. CASE n = m
      <4>1. ~model[n].active /\ model'[n].active
        BY <1>2, <1>3, <3>2 DEF Reserved
      <4>2. Alone(Users(n) \cup {c}, Holders(n)) /\ Taken(Users(n) \cup {c}, Holders(n))
        BY <3>1, <4>1, OwnerTakes DEF OneOwner
      <4>3. Users(n)' = Users(n) \cup {c} /\ Holders(n)' = Holders(n)
        BY <2>1, <3>2
      <4> QED BY <4>1, <4>2, <4>3 DEF OneOwner
    <3>3. CASE n # m
      <4>1. model'[n].active <=> model[n].active
        BY <1>3, <3>3 DEF Reserved
      <4> QED BY <2>1, <3>1, <3>3, <4>1 DEF OneOwner
    <3> QED BY <3>2, <3>3
  <2> QED BY <2>2 DEF ModelHeld
<1> QED BY <1>4, <1>5, <1>6, <1>7, <1>8, <1>9 DEF AudioInv

\* A request gives the model it reserved back and returns, and with it the token if it had it.
LEMMA GivesBackKeep ==
    ASSUME AudioInv, NEW c \in Clients, NEW m, m = client[c].model,
           \/ client[c].pc = "decode" /\ active' = active
           \/ client[c].pc = "warm" /\ active' = FALSE
           \/ client[c].pc = "register" /\ ~batch /\ active' = FALSE,
           client' = [client EXCEPT ![c] = Audio!Idle], model' = [model EXCEPT ![m] = Audio!Released(@)],
           batch' = batch, session' = session, cached' = cached
    PROVE  AudioInv'
<1>1. /\ AudioTypes /\ RequestsAt /\ SessionsAt /\ Lifetimes /\ TokenHeld /\ ModelHeld
  BY DEF AudioInv
<1>2. m \in Models /\ (m = cached \/ model[m].closed)
  BY <1>1 DEF RequestsAt, Lifetimes
<1>3. Freed(model', m)
  BY <1>2, GivenBack
<1>a. model' \in [Models -> ModelRecords]
  BY <1>3 DEF Freed
<1>4. AudioTypes'
  BY <1>1, <1>a, IdleRecord DEF AudioTypes
<1>5. RequestsAt'
  BY <1>1, IdleRecord DEF AudioTypes, ClientRecords, RequestsAt, Audio!At, Audio!Present
<1>6. SessionsAt'
  BY <1>1 DEF SessionsAt, Audio!Present
<1>7. Lifetimes'
  <2>1. \A d \in Clients : client'[d].model \in Models => client'[d].model = client[d].model
    BY <1>1, IdleRecord DEF AudioTypes, ClientRecords
  <2> QED BY <1>1, <1>3, <2>1 DEF Lifetimes, Freed
<1>8. TokenHeld'
  <2>1. Living' = Living
    BY DEF Living, Audio!Present
  <2>2. CASE client[c].pc = "decode"
    <3>1. Creators' = Creators
      BY <1>1, <2>2, IdleRecord DEF AudioTypes, ClientRecords, Creators, Audio!Creating
    <3> QED BY <1>1, <2>1, <2>2, <3>1 DEF TokenHeld
  <2>3. CASE client[c].pc # "decode"
    <3>1. Creators' = Creators \ {c} /\ c \in Creators /\ active' = FALSE
      BY <1>1, <2>3, IdleRecord DEF AudioTypes, ClientRecords, Creators, Audio!Creating
    <3> QED BY <1>1, <2>1, <3>1, OwnerLeaves DEF TokenHeld, OneOwner
  <2> QED BY <2>2, <2>3
<1>9. ModelHeld'
  <2>1. ASSUME NEW n \in Models
        PROVE  Users(n)' = (IF n = m THEN Users(n) \ {c} ELSE Users(n)) /\ Holders(n)' = Holders(n)
    BY <1>1, IdleRecord DEF AudioTypes, ClientRecords, Users, Uses, Holders, Audio!Present, Audio!At
  <2>2. c \in Users(m)
    BY DEF Users, Uses, Audio!At
  <2>3. ASSUME NEW n \in Models PROVE OneOwner(Users(n)', Holders(n)', model'[n].active)
    <3>1. OneOwner(Users(n), Holders(n), model[n].active)
      BY <1>1 DEF ModelHeld
    <3>2. CASE n = m
      <4>1. ~model'[n].active
        BY <1>3, <3>2 DEF Freed
      <4> QED BY <2>1, <2>2, <3>1, <3>2, <4>1, OwnerLeaves DEF OneOwner
    <3>3. CASE n # m
      <4>1. model'[n].active <=> model[n].active
        BY <1>3, <3>3 DEF Freed
      <4> QED BY <2>1, <3>1, <3>3, <4>1 DEF OneOwner
    <3> QED BY <3>2, <3>3
  <2> QED BY <2>3 DEF ModelHeld
<1> QED BY <1>4, <1>5, <1>6, <1>7, <1>8, <1>9 DEF AudioInv

\* NewSession, or the batch transcriber that only keeps the model.
LEMMA ReserveKeeps ==
    ASSUME AudioInv, NEW c \in Clients, Audio!Reserve(c)
    PROVE  AudioInv'
<1>1. /\ AudioTypes /\ RequestsAt /\ SessionsAt /\ Lifetimes /\ TokenHeld /\ ModelHeld
      /\ client[c].pc = "reserve" /\ batch' = batch /\ session' = session /\ cached' = cached
  BY DEF AudioInv, Audio!Reserve, Audio!At
<1>2. CASE batch
  <2>1. client' = [client EXCEPT ![c].pc = "register"] /\ active' = active /\ model' = model
    BY <1>2 DEF Audio!Reserve, Audio!Goto
  <2>2. AudioTypes'
    BY <1>1, <2>1 DEF AudioTypes, ClientRecords
  <2>3. RequestsAt'
    BY <1>1, <2>1 DEF AudioTypes, ClientRecords, RequestsAt, Audio!At, Audio!Present
  <2>4. SessionsAt'
    BY <1>1 DEF SessionsAt, Audio!Present
  <2>5. Lifetimes'
    BY <1>1, <2>1 DEF AudioTypes, ClientRecords, Lifetimes
  <2>6. TokenHeld'
    <3>1. Creators' = Creators /\ Living' = Living
      BY <1>1, <2>1 DEF AudioTypes, ClientRecords, Creators, Audio!Creating, Living, Audio!Present
    <3> QED BY <1>1, <2>1, <3>1 DEF TokenHeld
  <2>7. ModelHeld'
    <3>1. ASSUME NEW m \in Models PROVE Users(m)' = Users(m) /\ Holders(m)' = Holders(m)
      BY <1>1, <1>2, <2>1 DEF AudioTypes, ClientRecords, Users, Uses, Holders, Audio!Present, Audio!At
    <3> QED BY <1>1, <2>1, <3>1 DEF ModelHeld
  <2> QED BY <2>2, <2>3, <2>4, <2>5, <2>6, <2>7 DEF AudioInv
<1>3. CASE ~batch /\ Audio!Reservable(client[c].model)
  <2>1. /\ client' = [client EXCEPT ![c].pc = "warm"] /\ active' = active
        /\ model' = [model EXCEPT ![client[c].model].active = TRUE]
    BY <1>3 DEF Audio!Reserve, Audio!Goto
  <2> QED BY <1>1, <1>3, <2>1, ReservesKeep
<1>4. CASE ~batch /\ ~Audio!Reservable(client[c].model)
  <2>1. client' = [client EXCEPT ![c] = Audio!Idle] /\ active' = FALSE /\ model' = model
    BY <1>4 DEF Audio!Reserve, Audio!Abandon, Audio!Return
  <2> QED BY <1>1, <2>1, AbandonsKeep
<1> QED BY <1>2, <1>3, <1>4

\* Warming up the session works or gives everything back.
LEMMA WarmKeeps ==
    ASSUME AudioInv, NEW c \in Clients, Audio!Warm(c)
    PROVE  AudioInv'
<1>1. /\ AudioTypes /\ RequestsAt /\ SessionsAt /\ Lifetimes /\ TokenHeld /\ ModelHeld
      /\ client[c].pc = "warm" /\ batch' = batch /\ session' = session /\ cached' = cached
  BY DEF AudioInv, Audio!Warm, Audio!At
<1>2. ~batch
  BY <1>1 DEF RequestsAt
<1>3. CASE Audio!Goto(c, "register") /\ UNCHANGED <<sem, active, model>>
  <2>1. client' = [client EXCEPT ![c].pc = "register"] /\ active' = active /\ model' = model
    BY <1>3 DEF Audio!Goto
  <2>2. AudioTypes'
    BY <1>1, <2>1 DEF AudioTypes, ClientRecords
  <2>3. RequestsAt'
    BY <1>1, <2>1 DEF AudioTypes, ClientRecords, RequestsAt, Audio!At, Audio!Present
  <2>4. SessionsAt'
    BY <1>1 DEF SessionsAt, Audio!Present
  <2>5. Lifetimes'
    BY <1>1, <2>1 DEF AudioTypes, ClientRecords, Lifetimes
  <2>6. TokenHeld'
    <3>1. Creators' = Creators /\ Living' = Living
      BY <1>1, <2>1 DEF AudioTypes, ClientRecords, Creators, Audio!Creating, Living, Audio!Present
    <3> QED BY <1>1, <2>1, <3>1 DEF TokenHeld
  <2>7. ModelHeld'
    <3>1. ASSUME NEW m \in Models PROVE Users(m)' = Users(m) /\ Holders(m)' = Holders(m)
      BY <1>1, <1>2, <2>1 DEF AudioTypes, ClientRecords, Users, Uses, Holders, Audio!Present, Audio!At
    <3> QED BY <1>1, <2>1, <3>1 DEF ModelHeld
  <2> QED BY <2>2, <2>3, <2>4, <2>5, <2>6, <2>7 DEF AudioInv
<1>4. CASE Audio!Abandon(c) /\ model' = Audio!Dismissed(client[c].model)
  <2>1. client' = [client EXCEPT ![c] = Audio!Idle] /\ active' = FALSE /\ model' = [model EXCEPT ![client[c].model] = Audio!Released(@)]
    BY <1>2, <1>4 DEF Audio!Abandon, Audio!Return, Audio!Dismissed
  <2> QED BY <1>1, <2>1, GivesBackKeep
<1> QED BY <1>3, <1>4 DEF Audio!Warm

LEMMA RegisterFailsKeeps ==
    ASSUME AudioInv, NEW c \in Clients, Audio!RegisterFails(c)
    PROVE  AudioInv'
<1>1. /\ client[c].pc = "register" /\ batch' = batch /\ session' = session /\ cached' = cached
      /\ client' = [client EXCEPT ![c] = Audio!Idle] /\ active' = FALSE /\ model' = Audio!Dismissed(client[c].model)
  BY DEF Audio!RegisterFails, Audio!Abandon, Audio!Return, Audio!At
<1>2. CASE batch
  <2>1. model' = model
    BY <1>1, <1>2 DEF Audio!Dismissed
  <2> QED BY <1>1, <1>2, <2>1, AbandonsKeep
<1>3. CASE ~batch
  <2>1. model' = [model EXCEPT ![client[c].model] = Audio!Released(@)]
    BY <1>1, <1>3 DEF Audio!Dismissed
  <2> QED BY <1>1, <1>3, <2>1, GivesBackKeep
<1> QED BY <1>2, <1>3

LEMMA TranscribeReserveKeeps ==
    ASSUME AudioInv, NEW c \in Clients, Audio!TranscribeReserve(c)
    PROVE  AudioInv'
<1>1. /\ client[c].pc = "treserve" /\ batch' = batch /\ session' = session /\ cached' = cached /\ active' = active
  BY DEF Audio!TranscribeReserve, Audio!At
<1>2. CASE Audio!Reservable(client[c].model)
  <2>1. client' = [client EXCEPT ![c].pc = "decode"] /\ model' = [model EXCEPT ![client[c].model].active = TRUE]
    BY <1>2 DEF Audio!TranscribeReserve, Audio!Goto
  <2> QED BY <1>1, <1>2, <2>1, ReservesKeep
<1>3. CASE ~Audio!Reservable(client[c].model)
  <2>1. client' = [client EXCEPT ![c] = Audio!Idle] /\ model' = model
    BY <1>3 DEF Audio!TranscribeReserve, Audio!Return
  <2> QED BY <1>1, <2>1, IdleRecord, Walks DEF Audio!Creating
<1> QED BY <1>2, <1>3

LEMMA DecodeKeeps ==
    ASSUME AudioInv, NEW c \in Clients, Audio!Decode(c)
    PROVE  AudioInv'
<1>1. /\ client[c].pc = "decode" /\ batch' = batch /\ session' = session /\ cached' = cached /\ active' = active
      /\ client' = [client EXCEPT ![c] = Audio!Idle] /\ model' = [model EXCEPT ![client[c].model] = Audio!Released(@)]
  BY DEF Audio!Decode, Audio!At, Audio!Return
<1> QED BY <1>1, GivesBackKeep

\* The session enters the map: the token and the model are its own now.
LEMMA RegisterKeeps ==
    ASSUME AudioInv, NEW c \in Clients, Audio!Register(c)
    PROVE  AudioInv'
<1>1. /\ AudioTypes /\ RequestsAt /\ SessionsAt /\ Lifetimes /\ TokenHeld /\ ModelHeld
      /\ client[c].pc = "register" /\ client' = [client EXCEPT ![c] = Audio!Idle]
      /\ batch' = batch /\ active' = active /\ model' = model /\ cached' = cached
  BY DEF AudioInv, Audio!Register, Audio!Return, Audio!At, Audio!cacheVars
<1>2. PICK s \in Sessions :
        /\ session[s].where = "none" /\ session[s].timer = "off" /\ \A d \in Clients : client[d].session # s
        /\ session' = [session EXCEPT ![s] = [Audio!NoSession EXCEPT !.where = "map", !.timer = "armed", !.model = client[c].model]]
  BY DEF Audio!Register
<1>3. client[c].model \in Models
  BY <1>1 DEF RequestsAt
<1>4. PICK r : r = [Audio!NoSession EXCEPT !.where = "map", !.timer = "armed", !.model = client[c].model]
  OBVIOUS
<1>5. r \in SessionRecords /\ r.where = "map" /\ r.timer = "armed" /\ r.model = client[c].model
  BY <1>3, <1>4 DEF Audio!NoSession, SessionRecords
<1>6. session' = [session EXCEPT ![s] = r]
  BY <1>2, <1>4
<1>7. AudioTypes'
  BY <1>1, <1>5, <1>6, IdleRecord DEF AudioTypes
<1>8. RequestsAt'
  BY <1>1, <1>2, <1>5, <1>6, IdleRecord DEF AudioTypes, ClientRecords, SessionRecords, RequestsAt, Audio!At, Audio!Present
<1>9. SessionsAt'
  BY <1>1, <1>3, <1>5, <1>6 DEF AudioTypes, SessionRecords, SessionsAt, Audio!Present
<1>10. Lifetimes'
  <2>1. \A d \in Clients : client'[d].model \in Models => client'[d].model = client[d].model
    BY <1>1, IdleRecord DEF AudioTypes, ClientRecords
  <2>2. \A t \in Sessions : session'[t].model = session[t].model \/ session'[t].model = client[c].model
    BY <1>1, <1>5, <1>6 DEF AudioTypes
  <2> QED BY <1>1, <2>1, <2>2 DEF Lifetimes
<1>11. TokenHeld'
  <2>1. Creators' = Creators \ {c} /\ c \in Creators /\ Living' = Living \cup {s}
    BY <1>1, <1>5, <1>6, IdleRecord DEF AudioTypes, ClientRecords, Creators, Audio!Creating, Living, Audio!Present
  <2>2. Taken(Creators, Living)
    BY <2>1 DEF Taken
  <2> QED BY <1>1, <2>1, <2>2, OwnerPasses DEF TokenHeld, OneOwner
<1>12. ModelHeld'
  <2>1. CASE batch
    <3>1. ASSUME NEW m \in Models PROVE Users(m)' = Users(m) /\ Holders(m)' = Holders(m)
      BY <1>1, <1>2, <1>6, <2>1, IdleRecord DEF AudioTypes, ClientRecords, Users, Uses, Holders, Audio!At
    <3> QED BY <1>1, <3>1 DEF ModelHeld
  <2>2. CASE ~batch
    <3>1. ASSUME NEW m \in Models, m # client[c].model PROVE Users(m)' = Users(m) /\ Holders(m)' = Holders(m)
      BY <1>1, <1>2, <1>5, <1>6, <2>2, <3>1, IdleRecord DEF AudioTypes, ClientRecords, Users, Uses, Holders, Audio!Present, Audio!At
    <3>2. PICK m \in Models : m = client[c].model
      BY <1>3
    <3>3. /\ Users(m)' = Users(m) \ {c} /\ c \in Users(m)
          /\ Holders(m)' = Holders(m) \cup {s}
      BY <1>1, <1>2, <1>5, <1>6, <2>2, <3>2, IdleRecord DEF AudioTypes, ClientRecords, Users, Uses, Holders, Audio!Present, Audio!At
    <3>4. OneOwner(Users(m), Holders(m), model[m].active)
      BY <1>1 DEF ModelHeld
    <3>5. Taken(Users(m), Holders(m))
      BY <3>3 DEF Taken
    <3>6. Alone(Users(m) \ {c}, Holders(m) \cup {s}) /\ Taken(Users(m) \ {c}, Holders(m) \cup {s})
      BY <3>3, <3>4, OwnerPasses DEF OneOwner
    <3>7. OneOwner(Users(m)', Holders(m)', model'[m].active)
      BY <1>1, <3>3, <3>4, <3>5, <3>6 DEF OneOwner
    <3>8. ASSUME NEW n \in Models PROVE OneOwner(Users(n)', Holders(n)', model'[n].active)
      BY <1>1, <3>1, <3>2, <3>7 DEF ModelHeld
    <3> QED BY <3>8 DEF ModelHeld
  <2> QED BY <2>1, <2>2
<1> QED BY <1>7, <1>8, <1>9, <1>10, <1>11, <1>12 DEF AudioInv

\* A session changes and stays where it is and whose it is, its request goes on.
LEMMA StepsKeep ==
    ASSUME AudioInv, NEW c \in Clients, NEW s \in Sessions, NEW r \in ClientRecords, NEW x \in SessionRecords,
           client' = [client EXCEPT ![c] = r], session' = [session EXCEPT ![s] = x], s = client[c].session,
           batch' = batch, active' = active, model' = model, cached' = cached,
           x.where = session[s].where, x.model = session[s].model, x.timer = session[s].timer,
           session[s].closed => x.closed,
           r.model \in Models => r.model = client[c].model,
           client[c].pc \in {"lock", "begin", "push", "end"}, client[c].pc = "push" => ~batch,
           r.pc \in {"idle", "begin", "push", "end", "remove"}, r.pc = "push" => ~batch,
           r.pc # "idle" => r.session = s,
           r.pc \in {"begin", "push", "end"} => x.lock = c /\ Audio!Present(s),
           x.lock = session[s].lock \/ session[s].lock \in {None, c}
    PROVE  AudioInv'
<1>1. /\ AudioTypes /\ RequestsAt /\ SessionsAt /\ Lifetimes /\ TokenHeld /\ ModelHeld
  BY DEF AudioInv
<1>2. AudioTypes'
  BY <1>1 DEF AudioTypes
<1>3. RequestsAt'
  BY <1>1, IdleRecord DEF AudioTypes, ClientRecords, SessionRecords, RequestsAt, Audio!At, Audio!Present
<1>4. SessionsAt'
  BY <1>1 DEF AudioTypes, SessionsAt, Audio!Present
<1>5. Lifetimes'
  BY <1>1 DEF AudioTypes, ClientRecords, Lifetimes
<1>6. TokenHeld'
  <2>1. Creators' = Creators /\ Living' = Living
    BY <1>1 DEF AudioTypes, Creators, Audio!Creating, Living, Audio!Present
  <2> QED BY <1>1, <2>1 DEF TokenHeld
<1>7. ModelHeld'
  <2>1. ASSUME NEW m \in Models PROVE Users(m)' = Users(m) /\ Holders(m)' = Holders(m)
    BY <1>1 DEF AudioTypes, Users, Uses, Holders, Audio!Present, Audio!At
  <2> QED BY <1>1, <2>1 DEF ModelHeld
<1> QED BY <1>2, <1>3, <1>4, <1>5, <1>6, <1>7 DEF AudioInv

LEMMA LockKeeps ==
    ASSUME AudioInv, NEW c \in Clients, Audio!Lock(c)
    PROVE  AudioInv'
<1>1. /\ AudioTypes /\ RequestsAt /\ client[c].pc = "lock"
      /\ batch' = batch /\ active' = active /\ model' = model /\ cached' = cached
  BY DEF AudioInv, Audio!Lock, Audio!At, Audio!cacheVars
<1>2. PICK s \in Sessions : s = client[c].session
  BY <1>1 DEF RequestsAt
<1>3. session[s].lock = None
  BY <1>2 DEF Audio!Lock
<1>4. CASE session[s].closed
  <2>1. client' = [client EXCEPT ![c] = Audio!Idle] /\ session' = session
    BY <1>2, <1>4 DEF Audio!Lock, Audio!Return
  <2> QED BY <1>1, <2>1, IdleRecord, Walks DEF Audio!Creating
<1>5. CASE ~session[s].closed
  <2>1. client' = [client EXCEPT ![c].pc = "begin"] /\ session' = [session EXCEPT ![s].lock = c]
    BY <1>2, <1>5 DEF Audio!Lock, Audio!Goto
  <2>2. PICK r, x : r = [client[c] EXCEPT !.pc = "begin"] /\ x = [session[s] EXCEPT !.lock = c]
    OBVIOUS
  <2>3. client' = [client EXCEPT ![c] = r] /\ session' = [session EXCEPT ![s] = x]
    BY <1>1, <2>1, <2>2 DEF AudioTypes
  <2>4. r \in ClientRecords /\ r.pc = "begin" /\ r.model = client[c].model /\ r.session = s
    BY <1>1, <1>2, <2>2 DEF AudioTypes, ClientRecords
  <2>5. /\ x \in SessionRecords /\ x.where = session[s].where /\ x.model = session[s].model /\ x.timer = session[s].timer
        /\ x.closed = session[s].closed /\ x.lock = c
    BY <1>1, <2>2 DEF AudioTypes, SessionRecords
  <2>6. Audio!Present(s)
    BY <1>1, <1>2, <1>5 DEF RequestsAt
  <2> QED BY <1>1, <1>2, <1>3, <2>3, <2>4, <2>5, <2>6, StepsKeep
<1> QED BY <1>4, <1>5

LEMMA EndsKeep ==
    ASSUME AudioInv, NEW c \in Clients, Audio!End(c)
    PROVE  AudioInv'
<1>1. /\ AudioTypes /\ RequestsAt /\ client[c].pc = "end"
      /\ batch' = batch /\ active' = active /\ model' = model /\ cached' = cached
  BY DEF AudioInv, Audio!End, Audio!At, Audio!cacheVars
<1>2. PICK s \in Sessions : s = client[c].session
  BY <1>1 DEF RequestsAt
<1>3. session[s].lock = c
  BY <1>1, <1>2 DEF RequestsAt
<1>4. PICK x : x = [session[s] EXCEPT !.closed = @ \/ client[c].over, !.busy = FALSE, !.fresh = TRUE, !.lock = None]
  OBVIOUS
<1>5. session' = [session EXCEPT ![s] = x]
  BY <1>1, <1>2, <1>4 DEF Audio!End, AudioTypes, SessionRecords
<1>6. /\ x \in SessionRecords /\ x.where = session[s].where /\ x.model = session[s].model /\ x.timer = session[s].timer
      /\ session[s].closed => x.closed
  <2>1. session[s] \in SessionRecords
    BY <1>1 DEF AudioTypes
  <2>2. PICK gone \in BOOLEAN : gone = (session[s].closed \/ client[c].over)
    OBVIOUS
  <2>3. x = [session[s] EXCEPT !.closed = gone, !.busy = FALSE, !.fresh = TRUE, !.lock = None]
    BY <1>4, <2>2
  <2>4. x \in SessionRecords /\ x.where = session[s].where /\ x.model = session[s].model /\ x.timer = session[s].timer
    BY <2>1, <2>3 DEF SessionRecords
  <2>5. x.closed = gone
    BY <2>1, <2>3 DEF SessionRecords
  <2>6. session[s].closed => gone
    BY <2>2
  <2> QED BY <2>4, <2>5, <2>6
<1>7. PICK r : r = IF client[c].over THEN [client[c] EXCEPT !.pc = "remove"] ELSE Audio!Idle
  OBVIOUS
<1>8. /\ r \in ClientRecords /\ r.pc \in {"idle", "remove"} /\ (r.model \in Models => r.model = client[c].model)
      /\ r.pc # "idle" => r.session = s
  BY <1>1, <1>2, <1>7, IdleRecord DEF AudioTypes, ClientRecords
<1>9. client' = [client EXCEPT ![c] = r]
  BY <1>1, <1>7 DEF Audio!End, Audio!Goto, Audio!Return, AudioTypes
<1> QED BY <1>1, <1>2, <1>3, <1>5, <1>6, <1>8, <1>9, StepsKeep

LEMMA CreateOpenKeeps ==
    ASSUME AudioInv, NEW c \in Clients, Audio!CreateOpen(c) \/ Audio!TranscribeOpen(c)
    PROVE  AudioInv'
<1>1. CASE Audio!CreateOpen(c)
  BY <1>1, OpenKeeps DEF Audio!CreateOpen, Audio!At
<1>2. CASE Audio!TranscribeOpen(c)
  BY <1>2, OpenKeeps DEF Audio!TranscribeOpen, Audio!At
<1> QED BY <1>1, <1>2

\* The batch adapter reserves the model of the session it works for.
LEMMA BatchBeginsKeep ==
    ASSUME AudioInv, NEW c \in Clients, NEW s, s = client[c].session, NEW m, m = session[s].model, NEW x \in SessionRecords,
           client[c].pc = "begin", batch, Audio!Reservable(m),
           client' = [client EXCEPT ![c].pc = "push"], session' = [session EXCEPT ![s] = x],
           model' = [model EXCEPT ![m].active = TRUE],
           x.where = session[s].where, x.model = m, x.timer = session[s].timer, x.closed <=> session[s].closed,
           x.lock = session[s].lock,
           batch' = batch, active' = active, cached' = cached
    PROVE  AudioInv'
<1>1. /\ AudioTypes /\ RequestsAt /\ SessionsAt /\ Lifetimes /\ TokenHeld /\ ModelHeld
  BY DEF AudioInv
<1>b. s \in Sessions /\ Audio!Present(s)
  BY <1>1 DEF RequestsAt
<1>2. m \in Models /\ (m = cached \/ model[m].closed)
  BY <1>1, <1>b DEF SessionsAt, Lifetimes
<1>3. Reserved(model', m) /\ ~model[m].active
  BY <1>2, TakenUp
<1>a. model' \in [Models -> ModelRecords]
  BY <1>3 DEF Reserved
<1>4. AudioTypes'
  <2>1. client' \in [Clients -> ClientRecords]
    BY <1>1 DEF AudioTypes, ClientRecords
  <2>2. session' \in [Sessions -> SessionRecords]
    BY <1>1 DEF AudioTypes
  <2> QED BY <1>1, <1>a, <2>1, <2>2 DEF AudioTypes
<1>5. RequestsAt'
  BY <1>1, <1>2, <1>b, SMTT(60) DEF AudioTypes, ClientRecords, RequestsAt, Audio!At, Audio!Present
<1>6. SessionsAt'
  BY <1>1, <1>b DEF AudioTypes, SessionsAt, Audio!Present
<1>7. Lifetimes'
  <2>1. \A d \in Clients : client'[d].model = client[d].model
    BY <1>1 DEF AudioTypes, ClientRecords
  <2>2. \A t \in Sessions : session'[t].model = session[t].model
    BY <1>1, <1>b DEF AudioTypes
  <2> QED BY <1>1, <1>3, <2>1, <2>2, ZenonT(90) DEF Lifetimes, Reserved
<1>8. TokenHeld'
  <2>1. Creators' = Creators /\ Living' = Living
    BY <1>1, <1>b DEF AudioTypes, ClientRecords, Creators, Audio!Creating, Living, Audio!Present
  <2> QED BY <1>1, <2>1 DEF TokenHeld
<1>9. ModelHeld'
  <2>1. ASSUME NEW n \in Models
        PROVE  Users(n)' = (IF n = m THEN Users(n) \cup {c} ELSE Users(n)) /\ Holders(n)' = Holders(n)
    BY <1>1, <1>b DEF AudioTypes, ClientRecords, Users, Uses, Holders, Audio!Present, Audio!At
  <2>2. ASSUME NEW n \in Models PROVE OneOwner(Users(n)', Holders(n)', model'[n].active)
    <3>1. OneOwner(Users(n), Holders(n), model[n].active)
      BY <1>1 DEF ModelHeld
    <3>2. CASE n = m
      <4>1. ~model[n].active /\ model'[n].active
        BY <1>2, <1>3, <3>2 DEF Reserved
      <4>2. Alone(Users(n) \cup {c}, Holders(n)) /\ Taken(Users(n) \cup {c}, Holders(n))
        BY <3>1, <4>1, OwnerTakes DEF OneOwner
      <4>3. Users(n)' = Users(n) \cup {c} /\ Holders(n)' = Holders(n)
        BY <2>1, <3>2
      <4> QED BY <4>1, <4>2, <4>3 DEF OneOwner
    <3>3. CASE n # m
      <4>1. model'[n].active <=> model[n].active
        BY <1>3, <3>3 DEF Reserved
      <4> QED BY <2>1, <3>1, <3>3, <4>1 DEF OneOwner
    <3> QED BY <3>2, <3>3
  <2> QED BY <2>2 DEF ModelHeld
<1> QED BY <1>4, <1>5, <1>6, <1>7, <1>8, <1>9 DEF AudioInv

LEMMA PushBeginsKeep ==
    ASSUME AudioInv, NEW c \in Clients, Audio!Begin(c)
    PROVE  AudioInv'
<1>1. /\ AudioTypes /\ RequestsAt /\ client[c].pc = "begin"
      /\ batch' = batch /\ active' = active /\ cached' = cached
  BY DEF AudioInv, Audio!Begin, Audio!At
<1>2. PICK s \in Sessions : s = client[c].session
  BY <1>1 DEF RequestsAt
<1>3. session[s].lock = c /\ Audio!Present(s)
  BY <1>1, <1>2 DEF RequestsAt
<1>4. PICK x : x = [session[s] EXCEPT !.busy = TRUE, !.fresh = TRUE]
  OBVIOUS
<1>5. session' = [session EXCEPT ![s] = x]
  BY <1>1, <1>2, <1>4 DEF Audio!Begin, AudioTypes, SessionRecords
<1>6. /\ x \in SessionRecords /\ x.where = session[s].where /\ x.model = session[s].model /\ x.timer = session[s].timer
      /\ x.closed = session[s].closed /\ x.lock = c
  BY <1>1, <1>3, <1>4 DEF AudioTypes, SessionRecords
<1>7. CASE ~batch /\ Audio!Goto(c, "push") /\ model' = model
  <2>1. PICK r : r = [client[c] EXCEPT !.pc = "push"]
    OBVIOUS
  <2>2. client' = [client EXCEPT ![c] = r]
    BY <1>1, <1>7, <2>1 DEF Audio!Goto, AudioTypes
  <2>3. r \in ClientRecords /\ r.pc = "push" /\ r.model = client[c].model /\ r.session = s
    BY <1>1, <1>2, <2>1 DEF AudioTypes, ClientRecords
  <2> QED BY <1>1, <1>2, <1>3, <1>5, <1>6, <1>7, <2>2, <2>3, StepsKeep
<1>8. CASE /\ batch /\ Audio!Reservable(session[s].model) /\ Audio!Goto(c, "push")
           /\ model' = [model EXCEPT ![session[s].model].active = TRUE]
  <2>1. client' = [client EXCEPT ![c].pc = "push"]
    BY <1>8 DEF Audio!Goto
  <2> QED BY <1>1, <1>2, <1>3, <1>5, <1>6, <1>8, <2>1, BatchBeginsKeep
<1>9. ASSUME batch, model' = model, NEW over \in BOOLEAN, client' = [client EXCEPT ![c].pc = "end", ![c].over = over]
      PROVE  AudioInv'
  <2>1. PICK r : r = [client[c] EXCEPT !.pc = "end", !.over = over]
    OBVIOUS
  <2>2. client' = [client EXCEPT ![c] = r]
    BY <1>1, <1>9, <2>1 DEF AudioTypes, ClientRecords
  <2>3. r \in ClientRecords /\ r.pc = "end" /\ r.model = client[c].model /\ r.session = s
    BY <1>1, <1>2, <2>1 DEF AudioTypes, ClientRecords
  <2>4. batch' = batch /\ active' = active /\ model' = model /\ cached' = cached
    BY <1>1, <1>9
  <2> QED BY <1>1, <1>2, <1>3, <1>5, <1>6, <2>2, <2>3, <2>4, StepsKeep
<1> QED BY <1>2, <1>7, <1>8, <1>9 DEF Audio!Begin

\* The batch adapter gives the model of its session back.
LEMMA BatchInfersKeep ==
    ASSUME AudioInv, NEW c \in Clients, NEW s, s = client[c].session, NEW m, m = session[s].model, NEW r \in ClientRecords,
           client[c].pc = "push", batch, client' = [client EXCEPT ![c] = r], r.pc = "end", r.session = s,
           r.model = client[c].model, model' = [model EXCEPT ![m] = Audio!Released(@)],
           session' = session, batch' = batch, active' = active, cached' = cached
    PROVE  AudioInv'
<1>1. /\ AudioTypes /\ RequestsAt /\ SessionsAt /\ Lifetimes /\ TokenHeld /\ ModelHeld
  BY DEF AudioInv
<1>b. s \in Sessions /\ Audio!Present(s) /\ session[s].lock = c
  BY <1>1 DEF RequestsAt
<1>2. m \in Models /\ (m = cached \/ model[m].closed)
  BY <1>1, <1>b DEF SessionsAt, Lifetimes
<1>3. Freed(model', m)
  BY <1>2, GivenBack
<1>a. model' \in [Models -> ModelRecords]
  BY <1>3 DEF Freed
<1>4. AudioTypes'
  BY <1>1, <1>a DEF AudioTypes
<1>5. RequestsAt'
  BY <1>1, <1>b DEF AudioTypes, RequestsAt, Audio!At, Audio!Present
<1>6. SessionsAt'
  BY <1>1 DEF SessionsAt, Audio!Present
<1>7. Lifetimes'
  <2>1. \A d \in Clients : client'[d].model = client[d].model
    BY <1>1 DEF AudioTypes
  <2> QED BY <1>1, <1>3, <2>1 DEF Lifetimes, Freed
<1>8. TokenHeld'
  <2>1. Creators' = Creators /\ Living' = Living
    BY <1>1 DEF AudioTypes, Creators, Audio!Creating, Living, Audio!Present
  <2> QED BY <1>1, <2>1 DEF TokenHeld
<1>9. ModelHeld'
  <2>1. ASSUME NEW n \in Models
        PROVE  Users(n)' = (IF n = m THEN Users(n) \ {c} ELSE Users(n)) /\ Holders(n)' = Holders(n)
    BY <1>1 DEF AudioTypes, Users, Uses, Holders, Audio!Present, Audio!At
  <2>2. c \in Users(m)
    BY DEF Users, Uses, Audio!At
  <2>3. ASSUME NEW n \in Models PROVE OneOwner(Users(n)', Holders(n)', model'[n].active)
    <3>1. OneOwner(Users(n), Holders(n), model[n].active)
      BY <1>1 DEF ModelHeld
    <3>2. CASE n = m
      <4>1. ~model'[n].active
        BY <1>2, <1>3, <3>2 DEF Freed
      <4> QED BY <2>1, <2>2, <3>1, <3>2, <4>1, OwnerLeaves DEF OneOwner
    <3>3. CASE n # m
      <4>1. model'[n].active <=> model[n].active
        BY <1>3, <3>3 DEF Freed
      <4> QED BY <2>1, <3>1, <3>3, <4>1 DEF OneOwner
    <3> QED BY <3>2, <3>3
  <2> QED BY <2>3 DEF ModelHeld
<1> QED BY <1>4, <1>5, <1>6, <1>7, <1>8, <1>9 DEF AudioInv

LEMMA InferKeeps ==
    ASSUME AudioInv, NEW c \in Clients, Audio!Infer(c)
    PROVE  AudioInv'
<1>1. /\ AudioTypes /\ RequestsAt /\ client[c].pc = "push"
      /\ batch' = batch /\ active' = active /\ session' = session /\ cached' = cached
  BY DEF AudioInv, Audio!Infer, Audio!At
<1>2. PICK s \in Sessions : s = client[c].session
  BY <1>1 DEF RequestsAt
<1>3. session[s].lock = c /\ Audio!Present(s) /\ session[s] \in SessionRecords /\ session' = [session EXCEPT ![s] = session[s]]
  BY <1>1, <1>2 DEF RequestsAt, AudioTypes
<1>4. PICK over \in BOOLEAN : client' = [client EXCEPT ![c].pc = "end", ![c].over = over]
  BY DEF Audio!Infer
<1>5. PICK r : r = [client[c] EXCEPT !.pc = "end", !.over = over]
  OBVIOUS
<1>6. client' = [client EXCEPT ![c] = r]
  BY <1>1, <1>4, <1>5 DEF AudioTypes, ClientRecords
<1>7. r \in ClientRecords /\ r.pc = "end" /\ r.model = client[c].model /\ r.session = s
  BY <1>1, <1>2, <1>5 DEF AudioTypes, ClientRecords
<1>8. CASE batch
  <2>1. model' = [model EXCEPT ![session[s].model] = Audio!Released(@)]
    BY <1>2, <1>8 DEF Audio!Infer
  <2> QED BY <1>1, <1>2, <1>6, <1>7, <1>8, <2>1, BatchInfersKeep
<1>9. CASE ~batch
  <2>1. model' = model
    BY <1>9 DEF Audio!Infer
  <2> QED BY <1>1, <1>2, <1>3, <1>6, <1>7, <1>9, <2>1, StepsKeep
<1> QED BY <1>8, <1>9

\* Only one request takes a session out of the map.
LEMMA RemoveKeeps ==
    ASSUME AudioInv, NEW c \in Clients, Audio!Remove(c)
    PROVE  AudioInv'
<1>1. /\ AudioTypes /\ RequestsAt /\ SessionsAt /\ Lifetimes /\ TokenHeld /\ ModelHeld /\ client[c].pc = "remove"
      /\ batch' = batch /\ active' = active /\ model' = model /\ cached' = cached
  BY DEF AudioInv, Audio!Remove, Audio!At, Audio!cacheVars
<1>2. PICK s \in Sessions : s = client[c].session
  BY <1>1 DEF RequestsAt
<1>3. CASE session[s].where # "map"
  <2>1. client' = [client EXCEPT ![c] = Audio!Idle] /\ session' = session
    BY <1>2, <1>3 DEF Audio!Remove, Audio!Return
  <2> QED BY <1>1, <2>1, IdleRecord, Walks DEF Audio!Creating
<1>4. CASE session[s].where = "map"
  <2>1. PICK x : x = Audio!Detached(s, "removed")
    OBVIOUS
  <2>2. session' = [session EXCEPT ![s] = x] /\ client' = [client EXCEPT ![c].pc = "close"]
    BY <1>2, <1>4, <2>1 DEF Audio!Remove, Audio!Goto
  <2>3. /\ x \in SessionRecords /\ x.where = "removed" /\ x.timer # "closing" /\ x.model = session[s].model
        /\ x.closed = session[s].closed /\ x.lock = session[s].lock
    BY <1>1, <1>4, <2>1 DEF AudioTypes, SessionRecords, SessionsAt, Audio!Detached
  <2>4. AudioTypes'
    BY <1>1, <2>2, <2>3 DEF AudioTypes, ClientRecords
  <2>5. RequestsAt'
    <3>1. \A d \in Clients : client[d].pc # "close"
      <4>1. ASSUME NEW d \in Clients, client[d].pc = "close" PROVE FALSE
        <5>1. client[d].session \in Sessions /\ session[client[d].session].where = "removed"
          BY <1>1, <4>1 DEF RequestsAt
        <5>2. client[d].session \in Living /\ s \in Living
          BY <1>4, <5>1 DEF Living, Audio!Present
        <5>3. client[d].session = s
          BY <1>1, <5>2 DEF TokenHeld, OneOwner, Alone
        <5> QED BY <1>4, <5>1, <5>3
      <4> QED BY <4>1
    <3> QED BY <1>1, <1>2, <1>4, <2>2, <2>3, <3>1 DEF AudioTypes, ClientRecords, RequestsAt, Audio!At, Audio!Present
  <2>6. SessionsAt'
    BY <1>1, <1>4, <2>2, <2>3 DEF AudioTypes, SessionsAt, Audio!Present
  <2>7. Lifetimes'
    BY <1>1, <2>2, <2>3 DEF AudioTypes, ClientRecords, Lifetimes
  <2>8. TokenHeld'
    <3>1. Creators' = Creators /\ Living' = Living
      BY <1>1, <1>4, <2>2, <2>3 DEF AudioTypes, ClientRecords, Creators, Audio!Creating, Living, Audio!Present
    <3> QED BY <1>1, <3>1 DEF TokenHeld
  <2>9. ModelHeld'
    <3>1. ASSUME NEW m \in Models PROVE Users(m)' = Users(m) /\ Holders(m)' = Holders(m)
      BY <1>1, <1>4, <2>2, <2>3 DEF AudioTypes, ClientRecords, Users, Uses, Holders, Audio!Present, Audio!At
    <3> QED BY <1>1, <3>1 DEF ModelHeld
  <2> QED BY <2>4, <2>5, <2>6, <2>7, <2>8, <2>9 DEF AudioInv
<1> QED BY <1>3, <1>4

\* closeSession gives back the token and the model of a session nobody is pushing to.
LEMMA ClosesKeep ==
    ASSUME AudioInv, NEW s \in Sessions, Audio!CloseSession(s), Audio!Present(s), batch' = batch, cached' = cached,
           \/ client' = client /\ session[s].where # "removed"
           \/ \E c \in Clients : client[c].pc = "close" /\ client[c].session = s /\ client' = [client EXCEPT ![c] = Audio!Idle]
    PROVE  AudioInv'
<1>1. /\ AudioTypes /\ RequestsAt /\ SessionsAt /\ Lifetimes /\ TokenHeld /\ ModelHeld
      /\ session[s].lock = None /\ active' = FALSE /\ model' = Audio!Dismissed(session[s].model)
      /\ session' = [session EXCEPT ![s].closed = TRUE, ![s].where = "none", ![s].timer = "off"]
  BY DEF AudioInv, Audio!CloseSession
<1>2. PICK x : x = [session[s] EXCEPT !.closed = TRUE, !.where = "none", !.timer = "off"]
  OBVIOUS
<1>3. session' = [session EXCEPT ![s] = x]
  BY <1>1, <1>2 DEF AudioTypes, SessionRecords
<1>4. /\ x \in SessionRecords /\ x.where = "none" /\ x.timer = "off" /\ x.model = session[s].model
      /\ x.closed /\ x.lock = None
  BY <1>1, <1>2, ZenonT(90) DEF AudioTypes, SessionRecords
<1>5. PICK m : m = session[s].model
  OBVIOUS
<1>6. m \in Models /\ (m = cached \/ model[m].closed)
  BY <1>1, <1>5 DEF SessionsAt, Lifetimes
<1>7. batch => model' = model
  BY <1>1 DEF Audio!Dismissed
<1>8. ~batch => Freed(model', m)
  BY <1>1, <1>5, <1>6, GivenBack DEF Audio!Dismissed
<1>9. \A d \in Clients : /\ client'[d] = client[d] \/ (client'[d] = Audio!Idle /\ client[d].pc = "close")
                         /\ client'[d].pc = "close" => client'[d].session # s
  <2>1. CASE client' = client /\ session[s].where # "removed"
    BY <1>1, <2>1 DEF RequestsAt
  <2>2. ASSUME NEW c \in Clients, client[c].pc = "close", client[c].session = s, client' = [client EXCEPT ![c] = Audio!Idle]
        PROVE  \A d \in Clients : /\ client'[d] = client[d] \/ (client'[d] = Audio!Idle /\ client[d].pc = "close")
                                  /\ client'[d].pc = "close" => client'[d].session # s
    BY <1>1, <2>2, IdleRecord DEF AudioTypes, RequestsAt, Audio!At
  <2> QED BY <2>1, <2>2
<1>10. client' \in [Clients -> ClientRecords]
  BY <1>1, IdleRecord DEF AudioTypes
<1>11. \A d \in Clients : client[d].pc \in {"begin", "push", "end"} => client[d].session # s
  BY <1>1, IdleRecord DEF RequestsAt
<1>12. AudioTypes'
  <2>1. model' \in [Models -> ModelRecords]
    BY <1>1, <1>7, <1>8 DEF AudioTypes, Freed
  <2> QED BY <1>1, <1>3, <1>4, <1>10, <2>1, ZenonT(90) DEF AudioTypes
<1>13. RequestsAt'
  <2>1. ASSUME NEW d \in Clients, client'[d] = client[d], NEW t, t = client[d].session
        PROVE  /\ client[d].pc \in {"pushsem", "lock"} => session'[t].where # "none" \/ session'[t].closed
               /\ client[d].pc \in {"begin", "push", "end"} => session'[t].lock = d /\ session'[t].where # "none"
               /\ client[d].pc = "close" => session'[t].where = "removed"
    BY <1>1, <1>3, <1>4, <1>9, <1>11, <2>1 DEF AudioTypes, RequestsAt, Audio!Present
  <2>2. \A c, d \in Clients : Audio!At(c, "close")' /\ Audio!At(d, "close")' => Audio!At(c, "close") /\ Audio!At(d, "close")
    BY <1>9, IdleRecord DEF Audio!At
  <2>3. \A d \in Clients : client'[d] = client[d] \/ client'[d].pc = "idle"
    BY <1>9, IdleRecord
  <2>4. ASSUME NEW d \in Clients, NEW t, t = client'[d].session
        PROVE  /\ client'[d].pc \in {"reserve", "warm", "register", "treserve", "decode"} => client'[d].model \in Models
               /\ client'[d].pc = "warm" => ~batch'
               /\ client'[d].pc \in {"pushsem", "lock", "begin", "push", "end", "remove", "close"} => t \in Sessions
               /\ client'[d].pc \in {"pushsem", "lock"} => session'[t].where # "none" \/ session'[t].closed
               /\ client'[d].pc \in {"begin", "push", "end"} => session'[t].lock = d /\ session'[t].where # "none"
               /\ client'[d].pc = "close" => session'[t].where = "removed"
    <3>1. CASE client'[d] = client[d]
      <4>1. t = client[d].session
        BY <2>4, <3>1
      <4>2. /\ client[d].pc \in {"pushsem", "lock"} => session'[t].where # "none" \/ session'[t].closed
            /\ client[d].pc \in {"begin", "push", "end"} => session'[t].lock = d /\ session'[t].where # "none"
            /\ client[d].pc = "close" => session'[t].where = "removed"
        BY <2>1, <3>1, <4>1
      <4>3. /\ client[d].pc \in {"reserve", "warm", "register", "treserve", "decode"} => client[d].model \in Models
            /\ client[d].pc = "warm" => ~batch
            /\ client[d].pc \in {"pushsem", "lock", "begin", "push", "end", "remove", "close"} => t \in Sessions
        BY <1>1, <4>1 DEF RequestsAt
      <4> QED BY <3>1, <4>2, <4>3
    <3>2. CASE client'[d].pc = "idle"
      BY <3>2
    <3> QED BY <2>3, <3>1, <3>2
  <2>5. \A c, d \in Clients : Audio!At(c, "close")' /\ Audio!At(d, "close")' => c = d
    BY <1>1, <2>2 DEF RequestsAt
  <2> QED BY <2>4, <2>5 DEF RequestsAt, Audio!Present
<1>14. SessionsAt'
  BY <1>1, <1>3, <1>4 DEF AudioTypes, SessionsAt, Audio!Present
<1>15. Lifetimes'
  <2>1. \A d \in Clients : client'[d].model \in Models => client'[d].model = client[d].model
    BY <1>9, IdleRecord
  <2>2. \A t \in Sessions : session'[t].model = session[t].model
    BY <1>1, <1>3, <1>4 DEF AudioTypes
  <2>3. \A n \in Models : model'[n].closed <=> model[n].closed
    BY <1>7, <1>8 DEF Freed
  <2>4. \A n \in Models : /\ n = cached => ~model'[n].closed
                          /\ model'[n].mapped <=> model'[n].active \/ n = cached
    BY <1>1, <1>7, <1>8 DEF Lifetimes, Freed
  <2> QED BY <1>1, <2>1, <2>2, <2>3, <2>4 DEF Lifetimes
<1>16. TokenHeld'
  <2>1. Creators' = Creators
    BY <1>9, IdleRecord DEF Creators, Audio!Creating
  <2>2. Living' = Living \ {s} /\ s \in Living
    BY <1>1, <1>3, <1>4 DEF AudioTypes, Living, Audio!Present
  <2> QED BY <1>1, <2>1, <2>2, OwnerLeaves DEF TokenHeld, OneOwner
<1>17. ModelHeld'
  <2>1. ASSUME NEW n \in Models PROVE Users(n)' = Users(n)
    <3>1. \A t \in Sessions : session'[t].model = session[t].model
      BY <1>1, <1>3, <1>4 DEF AudioTypes
    <3>2. \A d \in Clients : Audio!At(d, "push") => client[d].session \in Sessions
      BY <1>1 DEF RequestsAt, Audio!At
    <3>3. ASSUME NEW d \in Clients PROVE Uses(d, n)' <=> Uses(d, n)
      BY <1>1, <1>9, <3>1, <3>2, IdleRecord DEF Uses, Audio!At
    <3> QED BY <3>3 DEF Users
  <2>2. CASE batch
    <3>1. ASSUME NEW n \in Models PROVE Holders(n)' = Holders(n)
      BY <2>2 DEF Holders
    <3> QED BY <1>1, <1>7, <2>1, <2>2, <3>1 DEF ModelHeld
  <2>3. CASE ~batch
    <3>1. ASSUME NEW n \in Models
          PROVE  Holders(n)' = IF n = m THEN Holders(n) \ {s} ELSE Holders(n)
      BY <1>1, <1>3, <1>4, <1>5 DEF AudioTypes, Holders, Audio!Present
    <3>2. s \in Holders(m)
      BY <1>5, <2>3 DEF Holders
    <3>3. ASSUME NEW n \in Models PROVE OneOwner(Users(n)', Holders(n)', model'[n].active)
      <4>1. OneOwner(Users(n), Holders(n), model[n].active)
        BY <1>1 DEF ModelHeld
      <4>2. CASE n = m
        <5>1. ~model'[n].active
          BY <1>6, <1>8, <2>3, <4>2 DEF Freed
        <5> QED BY <2>1, <3>1, <3>2, <4>1, <4>2, <5>1, OwnerLeaves DEF OneOwner
      <4>3. CASE n # m
        <5>1. model'[n].active <=> model[n].active
          BY <1>8, <2>3, <4>3 DEF Freed
        <5> QED BY <2>1, <3>1, <4>1, <4>3, <5>1 DEF OneOwner
      <4> QED BY <4>2, <4>3
    <3> QED BY <3>3 DEF ModelHeld
  <2> QED BY <2>2, <2>3
<1> QED BY <1>12, <1>13, <1>14, <1>15, <1>16, <1>17 DEF AudioInv

\* Timers and Close turn sessions from one state to the next; whose they are stays.
LEMMA TurnsKeep ==
    ASSUME AudioInv, session' \in [Sessions -> SessionRecords],
           \A t \in Sessions : /\ session'[t].model = session[t].model
                               /\ session'[t].lock = session[t].lock
                               /\ session'[t].closed <=> session[t].closed
                               /\ session[t].where = "none" <=> session'[t].where = "none"
                               /\ session[t].where = "removed" => session'[t].where = "removed"
                               /\ session'[t].where = "map" => session'[t].timer \in {"armed", "fired"}
                               /\ session'[t].timer = "closing" => session'[t].where = "expired",
           client' = client, batch' = batch, active' = active, model' = model, cached' = cached
    PROVE  AudioInv'
<1>1. /\ AudioTypes /\ RequestsAt /\ SessionsAt /\ Lifetimes /\ TokenHeld /\ ModelHeld
  BY DEF AudioInv
<1>2. AudioTypes'
  BY <1>1 DEF AudioTypes
<1>3. RequestsAt'
  BY <1>1 DEF RequestsAt, Audio!At, Audio!Present
<1>4. SessionsAt'
  BY <1>1 DEF SessionsAt, Audio!Present
<1>5. Lifetimes'
  BY <1>1 DEF Lifetimes
<1>6. TokenHeld'
  <2>1. Creators' = Creators /\ Living' = Living
    BY DEF Creators, Audio!Creating, Living, Audio!Present
  <2> QED BY <1>1, <2>1 DEF TokenHeld
<1>7. ModelHeld'
  <2>1. \A d \in Clients : Audio!At(d, "push") => client[d].session \in Sessions
    BY <1>1 DEF RequestsAt, Audio!At
  <2>2. ASSUME NEW m \in Models PROVE Users(m)' = Users(m) /\ Holders(m)' = Holders(m)
    BY <2>1 DEF Users, Uses, Holders, Audio!Present, Audio!At
  <2> QED BY <1>1, <2>2 DEF ModelHeld
<1> QED BY <1>2, <1>3, <1>4, <1>5, <1>6, <1>7 DEF AudioInv

LEMMA TimersKeep ==
    ASSUME AudioInv, NEW s \in Sessions, Audio!Fire(s) \/ Audio!Expire(s)
    PROVE  AudioInv'
<1>1. /\ AudioTypes /\ SessionsAt /\ client' = client
      /\ batch' = batch /\ active' = active /\ model' = model /\ cached' = cached
  BY DEF AudioInv, Audio!Fire, Audio!Expire, Audio!cacheVars
<1>2. PICK x \in SessionRecords :
        /\ session' = [session EXCEPT ![s] = x]
        /\ x.model = session[s].model /\ x.lock = session[s].lock /\ x.closed = session[s].closed
        /\ x.where = session[s].where \/ (session[s].where = "map" /\ x.where = "expired")
        /\ x.where = "map" => x.timer \in {"armed", "fired"}
        /\ x.timer = "closing" => x.where = "expired"
  <2>1. CASE Audio!Fire(s)
    <3>1. PICK x : x = [session[s] EXCEPT !.timer = "fired"]
      OBVIOUS
    <3>2. session' = [session EXCEPT ![s] = x]
      BY <1>1, <2>1, <3>1 DEF Audio!Fire, AudioTypes, SessionRecords
    <3>3. /\ x \in SessionRecords /\ x.timer = "fired"
          /\ x.model = session[s].model /\ x.lock = session[s].lock /\ x.closed = session[s].closed /\ x.where = session[s].where
      BY <1>1, <3>1 DEF AudioTypes, SessionRecords
    <3> QED BY <3>2, <3>3
  <2>2. CASE Audio!Expire(s)
    <3>1. PICK x : x = IF session[s].where # "map" THEN [session[s] EXCEPT !.timer = "off"]
                       ELSE IF session[s].busy \/ session[s].fresh THEN [session[s] EXCEPT !.timer = "armed", !.fresh = FALSE]
                       ELSE [session[s] EXCEPT !.where = "expired", !.timer = "closing"]
      OBVIOUS
    <3>2. session' = [session EXCEPT ![s] = x]
      BY <1>1, <2>2, <3>1 DEF Audio!Expire, AudioTypes
    <3>3. CASE session[s].where # "map"
      <4>1. /\ x \in SessionRecords /\ x.timer = "off"
            /\ x.model = session[s].model /\ x.lock = session[s].lock /\ x.closed = session[s].closed /\ x.where = session[s].where
        BY <1>1, <3>1, <3>3 DEF AudioTypes, SessionRecords
      <4> QED BY <3>2, <3>3, <4>1
    <3>4. CASE session[s].where = "map" /\ (session[s].busy \/ session[s].fresh)
      <4>1. /\ x \in SessionRecords /\ x.timer = "armed"
            /\ x.model = session[s].model /\ x.lock = session[s].lock /\ x.closed = session[s].closed /\ x.where = session[s].where
        BY <1>1, <3>1, <3>4 DEF AudioTypes, SessionRecords
      <4> QED BY <3>2, <4>1
    <3>5. CASE session[s].where = "map" /\ ~(session[s].busy \/ session[s].fresh)
      <4>1. /\ x \in SessionRecords /\ x.timer = "closing" /\ x.where = "expired"
            /\ x.model = session[s].model /\ x.lock = session[s].lock /\ x.closed = session[s].closed
        BY <1>1, <3>1, <3>5 DEF AudioTypes, SessionRecords
      <4> QED BY <3>2, <3>5, <4>1
    <3> QED BY <3>3, <3>4, <3>5
  <2> QED BY <2>1, <2>2
<1>3. session' \in [Sessions -> SessionRecords]
  BY <1>1, <1>2 DEF AudioTypes
<1>4. \A t \in Sessions : /\ session'[t].model = session[t].model
                          /\ session'[t].lock = session[t].lock
                          /\ session'[t].closed <=> session[t].closed
                          /\ session[t].where = "none" <=> session'[t].where = "none"
                          /\ session[t].where = "removed" => session'[t].where = "removed"
                          /\ session'[t].where = "map" => session'[t].timer \in {"armed", "fired"}
                          /\ session'[t].timer = "closing" => session'[t].where = "expired"
  BY <1>1, <1>2 DEF AudioTypes, SessionsAt
<1> QED BY <1>1, <1>3, <1>4, TurnsKeep

LEMMA BeginCloseKeeps ==
    ASSUME AudioInv, Audio!BeginClose
    PROVE  AudioInv'
<1>1. /\ AudioTypes /\ SessionsAt /\ client' = client
      /\ batch' = batch /\ active' = active /\ model' = model /\ cached' = cached
      /\ session' = [s \in Sessions |-> IF session[s].where = "map" THEN Audio!Detached(s, "closed") ELSE session[s]]
  BY DEF AudioInv, Audio!BeginClose, Audio!cacheVars
<1>2. ASSUME NEW t \in Sessions, session[t].where = "map", NEW x, x = Audio!Detached(t, "closed")
      PROVE  /\ x \in SessionRecords /\ x.where = "closed" /\ x.timer # "closing"
             /\ x.model = session[t].model /\ x.lock = session[t].lock /\ x.closed = session[t].closed
  BY <1>1, <1>2 DEF AudioTypes, SessionRecords, SessionsAt, Audio!Detached
<1>3. session' \in [Sessions -> SessionRecords]
  BY <1>1, <1>2 DEF AudioTypes
<1>4. ASSUME NEW t \in Sessions
      PROVE  /\ session'[t].model = session[t].model
             /\ session'[t].lock = session[t].lock
             /\ session'[t].closed <=> session[t].closed
             /\ session[t].where = "none" <=> session'[t].where = "none"
             /\ session[t].where = "removed" => session'[t].where = "removed"
             /\ session'[t].where = "map" => session'[t].timer \in {"armed", "fired"}
             /\ session'[t].timer = "closing" => session'[t].where = "expired"
  <2>1. CASE session[t].where = "map"
    <3>1. session'[t] = Audio!Detached(t, "closed")
      BY <1>1, <2>1
    <3> QED BY <1>2, <2>1, <3>1
  <2>2. CASE session[t].where # "map"
    <3>1. session'[t] = session[t]
      BY <1>1, <2>2
    <3> QED BY <1>1, <2>2, <3>1 DEF SessionsAt
  <2> QED BY <2>1, <2>2
<1> QED BY <1>1, <1>3, <1>4, TurnsKeep

LEMMA CloseAllKeeps ==
    ASSUME AudioInv, Audio!CloseAll
    PROVE  AudioInv'
<1>1. /\ AudioTypes /\ RequestsAt /\ SessionsAt /\ Lifetimes /\ TokenHeld /\ ModelHeld
      /\ client' = client /\ batch' = batch /\ active' = active /\ session' = session /\ cached' = None
      /\ model' = IF cached = None THEN model ELSE [model EXCEPT ![cached] = Audio!ClosedModel(@)]
  BY DEF AudioInv, Audio!CloseAll
<1>2. /\ model' \in [Models -> ModelRecords]
      /\ \A m \in Models : /\ model'[m].active = model[m].active
                           /\ model'[m].closed = (model[m].closed \/ m = cached)
                           /\ model'[m].mapped = model[m].active
  BY <1>1, Evicted
<1>3. AudioTypes'
  BY <1>1, <1>2 DEF AudioTypes
<1>4. RequestsAt'
  BY <1>1 DEF RequestsAt, Audio!At, Audio!Present
<1>5. SessionsAt'
  BY <1>1 DEF SessionsAt, Audio!Present
<1>6. Lifetimes'
  BY <1>1, <1>2, IdleRecord DEF Lifetimes
<1>7. TokenHeld'
  BY <1>1 DEF TokenHeld, Creators, Audio!Creating, Living, Audio!Present
<1>8. ModelHeld'
  <2>1. ASSUME NEW m \in Models PROVE Users(m)' = Users(m) /\ Holders(m)' = Holders(m)
    BY <1>1 DEF Users, Uses, Holders, Audio!Present, Audio!At
  <2> QED BY <1>1, <1>2, <2>1 DEF ModelHeld
<1> QED BY <1>3, <1>4, <1>5, <1>6, <1>7, <1>8 DEF AudioInv

LEMMA ClosersKeep ==
    ASSUME AudioInv
    PROVE  /\ \A c \in Clients : Audio!Close(c) => AudioInv'
           /\ \A s \in Sessions : Audio!ExpireClose(s) \/ Audio!CloseOne(s) => AudioInv'
<1>1. RequestsAt /\ SessionsAt
  BY DEF AudioInv
<1>2. ASSUME NEW c \in Clients, Audio!Close(c) PROVE AudioInv'
  <2>1. PICK s \in Sessions : s = client[c].session /\ client[c].pc = "close" /\ Audio!Present(s)
    BY <1>1, <1>2 DEF RequestsAt, Audio!Present, Audio!Close, Audio!At
  <2>2. Audio!CloseSession(s) /\ client' = [client EXCEPT ![c] = Audio!Idle] /\ batch' = batch /\ cached' = cached
    BY <1>2, <2>1 DEF Audio!Close, Audio!Return
  <2> QED BY <2>1, <2>2, ClosesKeep
<1>3. ASSUME NEW s \in Sessions, Audio!ExpireClose(s) \/ Audio!CloseOne(s) PROVE AudioInv'
  <2>1. Audio!CloseSession(s) /\ client' = client /\ batch' = batch /\ cached' = cached /\ session[s].where \in {"expired", "closed"}
    BY <1>1, <1>3 DEF SessionsAt, Audio!ExpireClose, Audio!CloseOne, Audio!closing
  <2>2. Audio!Present(s) /\ session[s].where # "removed"
    BY <2>1 DEF Audio!Present
  <2> QED BY <2>1, <2>2, ClosesKeep
<1> QED BY <1>2, <1>3

LEMMA AudioInit == Audio!Init => AudioInv
<1> SUFFICES ASSUME Audio!Init PROVE AudioInv
  OBVIOUS
<1>1. AudioTypes
  BY DEF Audio!Init, AudioTypes, ClientRecords, SessionRecords, ModelRecords, Audio!NoSession, Audio!NoModel, Audio!Idle
<1>2. RequestsAt /\ SessionsAt
  BY DEF Audio!Init, RequestsAt, SessionsAt, Audio!At, Audio!Present, Audio!NoSession, Audio!Idle
<1>3. Lifetimes
  BY IdleRecord DEF Audio!Init, Lifetimes, Audio!NoSession, Audio!NoModel, Audio!Idle
<1>4. Creators = {} /\ Living = {}
  BY DEF Audio!Init, Creators, Audio!Creating, Living, Audio!Present, Audio!NoSession, Audio!Idle
<1>5. TokenHeld
  BY <1>4 DEF Audio!Init, TokenHeld, OneOwner, Alone, Taken
<1>6. ASSUME NEW m \in Models PROVE Users(m) = {} /\ Holders(m) = {} /\ ~model[m].active
  BY DEF Audio!Init, Users, Uses, Holders, Audio!Present, Audio!At, Audio!NoSession, Audio!NoModel, Audio!Idle
<1>7. ModelHeld
  BY <1>6 DEF ModelHeld, OneOwner, Alone, Taken
<1> QED BY <1>1, <1>2, <1>3, <1>5, <1>7 DEF AudioInv

LEMMA AudioKeeps == AudioInv /\ [Audio!Next]_(Audio!vars) => AudioInv'
<1> SUFFICES ASSUME AudioInv, [Audio!Next]_(Audio!vars) PROVE AudioInv'
  OBVIOUS
<1>1. ASSUME NEW c \in Clients, Audio!Arrive(c) PROVE AudioInv'
  <2>1. ASSUME NEW path \in Paths, Audio!Create(c, path) PROVE AudioInv'
    BY <2>1, CreateKeeps
  <2>2. ASSUME NEW path \in Paths, Audio!Transcribe(c, path) PROVE AudioInv'
    BY <2>2, WaitsKeep
  <2>3. ASSUME NEW s \in Sessions, Audio!Push(c, s) \/ Audio!Delete(c, s) PROVE AudioInv'
    BY <2>3, WaitsKeep
  <2> QED BY <1>1, <2>1, <2>2, <2>3 DEF Audio!Arrive
<1>2. ASSUME NEW c \in Clients, Audio!Work(c) PROVE AudioInv'
  <2>1. CASE Audio!CreateWait(c) \/ Audio!PushWait(c) \/ Audio!PushGiveUp(c)
    BY <2>1, WaitsKeep
  <2>2. CASE Audio!CreateGiveUp(c)
    BY <2>2, CreateGiveUpKeeps
  <2>3. CASE Audio!CreateOpen(c) \/ Audio!TranscribeOpen(c)
    BY <2>3, CreateOpenKeeps
  <2>4. CASE Audio!Reserve(c) \/ Audio!Warm(c)
    BY <2>4, ReserveKeeps, WarmKeeps
  <2>5. CASE Audio!Register(c) \/ Audio!RegisterFails(c)
    BY <2>5, RegisterKeeps, RegisterFailsKeeps
  <2>6. CASE Audio!Lock(c) \/ Audio!Begin(c)
    BY <2>6, LockKeeps, PushBeginsKeep
  <2>7. CASE Audio!Infer(c) \/ Audio!End(c)
    BY <2>7, InferKeeps, EndsKeep
  <2>8. CASE Audio!Remove(c) \/ Audio!Close(c)
    BY <2>8, RemoveKeeps, ClosersKeep
  <2>9. CASE Audio!TranscribeReserve(c) \/ Audio!Decode(c)
    BY <2>9, TranscribeReserveKeeps, DecodeKeeps
  <2> QED BY <1>2, <2>1, <2>2, <2>3, <2>4, <2>5, <2>6, <2>7, <2>8, <2>9 DEF Audio!Work
<1>3. ASSUME NEW s \in Sessions, Audio!Fire(s) \/ Audio!Expire(s) PROVE AudioInv'
  BY <1>3, TimersKeep
<1>4. ASSUME NEW s \in Sessions, Audio!ExpireClose(s) \/ Audio!CloseOne(s) PROVE AudioInv'
  BY <1>4, ClosersKeep
<1>5. CASE Audio!BeginClose
  BY <1>5, BeginCloseKeeps
<1>6. CASE Audio!CloseAll
  BY <1>6, CloseAllKeeps
<1>7. CASE UNCHANGED Audio!vars
  <2>1. /\ AudioTypes /\ SessionsAt
        /\ client' = client /\ batch' = batch /\ active' = active /\ session' = session /\ model' = model /\ cached' = cached
    BY <1>7 DEF Audio!vars, AudioInv
  <2>2. session' \in [Sessions -> SessionRecords]
    BY <2>1 DEF AudioTypes
  <2> QED BY <2>1, <2>2, TurnsKeep DEF SessionsAt
<1> QED BY <1>1, <1>2, <1>3, <1>4, <1>5, <1>6, <1>7 DEF Audio!Next

LEMMA AudioInvariance == Audio!Spec => []AudioInv
BY AudioInit, AudioKeeps, PTL DEF Audio!Spec

\* The instance counts as this module does.
LEMMA SameCount == \A S : Audio!Cardinality(S) = Cardinality(S)
BY DEF Cardinality, Audio!Cardinality

\* Each taken flag is one owner, counted.
LEMMA OwnersCounted ==
    ASSUME AudioInv
    PROVE  /\ Cardinality(Creators) + Cardinality(Living) = IF active THEN 1 ELSE 0
           /\ \A m \in Models : Cardinality(Users(m)) + Cardinality(Holders(m)) = IF model[m].active THEN 1 ELSE 0
<1>1. Cardinality(Creators) + Cardinality(Living) = IF active THEN 1 ELSE 0
  BY OneOwnerCounts DEF AudioInv, AudioTypes, TokenHeld
<1>2. ASSUME NEW m \in Models
      PROVE  Cardinality(Users(m)) + Cardinality(Holders(m)) = IF model[m].active THEN 1 ELSE 0
  <2>1. OneOwner(Users(m), Holders(m), model[m].active) /\ model[m].active \in BOOLEAN
    BY DEF AudioInv, AudioTypes, ModelRecords, ModelHeld
  <2> QED BY <2>1, OneOwnerCounts
<1> QED BY <1>1, <1>2

\* A model somebody pushes to is in use.
LEMMA PushInUse ==
    ASSUME AudioInv, NEW m \in Models, NEW c \in Clients, Audio!At(c, "push"), session[client[c].session].model = m
    PROVE  model[m].active
<1>1. client[c].session \in Sessions /\ Audio!Present(client[c].session)
  BY DEF AudioInv, RequestsAt, Audio!At
<1>2. Taken(Users(m), Holders(m))
  <2>1. CASE batch
    BY <2>1 DEF Users, Uses, Taken
  <2>2. CASE ~batch
    BY <1>1, <2>2 DEF Holders, Taken
  <2> QED BY <2>1, <2>2
<1> QED BY <1>2 DEF AudioInv, ModelHeld, OneOwner

\* THEOREM: a model counts at most one session, whichever of live, batch and one-shot
\* requests reserved it; its weights are mapped while that one lives and afterwards only for
\* the cached model (VoxtralModel.NewSession, releaseSession, Close, voxtralModelCache.open).
THEOREM ModelsOwned == SpecOne => []ModelOwned
<1>1. AudioInv => ModelOwned
  <2> SUFFICES ASSUME AudioInv PROVE ModelOwned
    OBVIOUS
  <2>1. ASSUME NEW m \in Models
        PROVE  /\ Cardinality(Users(m)) + Cardinality(Holders(m)) = IF model[m].active THEN 1 ELSE 0
               /\ model[m].mapped <=> model[m].active \/ m = cached
               /\ m = cached => ~model[m].closed
               /\ \A c \in Clients : Audio!At(c, "push") /\ session[client[c].session].model = m => model[m].active
    BY OwnersCounted, PushInUse DEF AudioInv, Lifetimes
  <2> QED BY <2>1, SameCount DEF ModelOwned, Audio!ModelOwned, Users, Uses, Holders
<1> QED BY <1>1, AudioBehaviour, AudioInvariance, PTL

\* THEOREM: the token of the one live session is neither lost nor given back twice, and every
\* registered session has a timer set or looking at it (realtimeAudioService).
THEOREM SessionsAreTracked == SpecOne => []SessionsTracked
<1>1. AudioInv => SessionsTracked
  <2> SUFFICES ASSUME AudioInv PROVE SessionsTracked
    OBVIOUS
  <2>1. Audio!TokenExact
    BY OwnersCounted, SameCount DEF Audio!TokenExact, Creators, Living
  <2>2. Audio!ExpiryPending
    BY DEF AudioInv, SessionsAt, Audio!ExpiryPending
  <2> QED BY <2>1, <2>2 DEF SessionsTracked, Audio!SessionsTracked
<1> QED BY <1>1, AudioBehaviour, AudioInvariance, PTL
=============================================================================
