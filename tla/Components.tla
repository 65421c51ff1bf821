------------------------------ MODULE Components ------------------------------
(***************************************************************************)
(* Five components that share nothing: the Runner's speculative decoding    *)
(* and its cache of static prefixes, the server's chat history, its         *)
(* document index and its live transcription sessions.  "subject" says      *)
(* whose behaviour this is; the others stay in their initial states.        *)
(* Speculative decoding comes with its own names, the other four are        *)
(* instances.                                                               *)
(***************************************************************************)
EXTENDS SpeculativeDecode

CONSTANTS
    Requests, StaticPrefixes, Length, Formats, Limits, MaxEntries, MaxEpoch,
    Tabs, Edits, Torn,
    Writers, Docs, DirDocs, Texts,
    Clients, Sessions, Models, Paths, MaxConcurrent,
    None

\* "Nobody" is nobody's name.
ASSUME NobodyAssumption == None \notin Requests \cup Tabs \cup Writers \cup Clients \cup Models

\* A version of the chat history is neither a missing nor a torn file.
ASSUME VersionAssumption == Torn # None /\ \A s \in SUBSET Edits : s # None /\ s # Torn

\* Lengths, limits and the bytes of a position are numbers; one entry can be kept.
ASSUME PrefixAssumption ==
    /\ Length \in [StaticPrefixes -> Nat]
    /\ Formats \subseteq Nat \ {0} /\ Limits \subseteq Nat
    /\ MaxEntries \in Nat \ {0}

VARIABLES
    subject,
    prefixCache, request, running, workspace, fenced,
    file, temp, writer, tab,
    index, directory, snapshot, ragTemp, saver, ragWriter, unsaved,
    batch, sem, active, session, model, cached, serviceClosed, closer, client

Prefix  == INSTANCE MistralKVPrefix
Chat    == INSTANCE ChatHistory
Rag     == INSTANCE RagStore WITH temp <- ragTemp, writer <- ragWriter
Audio   == INSTANCE LiveSessions

prefixVars  == <<prefixCache, request, running, workspace, fenced>>
historyVars == <<file, temp, writer, tab>>
ragVars     == <<index, directory, snapshot, ragTemp, saver, ragWriter, unsaved>>
audioVars   == <<batch, sem, active, session, model, cached, serviceClosed, closer, client>>
allVars == <<subject, prefixVars, historyVars, ragVars, audioVars, vars>>

InitOne ==
    /\ subject \in {"prefix", "history", "rag", "audio", "decode"}
    /\ Prefix!Init /\ Chat!Init /\ Rag!Init /\ Audio!Init /\ Init
    /\ subject = "rag" \/ directory = Rag!Nothing
    /\ subject = "audio" \/ ~batch
    /\ subject = "decode" \/ ~recurrent

NextOne ==
    /\ UNCHANGED subject
    /\ \/ subject = "prefix"  /\ Prefix!Next  /\ UNCHANGED <<historyVars, ragVars, audioVars, vars>>
       \/ subject = "history" /\ Chat!Next   /\ UNCHANGED <<prefixVars, ragVars, audioVars, vars>>
       \/ subject = "rag"     /\ Rag!Next     /\ UNCHANGED <<prefixVars, historyVars, audioVars, vars>>
       \/ subject = "audio"   /\ Audio!Next   /\ UNCHANGED <<prefixVars, historyVars, ragVars, vars>>
       \/ subject = "decode"  /\ Next         /\ UNCHANGED <<prefixVars, historyVars, ragVars, audioVars>>

SpecOne == InitOne /\ [][NextOne]_allVars

-----------------------------------------------------------------------------
\* What each component promises, stated in its own module (CommittedStateMatches and
\* SpeculationIsLossless are SpeculativeDecode's).

\* The static-prefix cache's rows and byte account (MistralKVPrefix).
PrefixCacheExact == Prefix!PrefixCacheExact
\* Clear, Disable and Enable fence earlier requests off (MistralKVPrefix).
FenceHolds == Prefix!FenceHolds

\* The history file is whole, whatever stops when (ChatHistory).
HistoryWhole == Chat!HistoryWhole
\* A conditional save discards nobody's edit (ChatHistory).
EditsKept == Chat!EditsKept

\* After the last save the snapshot is the index (RagStore).
SnapshotCurrent == Rag!SnapshotCurrent

\* A model's session, weights and cache entry agree (LiveSessions).
ModelOwned == Audio!ModelOwned
\* The one live-session token, and the timer that looks at its session (LiveSessions).
SessionsTracked == Audio!SessionsTracked
=============================================================================
