----------------------------- MODULE ChatHistory -----------------------------
(***************************************************************************)
(* The server's chat history: one file that every browser tab reads, edits  *)
(* and replaces as a whole.  A tab sends the ETag of the version it has      *)
(* edited, which names the content; the store's mutex covers the comparison *)
(* and the replacement (temporary file, sync, rename, chmod).  The machine  *)
(* can stop at any step.                                                    *)
(*                                                                          *)
(* A version is the set of the edits in it.                                 *)
(***************************************************************************)
EXTENDS FiniteSets

CONSTANTS
    Tabs,           \* HTTP clients
    Edits,          \* what they add to a workspace
    None,           \* no file, no ETag, nobody
    Torn            \* a file whose content never reached the disk

VARIABLES
    file,           \* the history file: text, before (its last version), synced
    temp,           \* the writer's temporary file: text, synced
    writer,         \* the tab whose request is inside the store's Lock
    tab             \* each tab: pc, etag (the If-Match of its request), text

vars == <<file, temp, writer, tab>>

NoTab  == [pc |-> "idle", etag |-> None, text |-> {}]
NoTemp == [text |-> None, synced |-> FALSE]

Init ==
    /\ file = [text |-> None, before |-> None, synced |-> TRUE]
    /\ temp = NoTemp /\ writer = None
    /\ tab = [t \in Tabs |-> NoTab]

At(t, pc)   == tab[t].pc = pc
Goto(t, pc) == tab' = [tab EXCEPT ![t].pc = pc]

\* read holds the read lock throughout; a missing file is a 404 and gives no ETag.
Get(t) ==
    /\ At(t, "idle") /\ writer = None
    /\ tab' = [tab EXCEPT ![t] = [pc |-> "editing", etag |-> file.text,
                                  text |-> IF file.text = None THEN {} ELSE file.text]]
    /\ UNCHANGED <<file, temp, writer>>

\* PUT, with the ETag that was read or without one.
Put(t, e) ==
    /\ At(t, "editing")
    /\ \E etag \in {None, tab[t].etag} :
         tab' = [tab EXCEPT ![t] = [pc |-> "put", etag |-> etag, text |-> @.text \cup {e}]]
    /\ UNCHANGED <<file, temp, writer>>

\* An ETag that is not the file's, or for a file that is not there, is a conflict.
Conflict(t) == tab[t].etag # None /\ tab[t].etag # file.text

\* Defect: the versions are compared before the lock is taken.
AcquireLate(t) ==
    /\ \/ At(t, "put") /\ Goto(t, IF Conflict(t) THEN "idle" ELSE "compared") /\ UNCHANGED writer
       \/ At(t, "compared") /\ writer = None /\ writer' = t /\ Goto(t, "fill")
    /\ UNCHANGED <<file, temp>>

Acquire(t) ==
    /\ At(t, "put") /\ writer = None
    /\ IF Conflict(t)
       THEN tab' = [tab EXCEPT ![t] = NoTab] /\ UNCHANGED writer
       ELSE writer' = t /\ Goto(t, "fill")
    /\ UNCHANGED <<file, temp>>

Fill(t) ==
    /\ At(t, "fill")
    /\ temp' = [text |-> tab[t].text, synced |-> FALSE]
    /\ Goto(t, "sync")
    /\ UNCHANGED <<file, writer>>

\* Defect: the temporary file is closed without a sync.
SyncLeftOut(t) ==
    /\ At(t, "sync") /\ Goto(t, "rename")
    /\ UNCHANGED <<file, temp, writer>>

Sync(t) ==
    /\ At(t, "sync")
    /\ temp' = [temp EXCEPT !.synced = TRUE]
    /\ Goto(t, "rename")
    /\ UNCHANGED <<file, writer>>

Rename(t) ==
    /\ At(t, "rename")
    /\ file' = [text |-> temp.text, before |-> file.text, synced |-> temp.synced]
    /\ temp' = NoTemp
    /\ Goto(t, "protect")
    /\ UNCHANGED writer

Done(t) == tab' = [tab EXCEPT ![t] = NoTab] /\ writer' = None

\* The last chmod; the tab is told of success, or of an error although the file is new.
Protect(t) ==
    /\ At(t, "protect") /\ Done(t)
    /\ UNCHANGED <<file, temp>>

\* Any error or the end of the request before the rename removes the temporary file.
Fail(t) ==
    /\ tab[t].pc \in {"fill", "sync", "rename"} /\ Done(t)
    /\ temp' = NoTemp
    /\ UNCHANGED file

\* DELETE
Clear(t) ==
    /\ At(t, "idle") /\ writer = None
    /\ file' = [text |-> None, before |-> file.text, synced |-> TRUE]
    /\ UNCHANGED <<temp, writer, tab>>

\* The machine stops: a file that was not synced is torn, and the last change of the
\* directory may be undone.  The tabs go on with what they have read.
Crash ==
    /\ \E text \in {IF file.synced THEN file.text ELSE Torn, file.before} :
         file' = [text |-> text, before |-> text, synced |-> TRUE]
    /\ temp' = NoTemp /\ writer' = None
    /\ tab' = [t \in Tabs |-> IF tab[t].pc \in {"idle", "editing"} THEN tab[t] ELSE NoTab]

Next ==
    \/ \E t \in Tabs :
         \/ Get(t) \/ Clear(t) \/ (\E e \in Edits : Put(t, e))
         \/ Acquire(t) \/ Fill(t) \/ Sync(t) \/ Rename(t) \/ Protect(t) \/ Fail(t)
    \/ Crash

Spec == Init /\ [][Next]_vars

-----------------------------------------------------------------------------
\* "replaced atomically, which ... prevents partial writes after a process or machine
\* interruption": whatever stops when, the file is absent or a version some tab wrote.
HistoryWhole == file.text # Torn

\* A request that names the version it has edited never discards an edit of another tab:
\* what is in the file when it replaces it was in the version it started from; a file
\* cleared meanwhile is not brought back.
EditsKept ==
    [][\A t \in Tabs : Rename(t) /\ tab[t].etag # None =>
         file.text # None /\ file.text \subseteq file'.text]_vars
=============================================================================
