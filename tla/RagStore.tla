------------------------------ MODULE RagStore ------------------------------
(***************************************************************************)
(* The server's document index and its snapshot file.  A request changes    *)
(* the index in memory (documents are embedded before its lock is taken)    *)
(* and then saves all of it; saves are serialised by saveMu and read the    *)
(* index when their turn comes.  The process can die at any step; the next  *)
(* one loads the snapshot and then reads the document directory again.      *)
(***************************************************************************)
EXTENDS Naturals

CONSTANTS
    Writers,        \* goroutines in /rag/documents, /rag/upload, /rag/fetch or /rag/reload
    Docs,           \* document IDs
    DirDocs,        \* those that are paths of the document directory
    Texts,          \* contents of a document
    None            \* no document, no text, nobody

VARIABLES
    index,          \* the document with each ID, or None
    directory,      \* the files of the document directory
    snapshot,       \* the snapshot file
    temp,           \* what the saver has encoded
    saver,          \* who holds saveMu
    writer,         \* each goroutine: pc, id, text
    unsaved         \* history: the latest save failed, or the snapshot was not loaded

vars == <<index, directory, snapshot, temp, saver, writer, unsaved>>

Nothing == [d \in Docs |-> None]
Idle == [pc |-> "idle", id |-> None, text |-> None]
Over(base, files) == [d \in Docs |-> IF files[d] = None THEN base[d] ELSE files[d]]

Directories == {files \in [Docs -> Texts \cup {None}] : \A d \in Docs \ DirDocs : files[d] = None}

Init ==
    /\ directory \in Directories
    /\ index = directory
    /\ snapshot = Nothing /\ temp = Nothing
    /\ saver = None /\ unsaved = FALSE
    /\ writer = [w \in Writers |-> Idle]

At(w, pc)   == writer[w].pc = pc
Goto(w, pc) == writer' = [writer EXCEPT ![w].pc = pc]

\* Add splits and embeds the document before it takes the index's lock; that can fail.
Embed(w, d, text) ==
    /\ At(w, "idle")
    /\ writer' = [writer EXCEPT ![w] = [pc |-> "add", id |-> d, text |-> text]]
    /\ UNCHANGED <<index, directory, snapshot, temp, saver, unsaved>>

Add(w) ==
    /\ At(w, "add")
    /\ index' = [index EXCEPT ![writer[w].id] = writer[w].text]
    /\ Goto(w, "save")
    /\ UNCHANGED <<directory, snapshot, temp, saver, unsaved>>

EmbedFails(w) ==
    /\ At(w, "add")
    /\ writer' = [writer EXCEPT ![w] = Idle]
    /\ UNCHANGED <<index, directory, snapshot, temp, saver, unsaved>>

\* Remove; a document that is not there is a 404 and nothing is saved.
Remove(w, d) ==
    /\ At(w, "idle") /\ index[d] # None
    /\ index' = [index EXCEPT ![d] = None]
    /\ Goto(w, "save")
    /\ UNCHANGED <<directory, snapshot, temp, saver, unsaved>>

\* AddFS reads the whole directory, embeds it and adds it in one call.
Reload(w) ==
    /\ At(w, "idle")
    /\ index' = Over(index, directory)
    /\ Goto(w, "save")
    /\ UNCHANGED <<directory, snapshot, temp, saver, unsaved>>

\* Defect: saves are not serialised.
LockNothing(w) ==
    /\ At(w, "save")
    /\ saver' = w /\ Goto(w, "encode")
    /\ UNCHANGED <<index, directory, snapshot, temp, unsaved>>

\* save
Lock(w) ==
    /\ At(w, "save") /\ saver = None
    /\ saver' = w /\ Goto(w, "encode")
    /\ UNCHANGED <<index, directory, snapshot, temp, unsaved>>

Encode(w) ==
    /\ At(w, "encode")
    /\ temp' = index /\ Goto(w, "rename")
    /\ UNCHANGED <<index, directory, snapshot, saver, unsaved>>

\* The snapshot is replaced, or an error is logged and the request succeeds all the same.
Rename(w) ==
    /\ At(w, "rename")
    /\ snapshot' = temp /\ unsaved' = FALSE
    /\ saver' = None /\ writer' = [writer EXCEPT ![w] = Idle]
    /\ UNCHANGED <<index, directory, temp>>

SaveFails(w) ==
    /\ writer[w].pc \in {"encode", "rename"}
    /\ unsaved' = TRUE
    /\ saver' = None /\ writer' = [writer EXCEPT ![w] = Idle]
    /\ UNCHANGED <<index, directory, snapshot, temp>>

\* The process dies and starts again, perhaps with other files in the directory.  A
\* snapshot that cannot be used, because the embedder is another one, is passed over.
Restart ==
    /\ directory' \in Directories
    /\ \E skipped \in BOOLEAN :
         /\ index' = Over(IF skipped THEN Nothing ELSE snapshot, directory')
         /\ unsaved' = skipped
    /\ temp' = Nothing /\ saver' = None
    /\ writer' = [w \in Writers |-> Idle]
    /\ UNCHANGED snapshot

Next ==
    \/ \E w \in Writers :
         \/ \E d \in Docs : Remove(w, d) \/ (\E text \in Texts : Embed(w, d, text))
         \/ Reload(w) \/ Add(w) \/ EmbedFails(w) \/ Lock(w) \/ Encode(w) \/ Rename(w) \/ SaveFails(w)
    \/ Restart

Spec == Init /\ [][Next]_vars

-----------------------------------------------------------------------------
\* When every request has saved and the latest save succeeded, the snapshot is the
\* index: a later save never leaves an earlier state behind, and a save that failed is
\* made up for by the next.  (Files of the directory are read again at every start.)
SnapshotCurrent ==
    (~unsaved /\ \A w \in Writers : writer[w].pc \notin {"save", "encode", "rename"}) =>
        \A d \in Docs \ DirDocs : snapshot[d] = index[d]
=============================================================================
