---------------------------- MODULE BlobDownload ----------------------------
(***************************************************************************)
(* Downloads into the Hugging Face cache.  A call fetches the files of one  *)
(* commit with a few workers; each file is a blob named by its ETag, written *)
(* to "<blob>.incomplete", renamed when complete and linked into the        *)
(* commit's snapshot.  The ref is published when the whole set is there.    *)
(*                                                                          *)
(* Blobs are shared between commits, so each is guarded by an entry of      *)
(* hfBlobLocks that exists while somebody uses it.  A call can fail or be   *)
(* cancelled anywhere and the process can die; partial files stay behind    *)
(* and are resumed.  Contents are the number of bytes that are right.       *)
(***************************************************************************)
EXTENDS Integers, FiniteSets

CONSTANTS
    Calls,          \* goroutines in ResolveHuggingFaceModelFiles... or DownloadFiles
    Refs,           \* the references they ask for
    Resolutions,    \* which commit each reference may resolve to: functions on Refs
    Files,          \* the file names
    Etag,           \* Etag[c][f]: the blob of file f, for the files of commit c
    Size,           \* the size of every blob, in transferred pieces
    Listed,         \* the references whose repository listing has file sizes
    None,           \* no file, no lock entry, no reference
    Symlink         \* a symbolic link

Commits == DOMAIN Etag
Blobs == UNION {{Etag[c][f] : f \in DOMAIN Etag[c]} : c \in Commits}
Tasks == Calls \X Files

\* Calls and files are finitely many, references resolve to commits, a commit's files
\* have names, and a blob is not empty.
ASSUME DownloadAssumption ==
    /\ IsFiniteSet(Calls) /\ IsFiniteSet(Files)
    /\ Resolutions \subseteq [Refs -> Commits]
    /\ \A c \in Commits : DOMAIN Etag[c] \subseteq Files
    /\ Size \in Nat \ {0}
    /\ None \notin Tasks \cup Refs \cup Int /\ Symlink \notin Int \cup {None}

VARIABLES
    commitOf,       \* the commit each reference resolves to
    call,           \* each call: pc, reference, commit, whether its context is done
    task,           \* each task of a call: pc, offset, ok
    entries,        \* hfBlobLocks.entries: blob -> the entry, one of as many as there are tasks
    entry,          \* each hfBlobLock: users, and the task whose token is in the channel
    mine,           \* the entry a task got from lockHFBlob
    blob,           \* the cache's blobs: their content, or None
    partial,        \* the .incomplete files: their length, or None
    snapshot,       \* snapshot[c][f]: a link to the blob, the content of a copy, or None
    published       \* the commits some ref names

locks == <<entries, entry, mine>>
refs  == <<commitOf, published>>
disk  == <<blob, partial, snapshot, refs>>
vars  == <<call, task, locks, disk>>

NoCall == [pc |-> "idle", ref |-> None, commit |-> None, done |-> FALSE]
NoTask == [pc |-> "none", offset |-> 0, ok |-> FALSE]
NoLock == [users |-> 0, token |-> None]

Init ==
    /\ commitOf \in Resolutions
    /\ call = [i \in Calls |-> NoCall]
    /\ task = [t \in Tasks |-> NoTask]
    /\ entries = [b \in Blobs |-> None]
    /\ entry = [t \in Tasks |-> NoLock]
    /\ mine = [t \in Tasks |-> None]
    /\ blob = [b \in Blobs |-> None]
    /\ partial = [b \in Blobs |-> None]
    /\ snapshot = [c \in Commits |-> [f \in Files |-> None]]
    /\ published = {}

At(t, pc)    == task[t].pc = pc
BlobOf(t)    == Etag[call[t[1]].commit][t[2]]
Goto(t, pc)  == task' = [task EXCEPT ![t].pc = pc]
Present(content) == content # None /\ content # 0

\* What a reader of the snapshot gets.
Content(c, f) == IF snapshot[c][f] = Symlink THEN blob[Etag[c][f]] ELSE snapshot[c][f]

-----------------------------------------------------------------------------
(* A call.                                                                  *)

\* The server refuses a reference that is in activeDownloads.  The listing resolves
\* the commit.  Resolving a model takes a snapshot that has the whole set as it is, and
\* otherwise skips each file that is not empty.  DownloadFiles skips a file of the listed
\* size: 0 where none is listed, so that there it fetches what it has again.
Start(i, ref) ==
    LET c == commitOf[ref]
        whole == \A f \in DOMAIN Etag[c] : Content(c, f) # None
    IN  /\ call[i].pc = "idle" /\ \A j \in Calls : call[j].ref # ref
        /\ \E exact \in BOOLEAN :
             LET there(f) == IF exact THEN Content(c, f) = (IF ref \in Listed THEN Size ELSE 0)
                             ELSE whole \/ Present(Content(c, f))
             IN  /\ call' = [call EXCEPT ![i] = [pc |-> "fetch", ref |-> ref, commit |-> c, done |-> FALSE]]
                 /\ task' = [t \in Tasks |->
                              IF t[1] # i THEN task[t]
                              ELSE [NoTask EXCEPT !.pc = IF t[2] \notin DOMAIN Etag[c] \/ there(t[2])
                                                         THEN "none" ELSE "queued"]]
    /\ UNCHANGED <<locks, disk>>

\* The request's context ends, or a sibling's failure cancels the others.
Cancel(i) ==
    /\ call[i].pc = "fetch" /\ ~call[i].done
    /\ call' = [call EXCEPT ![i].done = TRUE]
    /\ UNCHANGED <<task, locks, disk>>

Quiet(i) == \A f \in Files : task[<<i, f>>].pc \in {"none", "linked", "failed"} \cup
                                 (IF call[i].done THEN {"queued"} ELSE {})

\* Defect: the ref is written whatever the workers report.
FinishAnyway(i) ==
    /\ call[i].pc = "fetch" /\ Quiet(i)
    /\ published' = published \cup {call[i].commit}
    /\ call' = [call EXCEPT ![i] = NoCall]
    /\ task' = [t \in Tasks |-> IF t[1] = i THEN NoTask ELSE task[t]]
    /\ UNCHANGED <<commitOf, locks, blob, partial, snapshot>>

\* All workers have returned: without an error the ref is written.
Finish(i) ==
    /\ call[i].pc = "fetch" /\ Quiet(i)
    /\ published' = IF call[i].done THEN published ELSE published \cup {call[i].commit}
    /\ call' = [call EXCEPT ![i] = NoCall]
    /\ task' = [t \in Tasks |-> IF t[1] = i THEN NoTask ELSE task[t]]
    /\ UNCHANGED <<commitOf, locks, blob, partial, snapshot>>

\* A worker's error: the task is over and the call's context cancelled.
FailTask(t) ==
    /\ Goto(t, "failed")
    /\ call' = [call EXCEPT ![t[1]].done = TRUE]

-----------------------------------------------------------------------------
(* lockHFBlob and its release function.                                     *)

Unused == {e \in Tasks : entry[e].users = 0}

\* A worker takes the next task, asks for the file's ETag and looks up its lock; a new
\* entry gets a name that no entry in use has (memory does not run out).
Enter(t) ==
    LET b == BlobOf(t)
        fresh == entries[b] = None
        e == IF fresh THEN CHOOSE x \in Unused : TRUE ELSE entries[b]
    IN  /\ At(t, "queued") /\ ~call[t[1]].done
        /\ fresh => Unused # {}
        /\ entries' = [entries EXCEPT ![b] = e]
        /\ entry' = [entry EXCEPT ![e] = [users |-> IF fresh THEN 1 ELSE @.users + 1,
                                          token |-> IF fresh THEN None ELSE @.token]]
        /\ mine' = [mine EXCEPT ![t] = e]
        /\ Goto(t, "token")
        /\ UNCHANGED <<call, disk>>

EnterFails(t) ==
    /\ At(t, "queued") /\ ~call[t[1]].done
    /\ FailTask(t)
    /\ UNCHANGED <<locks, disk>>

Token(t) ==
    /\ At(t, "token") /\ entry[mine[t]].token = None
    /\ entry' = [entry EXCEPT ![mine[t]].token = t]
    /\ Goto(t, "stat")
    /\ UNCHANGED <<call, entries, mine, disk>>

\* Defect: a released entry is taken to be unused.
AnyUser(e) == TRUE

LastUser(e) == entry[e].users = 1

\* leave: the last user removes the entry from the map.
LeaveLock(t) ==
    LET e == mine[t]
    IN  /\ entry' = [entry EXCEPT ![e].users = @ - 1]
        /\ entries' = IF LastUser(e) THEN [entries EXCEPT ![BlobOf(t)] = None] ELSE entries
        /\ mine' = [mine EXCEPT ![t] = None]

GiveUp(t) ==
    /\ At(t, "token") /\ call[t[1]].done
    /\ LeaveLock(t) /\ FailTask(t)
    /\ UNCHANGED disk

\* The release function: first the token, then the user count.
Release(t) ==
    /\ At(t, "release")
    /\ entry' = [entry EXCEPT ![mine[t]].token = None]
    /\ Goto(t, "leave")
    /\ UNCHANGED <<call, entries, mine, disk>>

Leave(t) ==
    /\ At(t, "leave")
    /\ LeaveLock(t)
    /\ IF task[t].ok THEN Goto(t, "unlink") /\ UNCHANGED call ELSE FailTask(t)
    /\ UNCHANGED disk

-----------------------------------------------------------------------------
(* hfDownload under the blob's lock.                                        *)

\* The offset ends with the transfer.
Return(t, ok) == task' = [task EXCEPT ![t] = [pc |-> "release", offset |-> 0, ok |-> ok]]
Sized(t) == call[t[1]].ref \in Listed

\* A blob of the right size, or of any where none is listed, is used; a complete
\* partial file is renamed; otherwise the transfer resumes where the file ends.
Stat(t) ==
    LET b == BlobOf(t)
        length == IF partial[b] = None THEN 0 ELSE partial[b]
    IN  /\ At(t, "stat")
        /\ IF Present(blob[b]) /\ (Sized(t) => blob[b] = Size)
           THEN Return(t, TRUE) /\ UNCHANGED <<blob, partial>>
           ELSE IF Sized(t) /\ length = Size
           THEN /\ blob' = [blob EXCEPT ![b] = Size]
                /\ partial' = [partial EXCEPT ![b] = None]
                /\ Return(t, TRUE)
           ELSE /\ task' = [task EXCEPT ![t].pc = "get", ![t].offset = length]
                /\ UNCHANGED <<blob, partial>>
        /\ UNCHANGED <<call, locks, snapshot, refs>>

\* The response: the requested range, or the whole file from a mirror that ignores
\* Range, which truncates the partial file.  A range behind the end, which only an
\* unlisted file can ask for, is refused (416, see Interrupt).
Get(t) ==
    LET b == BlobOf(t)
    IN  /\ At(t, "get")
        /\ \E offset \in {0, task[t].offset} :
             /\ offset < Size
             /\ partial' = [partial EXCEPT ![b] = IF offset = 0 THEN 0 ELSE @]
             /\ task' = [task EXCEPT ![t].pc = "copy", ![t].offset = offset]
        /\ blob' = [blob EXCEPT ![b] = IF Present(@) THEN None ELSE @]
        /\ UNCHANGED <<call, locks, snapshot, refs>>

\* A piece arrives.  It is the right one for its place only if the file is as long
\* as this transfer has come; anything else leaves a file of no use (-1).
Write(t) ==
    LET b == BlobOf(t)
    IN  /\ At(t, "copy") /\ task[t].offset < Size
        /\ partial' = [partial EXCEPT ![b] = IF @ = task[t].offset THEN @ + 1 ELSE -1]
        /\ task' = [task EXCEPT ![t].offset = @ + 1]
        /\ UNCHANGED <<call, locks, blob, snapshot, refs>>

\* The transfer ends and the file gets its final name.  Only a listed size is compared:
\* without one, a range or a response that ends early is taken for the whole file.
Store(t) ==
    LET b == BlobOf(t)
    IN  /\ At(t, "copy") /\ (Sized(t) => task[t].offset = Size)
        /\ blob' = [blob EXCEPT ![b] = partial[b]]
        /\ partial' = [partial EXCEPT ![b] = None]
        /\ Return(t, TRUE)
        /\ UNCHANGED <<call, locks, snapshot, refs>>

\* Defect: an early return that does not give the token back.
InterruptKeeping(t) ==
    /\ task[t].pc \in {"get", "copy"}
    /\ task' = [task EXCEPT ![t].pc = "leave", ![t].ok = FALSE]
    /\ UNCHANGED <<call, locks, disk>>

\* An error or the end of the context: the partial file stays for the next attempt.
Interrupt(t) ==
    /\ task[t].pc \in {"get", "copy"}
    /\ Return(t, FALSE)
    /\ UNCHANGED <<call, locks, disk>>

-----------------------------------------------------------------------------
(* linkHFCacheFile, after the lock is released.                             *)

SetLink(t, value) == snapshot' = [snapshot EXCEPT ![call[t[1]].commit][t[2]] = value]

Unlink(t) ==
    /\ At(t, "unlink")
    /\ SetLink(t, None) /\ Goto(t, "link")
    /\ UNCHANGED <<call, locks, blob, partial, refs>>

Link(t) ==
    /\ At(t, "link")
    /\ IF snapshot[call[t[1]].commit][t[2]] = None
       THEN SetLink(t, Symlink) /\ Goto(t, "linked")
       ELSE Goto(t, "duplicate") /\ UNCHANGED snapshot
    /\ UNCHANGED <<call, locks, blob, partial, refs>>

\* Both kinds of links exist already, so the file is copied.  os.Create follows the
\* symbolic link another call has made and truncates the blob it is about to read.
\* Where nothing is in the way any more, a hard link or a copy has the blob's content.
\* A blob that another call has removed, for its size, cannot be linked or copied.
Duplicate(t) ==
    LET c == call[t[1]].commit
        b == BlobOf(t)
    IN  /\ At(t, "duplicate")
        /\ \/ /\ blob[b] = None
              /\ FailTask(t) /\ UNCHANGED <<blob, snapshot>>
           \/ /\ blob[b] # None
              /\ IF snapshot[c][t[2]] = Symlink
                 THEN blob' = [blob EXCEPT ![b] = 0] /\ UNCHANGED snapshot
                 ELSE SetLink(t, blob[b]) /\ UNCHANGED blob
              /\ Goto(t, "linked") /\ UNCHANGED call
        /\ UNCHANGED <<locks, partial, refs>>

-----------------------------------------------------------------------------
\* The process dies: its calls and locks are gone, the files are as they were.
Crash ==
    /\ \E i \in Calls : call[i].pc # "idle"
    /\ call' = [i \in Calls |-> NoCall]
    /\ task' = [t \in Tasks |-> NoTask]
    /\ entries' = [b \in Blobs |-> None]
    /\ entry' = [t \in Tasks |-> NoLock]
    /\ mine' = [t \in Tasks |-> None]
    /\ UNCHANGED disk

Step(t) ==
    \/ Enter(t) \/ EnterFails(t) \/ GiveUp(t) \/ Release(t) \/ Leave(t)
    \/ Stat(t) \/ Get(t) \/ Write(t) \/ Store(t) \/ Interrupt(t)
    \/ Unlink(t) \/ Link(t) \/ Duplicate(t)

Next ==
    \/ \E i \in Calls : (\E ref \in Refs : Start(i, ref)) \/ Cancel(i) \/ Finish(i)
    \/ \E t \in Tasks : Token(t) \/ Step(t)
    \/ Crash

Spec == Init /\ [][Next]_vars

\* The workers of a call run, transfers go on or fail, and a channel serves its
\* senders in turn.
Fairness ==
    \A i \in Calls :
        /\ WF_vars(Finish(i) \/ \E f \in Files : Step(<<i, f>>))
        /\ SF_vars(\E f \in Files : Token(<<i, f>>))

LiveSpec == Spec /\ Fairness

-----------------------------------------------------------------------------
Holding(t) == task[t].pc \in {"stat", "get", "copy", "release"}

\* "Coordinate writers within this process so concurrent requests cannot truncate a
\* resume file or race its rename": at most one task works on a blob, whichever
\* entries have come and gone; an entry is in the map exactly while it has users,
\* and its count is theirs (lockHFBlob).
BlobLocked ==
    /\ \A t, u \in Tasks : Holding(t) /\ Holding(u) /\ t # u => BlobOf(t) # BlobOf(u)
    /\ \A t \in Tasks :
         LET users == {u \in Tasks : mine[u] = t}
         IN  /\ entry[t].users = Cardinality(users)
             /\ \A u \in users : entries[BlobOf(u)] = t
             /\ users = {} => t \notin {entries[b] : b \in Blobs}

\* A blob that has its final name is complete, also after crashes and transfers that
\* were resumed or cut off, and linking it into a snapshot never writes to it ("copy
\* only when its filesystem does not support links", linkHFCacheFile).
BlobsComplete == \A b \in Blobs : blob[b] \in {None, Size}

\* Everybody who asks for the commit, or for the blob, knows its size.
Measured(c) == \A r \in Refs : commitOf[r] = c => r \in Listed
SizeKnown(b) == \A c \in Commits : (\E f \in DOMAIN Etag[c] : Etag[c][f] = b) => Measured(c)

\* "refs are published only after the entire requested set succeeds" (DownloadFiles): a
\* published commit whose references have listed sizes gives each of its files in full,
\* also after failed and cancelled calls and restarts, and while references without sizes
\* share its blobs, whose transfers may end early and are taken again.  No blob under its
\* final name has a misplaced piece, and one whose size is known is complete.  Exceptions
\* are the commits of unlisted references, which are fetched again when they are there,
\* and two references to one commit: linking may truncate a blob, then no longer used.
PublishedComplete ==
    LET shared == \E r, q \in Refs : r # q /\ commitOf[r] = commitOf[q]
    IN  /\ \A b \in Blobs :
             /\ blob[b] \in 0 .. Size \cup {None}
             /\ SizeKnown(b) => blob[b] \in {None, Size} \cup (IF shared THEN {0} ELSE {})
        /\ shared \/ \A c \in published :
                         Measured(c) => \A f \in DOMAIN Etag[c] : Content(c, f) = Size

\* Every call returns: nobody waits for a lock whose holder is gone.
DownloadsReturn == \A i \in Calls : call[i].pc = "fetch" ~> call[i].pc = "idle"
=============================================================================
