------------------------- MODULE BlobDownloadProofs -------------------------
(***************************************************************************)
(* Proofs about BlobDownload, for any number of calls, files, commits and   *)
(* references.  Whatever lock entries come and go, a blob has one writer    *)
(* (OneWriter, from IInv); because of that a partial file is always the     *)
(* beginning of its blob, and what is published is complete                 *)
(* (PublishedWhole, from DiskInv).                                          *)
(***************************************************************************)
EXTENDS BlobDownload, FiniteSetTheorems, TLAPS

\* The lines between lockHFBlob's look-up and its leave.
UsePC  == {"token", "stat", "get", "copy", "release", "leave"}
TaskPC == UsePC \cup {"none", "queued", "unlink", "link", "duplicate", "linked", "failed"}

Uses(t) == task[t].pc \in UsePC
Users(e) == {u \in Tasks : mine[u] = e}

\* The records' fields; a task that is to do belongs to a call in progress, whose commit
\* has its file.
Shape ==
    /\ commitOf \in [Refs -> Commits]
    /\ DOMAIN call = Calls
    /\ \A i \in Calls : /\ DOMAIN call[i] = {"pc", "ref", "commit", "done"}
                        /\ call[i].pc # "idle" => call[i].commit \in Commits
    /\ DOMAIN task = Tasks
    /\ \A t \in Tasks :
         /\ DOMAIN task[t] = {"pc", "offset", "ok"}
         /\ task[t].pc \in TaskPC
         /\ task[t].pc # "none" => /\ call[t[1]].pc # "idle"
                                   /\ t[2] \in DOMAIN Etag[call[t[1]].commit]

LockType ==
    /\ entries \in [Blobs -> Tasks \cup {None}]
    /\ entry \in [Tasks -> [users : Nat, token : Tasks \cup {None}]]
    /\ mine \in [Tasks -> Tasks \cup {None}]
    /\ \A t \in Tasks : mine[t] # None <=> Uses(t)

\* A user finds its entry in the map under its blob, and users of one entry have one blob.
EntryFound == \A t \in Tasks : mine[t] # None => entries[BlobOf(t)] = mine[t]
OneBlob    == \A t, u \in Tasks : mine[t] # None /\ mine[u] = mine[t] => BlobOf(u) = BlobOf(t)

\* An entry in the map has a user.
EntryUsed == \A b \in Blobs : entries[b] # None => \E u \in Tasks : mine[u] = entries[b] /\ BlobOf(u) = b

\* The channel holds the token of the task that works on the blob.
TokenHeld == \A t \in Tasks : Holding(t) => entry[mine[t]].token = t

UsersCounted == \A e \in Tasks : entry[e].users = Cardinality(Users(e))

LockInv == LockType /\ EntryFound /\ OneBlob /\ EntryUsed /\ TokenHeld /\ UsersCounted

IInv == Shape /\ LockInv

-----------------------------------------------------------------------------
\* The users of an entry can be counted.
LEMMA UsersFinite ==
    ASSUME NEW e
    PROVE  IsFiniteSet(Users(e)) /\ Cardinality(Users(e)) \in Nat /\ (Cardinality(Users(e)) = 0 <=> Users(e) = {})
<1>1. IsFiniteSet(Tasks)
  BY FS_Product, DownloadAssumption DEF Tasks
<1>2. IsFiniteSet(Users(e))
  BY <1>1, FS_Subset DEF Users
<1> QED BY <1>2, FS_CardinalityType, FS_EmptySet

\* A task that is to do has a blob.
LEMMA BlobExists ==
    ASSUME Shape, NEW t \in Tasks, task[t].pc # "none"
    PROVE  BlobOf(t) \in Blobs
<1>1. t[1] \in Calls /\ call[t[1]].commit \in Commits /\ t[2] \in DOMAIN Etag[call[t[1]].commit]
  BY DEF Shape, Tasks
<1> QED BY <1>1 DEF BlobOf, Blobs

\* The lock changes only in the steps of Enter, Token, Release and LeaveLock; every other
\* step of a task keeps it, and what the task's blob is.
LEMMA EnterKeeps ==
    ASSUME Shape, LockInv, NEW t \in Tasks, Enter(t)
    PROVE  LockInv'
<1> DEFINE fresh == entries[BlobOf(t)] = None
<1>0. PICK b, e : b = BlobOf(t) /\ e = IF fresh THEN CHOOSE x \in Unused : TRUE ELSE entries[b]
  OBVIOUS
<1>1. /\ task[t].pc = "queued" /\ b \in Blobs
      /\ entries' = [entries EXCEPT ![b] = e]
      /\ entry' = [entry EXCEPT ![e] = [users |-> IF fresh THEN 1 ELSE @.users + 1,
                                        token |-> IF fresh THEN None ELSE @.token]]
      /\ mine' = [mine EXCEPT ![t] = e]
      /\ task' = [task EXCEPT ![t].pc = "token"] /\ UNCHANGED call
      /\ fresh => Unused # {}
  BY <1>0, BlobExists DEF Enter, At, Goto
<1>2. mine[t] = None
  BY <1>1 DEF LockInv, LockType, Uses, UsePC
<1>3. e \in Tasks /\ e # None /\ (fresh => entry[e].users = 0) /\ (~fresh => entries[b] = e)
  BY <1>0, <1>1, DownloadAssumption DEF Unused, LockInv, LockType
<1>4. fresh => Users(e) = {}
  BY <1>3, UsersFinite DEF LockInv, UsersCounted
<1>5. ~fresh => \E u \in Tasks : mine[u] = e /\ BlobOf(u) = b
  BY <1>0, <1>1 DEF LockInv, EntryUsed
<1>6. \A u \in Tasks : BlobOf(u)' = BlobOf(u)
  BY <1>1 DEF BlobOf
<1>7. \A u \in Tasks : task'[u].pc = IF u = t THEN "token" ELSE task[u].pc
  BY <1>1 DEF Shape
<1>8. \A u \in Tasks : mine'[u] = IF u = t THEN e ELSE mine[u]
  BY <1>1 DEF LockInv, LockType
<1>9. \A c \in Blobs : entries'[c] = IF c = b THEN e ELSE entries[c]
  BY <1>1 DEF LockInv, LockType
<1>10. \A u \in Tasks : u # e => entry'[u] = entry[u]
  BY <1>1 DEF LockInv, LockType
<1>11. entry'[e] = [users |-> IF fresh THEN 1 ELSE entry[e].users + 1, token |-> IF fresh THEN None ELSE entry[e].token]
  BY <1>1, <1>3 DEF LockInv, LockType
<1>12. LockType'
  <2>1. entries' \in [Blobs -> Tasks \cup {None}] /\ mine' \in [Tasks -> Tasks \cup {None}]
    BY <1>1, <1>3 DEF LockInv, LockType
  <2>2. entry' \in [Tasks -> [users : Nat, token : Tasks \cup {None}]]
    BY <1>1, <1>3 DEF LockInv, LockType
  <2>3. \A u \in Tasks : mine'[u] # None <=> task'[u].pc \in UsePC
    BY <1>3, <1>7, <1>8 DEF LockInv, LockType, Uses, UsePC
  <2> QED BY <2>1, <2>2, <2>3 DEF LockType, Uses
<1>13. EntryFound'
  <2>1. ASSUME NEW u \in Tasks, mine'[u] # None PROVE entries'[BlobOf(u)] = mine'[u]
    <3>1. CASE u = t
      BY <1>0, <1>1, <1>8, <1>9, <3>1
    <3>2. CASE u # t
      <4>1. mine'[u] = mine[u] /\ entries[BlobOf(u)] = mine[u]
        BY <1>8, <2>1, <3>2 DEF LockInv, EntryFound
      <4>2. BlobOf(u) \in Blobs
        BY <4>1, <2>1, BlobExists DEF LockInv, LockType, Uses, UsePC
      <4> QED BY <1>0, <1>3, <1>9, <2>1, <4>1, <4>2
    <3> QED BY <3>1, <3>2
  <2> QED BY <2>1, <1>6 DEF EntryFound
<1>14. OneBlob'
  BY <1>0, <1>3, <1>4, <1>5, <1>6, <1>8 DEF LockInv, OneBlob, Users
<1>15. EntryUsed'
  BY <1>0, <1>6, <1>8, <1>9, <1>2 DEF LockInv, EntryUsed
<1>16. TokenHeld'
  BY <1>2, <1>4, <1>7, <1>8, <1>10, <1>11 DEF LockInv, TokenHeld, Holding, LockType, Uses, UsePC, Users
<1>17. UsersCounted'
  <2>1. Users(e)' = Users(e) \cup {t} /\ t \notin Users(e)
    BY <1>2, <1>3, <1>8 DEF Users
  <2>2. \A x \in Tasks : x # e => Users(x)' = Users(x)
    BY <1>2, <1>8, DownloadAssumption DEF Users
  <2>3. Cardinality(Users(e)') = Cardinality(Users(e)) + 1
    BY <2>1, UsersFinite, FS_AddElement
  <2>4. entry'[e].users = entry[e].users + 1
    BY <1>3, <1>11
  <2>5. ASSUME NEW x \in Tasks PROVE entry'[x].users = Cardinality(Users(x)')
    BY <2>2, <2>3, <2>4, <1>10 DEF LockInv, UsersCounted
  <2> QED BY <2>5 DEF UsersCounted
<1> QED BY <1>12, <1>13, <1>14, <1>15, <1>16, <1>17 DEF LockInv

\* Receiving the token of an entry keeps the locks.
LEMMA TokenKeeps ==
    ASSUME Shape, LockInv, NEW t \in Tasks, Token(t)
    PROVE  LockInv'
<1>1. /\ task[t].pc = "token" /\ entry[mine[t]].token = None
      /\ entry' = [entry EXCEPT ![mine[t]].token = t]
      /\ task' = [task EXCEPT ![t].pc = "stat"] /\ UNCHANGED <<call, entries, mine>>
  BY DEF Token, At, Goto
<1>2. mine[t] \in Tasks
  BY <1>1 DEF LockInv, LockType, Uses, UsePC
<1>3. \A u \in Tasks : task'[u].pc = IF u = t THEN "stat" ELSE task[u].pc
  BY <1>1 DEF Shape
<1>4. \A u \in Tasks : BlobOf(u)' = BlobOf(u) /\ Users(u)' = Users(u) /\ (Uses(u)' <=> Uses(u))
  BY <1>1, <1>3 DEF BlobOf, Users, Uses, UsePC
<1>5. /\ entry' \in [Tasks -> [users : Nat, token : Tasks \cup {None}]]
      /\ \A e \in Tasks : /\ entry'[e].users = entry[e].users
                          /\ entry'[e].token = IF e = mine[t] THEN t ELSE entry[e].token
  BY <1>1, <1>2 DEF LockInv, LockType
<1>6. LockType'
  BY <1>1, <1>4, <1>5 DEF LockInv, LockType
<1>7. EntryFound' /\ OneBlob' /\ EntryUsed'
  BY <1>1, <1>4 DEF LockInv, EntryFound, OneBlob, EntryUsed
<1>8. TokenHeld'
  <2>1. ASSUME NEW u \in Tasks, Holding(u)', u # t PROVE entry'[mine[u]].token = u
    <3>1. Holding(u) /\ mine[u] \in Tasks /\ entry[mine[u]].token = u
      BY <1>3, <2>1 DEF Holding, LockInv, LockType, TokenHeld, Uses, UsePC
    <3>2. u # None
      BY DownloadAssumption
    <3> QED BY <1>1, <1>5, <3>1, <3>2
  <2> QED BY <1>1, <1>2, <1>5, <2>1 DEF TokenHeld
<1>9. UsersCounted'
  BY <1>4, <1>5 DEF LockInv, UsersCounted
<1> QED BY <1>6, <1>7, <1>8, <1>9 DEF LockInv

\* Putting the token back keeps the locks.
LEMMA ReleaseKeeps ==
    ASSUME Shape, LockInv, NEW t \in Tasks, Release(t)
    PROVE  LockInv'
<1>1. /\ task[t].pc = "release"
      /\ entry' = [entry EXCEPT ![mine[t]].token = None]
      /\ task' = [task EXCEPT ![t].pc = "leave"] /\ UNCHANGED <<call, entries, mine>>
  BY DEF Release, At, Goto
<1>2. mine[t] \in Tasks /\ entry[mine[t]].token = t
  BY <1>1 DEF LockInv, LockType, TokenHeld, Holding, Uses, UsePC
<1>3. \A u \in Tasks : task'[u].pc = IF u = t THEN "leave" ELSE task[u].pc
  BY <1>1 DEF Shape
<1>4. \A u \in Tasks : BlobOf(u)' = BlobOf(u) /\ Users(u)' = Users(u) /\ (Uses(u)' <=> Uses(u))
  BY <1>1, <1>3 DEF BlobOf, Users, Uses, UsePC
<1>5. /\ entry' \in [Tasks -> [users : Nat, token : Tasks \cup {None}]]
      /\ \A e \in Tasks : /\ entry'[e].users = entry[e].users
                          /\ entry'[e].token = IF e = mine[t] THEN None ELSE entry[e].token
  BY <1>1, <1>2 DEF LockInv, LockType
<1>6. LockType'
  BY <1>1, <1>4, <1>5 DEF LockInv, LockType
<1>7. EntryFound' /\ OneBlob' /\ EntryUsed'
  BY <1>1, <1>4 DEF LockInv, EntryFound, OneBlob, EntryUsed
<1>8. TokenHeld'
  <2>1. ASSUME NEW u \in Tasks, Holding(u)' PROVE entry'[mine[u]].token = u
    <3>1. u # t /\ Holding(u) /\ mine[u] \in Tasks /\ entry[mine[u]].token = u
      BY <1>3, <2>1 DEF Holding, LockInv, LockType, TokenHeld, Uses, UsePC
    <3> QED BY <1>2, <1>5, <3>1
  <2> QED BY <1>1, <2>1 DEF TokenHeld
<1>9. UsersCounted'
  BY <1>4, <1>5 DEF LockInv, UsersCounted
<1> QED BY <1>6, <1>7, <1>8, <1>9 DEF LockInv

\* The last user takes the entry out of the map; while another user is left, it stays.
LEMMA LeaveKeeps ==
    ASSUME Shape, LockInv, NEW t \in Tasks, GiveUp(t) \/ Leave(t)
    PROVE  LockInv'
<1>0. PICK b, e : b = BlobOf(t) /\ e = mine[t]
  OBVIOUS
<1>1. /\ task[t].pc \in {"token", "leave"}
      /\ entry' = [entry EXCEPT ![e].users = @ - 1]
      /\ entries' = IF entry[e].users = 1 THEN [entries EXCEPT ![b] = None] ELSE entries
      /\ mine' = [mine EXCEPT ![t] = None]
      /\ \E to \in {"failed", "unlink"} : task' = [task EXCEPT ![t].pc = to]
      /\ call' = call \/ call' = [call EXCEPT ![t[1]].done = TRUE]
  BY <1>0 DEF GiveUp, Leave, LeaveLock, LastUser, FailTask, At, Goto
<1>2. e \in Tasks /\ b \in Blobs /\ entries[b] = e /\ t \in Users(e)
  BY <1>0, <1>1, BlobExists DEF LockInv, LockType, EntryFound, Users, Uses, UsePC
<1>3. /\ task'[t].pc \in {"failed", "unlink"}
      /\ \A u \in Tasks : u # t => task'[u].pc = task[u].pc
  BY <1>1 DEF Shape
<1>4. \A u \in Tasks : BlobOf(u)' = BlobOf(u)
  <2>1. \A i \in Calls : call'[i].commit = call[i].commit
    BY <1>1 DEF Shape
  <2>2. \A u \in Tasks : u[1] \in Calls
    BY DEF Tasks
  <2> QED BY <2>1, <2>2 DEF BlobOf
<1>5. \A u \in Tasks : mine'[u] = IF u = t THEN None ELSE mine[u]
  BY <1>1 DEF LockInv, LockType
<1>6. Users(e)' = Users(e) \ {t} /\ \A x \in Tasks : x # e => Users(x)' = Users(x)
  BY <1>0, <1>2, <1>5, DownloadAssumption DEF Users
<1>7. Cardinality(Users(e)) = entry[e].users /\ entry[e].users \in Nat /\ entry[e].users # 0
  BY <1>2, UsersFinite DEF LockInv, UsersCounted
<1>8. Cardinality(Users(e)') = entry[e].users - 1
  BY <1>2, <1>6, <1>7, UsersFinite, FS_RemoveElement
<1>9. entry[e].users = 1 <=> Users(e) \ {t} = {}
  <2>1. IsFiniteSet(Users(e) \ {t}) /\ Cardinality(Users(e) \ {t}) = entry[e].users - 1
    BY <1>2, <1>7, UsersFinite, FS_RemoveElement
  <2>2. Cardinality(Users(e) \ {t}) = 0 <=> Users(e) \ {t} = {}
    BY <2>1, FS_EmptySet
  <2> QED BY <1>7, <2>1, <2>2
<1>10. /\ entry' \in [Tasks -> [users : Nat, token : Tasks \cup {None}]]
       /\ \A x \in Tasks : /\ entry'[x].users = IF x = e THEN entry[e].users - 1 ELSE entry[x].users
                           /\ entry'[x].token = entry[x].token
  BY <1>1, <1>2, <1>7 DEF LockInv, LockType
<1>11. \A c \in Blobs : entries'[c] = IF c = b /\ entry[e].users = 1 THEN None ELSE entries[c]
  BY <1>1 DEF LockInv, LockType
<1>12. LockType'
  <2>1. entries' \in [Blobs -> Tasks \cup {None}] /\ mine' \in [Tasks -> Tasks \cup {None}]
    BY <1>1 DEF LockInv, LockType
  <2>2. \A u \in Tasks : mine'[u] # None <=> task'[u].pc \in UsePC
    BY <1>3, <1>5 DEF LockInv, LockType, Uses, UsePC
  <2> QED BY <1>10, <2>1, <2>2 DEF LockType, Uses
<1>13. EntryFound'
  <2>1. ASSUME NEW u \in Tasks, mine'[u] # None PROVE entries'[BlobOf(u)] = mine'[u]
    <3>1. u # t /\ mine'[u] = mine[u] /\ entries[BlobOf(u)] = mine[u] /\ BlobOf(u) \in Blobs
      BY <1>5, <2>1, BlobExists DEF LockInv, LockType, EntryFound, Uses, UsePC
    <3>2. BlobOf(u) = b => u \in Users(e) \ {t}
      BY <1>2, <3>1 DEF Users
    <3> QED BY <1>9, <1>11, <3>1, <3>2
  <2> QED BY <2>1, <1>4 DEF EntryFound
<1>14. OneBlob'
  BY <1>4, <1>5 DEF LockInv, OneBlob
<1>15. EntryUsed'
  <2>1. ASSUME NEW c \in Blobs, entries'[c] # None
        PROVE  \E u \in Tasks : mine'[u] = entries'[c] /\ BlobOf(u) = c
    <3>1. PICK u \in Tasks : mine[u] = entries[c] /\ BlobOf(u) = c
      BY <1>11, <2>1 DEF LockInv, EntryUsed
    <3>2. entries'[c] = entries[c]
      BY <1>11, <2>1
    <3>3. CASE u # t
      BY <1>5, <3>1, <3>2, <3>3
    <3>4. CASE u = t
      <4>1. c = b /\ entries[c] = e /\ entry[e].users # 1
        BY <1>0, <1>2, <1>11, <2>1, <3>1, <3>4
      <4>2. PICK v \in Users(e) : v # t
        BY <1>9, <4>1
      <4>3. v \in Tasks /\ mine[v] = e /\ BlobOf(v) = b
        BY <1>0, <1>2, <4>2, DownloadAssumption DEF Users, LockInv, OneBlob, LockType
      <4> QED BY <1>5, <3>2, <4>1, <4>2, <4>3
    <3> QED BY <3>3, <3>4
  <2> QED BY <2>1, <1>4 DEF EntryUsed
<1>16. TokenHeld'
  BY <1>3, <1>5, <1>10 DEF LockInv, LockType, TokenHeld, Holding, Uses, UsePC
<1>17. UsersCounted'
  <2>1. ASSUME NEW x \in Tasks PROVE entry'[x].users = Cardinality(Users(x)')
    BY <1>6, <1>8, <1>10 DEF LockInv, UsersCounted
  <2> QED BY <2>1 DEF UsersCounted
<1> QED BY <1>12, <1>13, <1>14, <1>15, <1>16, <1>17 DEF LockInv

\* Every other step of a task keeps the locks, who uses them and for which blob, and lets
\* nobody hold a token who did not.
LEMMA OthersKeep ==
    ASSUME LockInv, UNCHANGED locks,
           \A u \in Tasks : /\ task'[u].pc \in UsePC <=> Uses(u)
                            /\ Uses(u) => BlobOf(u)' = BlobOf(u)
                            /\ Holding(u)' => Holding(u)
    PROVE  LockInv'
<1>1. \A u \in Tasks : Users(u)' = Users(u) /\ (Uses(u)' <=> Uses(u))
  BY DEF locks, Users, Uses
<1>2. \A u \in Tasks : mine[u] # None <=> Uses(u)
  BY DEF LockInv, LockType
<1>3. LockType'
  BY <1>1 DEF LockInv, LockType, locks
<1>4. EntryFound' /\ OneBlob'
  BY <1>2 DEF LockInv, EntryFound, OneBlob, locks
<1>5. EntryUsed'
  <2>1. ASSUME NEW b \in Blobs, entries[b] # None PROVE \E u \in Tasks : mine[u] = entries[b] /\ BlobOf(u)' = b
    <3>1. PICK u \in Tasks : mine[u] = entries[b] /\ BlobOf(u) = b
      BY <2>1 DEF LockInv, EntryUsed
    <3> QED BY <1>2, <2>1, <3>1
  <2> QED BY <2>1 DEF EntryUsed, locks
<1>6. TokenHeld' /\ UsersCounted'
  BY <1>1 DEF LockInv, TokenHeld, UsersCounted, locks
<1> QED BY <1>3, <1>4, <1>5, <1>6 DEF LockInv

\* The steps of a task under its lock or after it, and a task that never asks for it.
LEMMA WorkKeeps ==
    ASSUME Shape, LockInv, NEW t \in Tasks,
           \/ EnterFails(t) \/ Stat(t) \/ Get(t) \/ Write(t) \/ Store(t) \/ Interrupt(t)
           \/ Unlink(t) \/ Link(t) \/ Duplicate(t)
    PROVE  LockInv'
<1>1. UNCHANGED locks
  BY DEF EnterFails, Stat, Get, Write, Store, Interrupt, Unlink, Link, Duplicate
<1>2. /\ \A u \in Tasks : u # t => task'[u].pc = task[u].pc
      /\ \/ {task[t].pc, task'[t].pc} \subseteq {"stat", "get", "copy", "release"}
         \/ {task[t].pc, task'[t].pc} \subseteq TaskPC \ UsePC
  BY DEF EnterFails, FailTask, Stat, Get, Write, Store, Interrupt, Unlink, Link, Duplicate,
         Return, Goto, At, Shape, TaskPC, UsePC
<1>3. \A u \in Tasks : BlobOf(u)' = BlobOf(u)
  <2>0. call' = call \/ call' = [call EXCEPT ![t[1]].done = TRUE]
    BY DEF EnterFails, FailTask, Stat, Get, Write, Store, Interrupt, Unlink, Link, Duplicate
  <2>1. \A i \in Calls : call'[i].commit = call[i].commit
    BY <2>0 DEF Shape
  <2>2. \A u \in Tasks : u[1] \in Calls
    BY DEF Tasks
  <2> QED BY <2>1, <2>2 DEF BlobOf
<1>4. \A u \in Tasks : (task'[u].pc \in UsePC <=> Uses(u)) /\ (Holding(u)' => Holding(u))
  BY <1>2 DEF Uses, UsePC, Holding
<1> QED BY <1>1, <1>3, <1>4, OthersKeep

\* Calls begin and end while their tasks use no lock, and a crash frees all of them.
LEMMA CallKeeps ==
    ASSUME Shape, LockInv, NEW i \in Calls, (\E ref \in Refs : Start(i, ref)) \/ Cancel(i) \/ Finish(i)
    PROVE  LockInv'
<1>1. UNCHANGED locks
  BY DEF Start, Cancel, Finish
<1>2. \A u \in Tasks : u[1] \in Calls /\ u = <<u[1], u[2]>> /\ u[2] \in Files
  BY DEF Tasks
<1>3. CASE Cancel(i)
  <2>1. \A j \in Calls : call'[j].commit = call[j].commit
    BY <1>3 DEF Cancel, Shape
  <2>2. \A u \in Tasks : BlobOf(u)' = BlobOf(u)
    BY <1>2, <2>1 DEF BlobOf
  <2>3. UNCHANGED task
    BY <1>3 DEF Cancel
  <2> QED BY <1>1, <2>2, <2>3, OthersKeep DEF Uses, Holding
<1>4. ASSUME NEW ref \in Refs, Start(i, ref) PROVE LockInv'
  <2>1. call[i].pc = "idle" /\ \A u \in Tasks : u[1] = i => task[u].pc = "none"
    BY <1>4 DEF Start, Shape
  <2>2. \A u \in Tasks : IF u[1] = i THEN task'[u].pc \in {"none", "queued"} ELSE task'[u] = task[u]
    BY <1>4 DEF Start, NoTask
  <2>3. \A j \in Calls : j # i => call'[j] = call[j]
    BY <1>4 DEF Start
  <2>4. \A u \in Tasks : Uses(u) => BlobOf(u)' = BlobOf(u)
    BY <1>2, <2>1, <2>3 DEF BlobOf, Uses, UsePC
  <2>5. \A u \in Tasks : (task'[u].pc \in UsePC <=> Uses(u)) /\ (Holding(u)' => Holding(u))
    BY <2>1, <2>2 DEF Uses, UsePC, Holding
  <2> QED BY <1>1, <2>4, <2>5, OthersKeep
<1>5. CASE Finish(i)
  <2>1. \A u \in Tasks : u[1] = i => task[u].pc \in {"none", "linked", "failed", "queued"}
    BY <1>2, <1>5 DEF Finish, Quiet
  <2>2. \A u \in Tasks : IF u[1] = i THEN task'[u].pc = "none" ELSE task'[u] = task[u]
    BY <1>5 DEF Finish, NoTask
  <2>3. \A j \in Calls : j # i => call'[j] = call[j]
    BY <1>5 DEF Finish
  <2>4. \A u \in Tasks : Uses(u) => BlobOf(u)' = BlobOf(u)
    BY <1>2, <2>1, <2>3 DEF BlobOf, Uses, UsePC
  <2>5. \A u \in Tasks : (task'[u].pc \in UsePC <=> Uses(u)) /\ (Holding(u)' => Holding(u))
    BY <2>1, <2>2 DEF Uses, UsePC, Holding
  <2> QED BY <1>1, <2>4, <2>5, OthersKeep
<1> QED BY <1>3, <1>4, <1>5

AllFree ==
    /\ task = [t \in Tasks |-> NoTask] /\ entries = [b \in Blobs |-> None]
    /\ entry = [t \in Tasks |-> NoLock] /\ mine = [t \in Tasks |-> None]

\* Without users there is nothing to get wrong: at the start and after a crash.
LEMMA NoLocks == AllFree => LockInv
<1> SUFFICES ASSUME AllFree PROVE LockInv
  OBVIOUS
<1> USE DEF AllFree
<1>1. \A e \in Tasks : Users(e) = {}
  BY DownloadAssumption DEF Users
<1>2. \A t \in Tasks : task[t].pc = "none"
  BY DEF NoTask
<1>3. LockType
  BY <1>2 DEF LockType, NoLock, Uses, UsePC
<1>4. EntryFound /\ OneBlob /\ EntryUsed
  BY DEF EntryFound, OneBlob, EntryUsed
<1>5. TokenHeld
  BY <1>2 DEF TokenHeld, Holding
<1>6. UsersCounted
  BY <1>1, FS_EmptySet DEF UsersCounted, NoLock
<1> QED BY <1>3, <1>4, <1>5, <1>6 DEF LockInv

-----------------------------------------------------------------------------
\* The step of a task moves its program counter and may end its call's context.
LEMMA TaskShape ==
    ASSUME Shape, NEW t \in Tasks, Token(t) \/ Step(t)
    PROVE  Shape'
<1>1. /\ task[t].pc \in TaskPC \ {"none"}
      /\ DOMAIN task'[t] = {"pc", "offset", "ok"} /\ task'[t].pc \in TaskPC
      /\ DOMAIN task' = Tasks /\ \A u \in Tasks : u # t => task'[u] = task[u]
  BY DEF Token, Step, Enter, EnterFails, GiveUp, Release, Leave, FailTask, Stat, Get, Write, Store,
         Interrupt, Unlink, Link, Duplicate, Return, Goto, At, Shape, TaskPC, UsePC
<1>2. call' = call \/ call' = [call EXCEPT ![t[1]].done = TRUE]
  BY DEF Token, Step, Enter, EnterFails, GiveUp, Release, Leave, FailTask, Stat, Get, Write, Store,
         Interrupt, Unlink, Link, Duplicate
<1>3. UNCHANGED commitOf
  BY DEF Token, Step, Enter, EnterFails, GiveUp, Release, Leave, Stat, Get, Write, Store,
         Interrupt, Unlink, Link, Duplicate, disk, refs
<1>4. /\ DOMAIN call' = Calls
      /\ \A i \in Calls : /\ DOMAIN call'[i] = {"pc", "ref", "commit", "done"}
                          /\ call'[i].pc = call[i].pc /\ call'[i].commit = call[i].commit
  BY <1>2 DEF Shape
<1>5. \A u \in Tasks : u[1] \in Calls
  BY DEF Tasks
<1> QED BY <1>1, <1>3, <1>4, <1>5 DEF Shape

\* The steps of a call keep the records' fields.
LEMMA CallShape ==
    ASSUME Shape, NEW i \in Calls, (\E ref \in Refs : Start(i, ref)) \/ Cancel(i) \/ Finish(i)
    PROVE  Shape'
<1>1. UNCHANGED commitOf
  BY DEF Start, Cancel, Finish, disk, refs
<1>2. \A u \in Tasks : u[1] \in Calls
  BY DEF Tasks
<1>3. CASE Cancel(i)
  BY <1>1, <1>2, <1>3 DEF Cancel, Shape
<1>4. ASSUME NEW ref \in Refs, Start(i, ref) PROVE Shape'
  <2>1. commitOf[ref] \in Commits
    BY DEF Shape
  <2>2. /\ DOMAIN call' = Calls /\ \A j \in Calls : j # i => call'[j] = call[j]
        /\ DOMAIN call'[i] = {"pc", "ref", "commit", "done"}
        /\ call'[i].pc = "fetch" /\ call'[i].commit = commitOf[ref]
    BY <1>4 DEF Start, Shape
  <2>3. /\ DOMAIN task' = Tasks /\ \A u \in Tasks : u[1] # i => task'[u] = task[u]
        /\ \A u \in Tasks : u[1] = i =>
             /\ DOMAIN task'[u] = {"pc", "offset", "ok"}
             /\ task'[u].pc \in {"none", "queued"}
             /\ task'[u].pc = "queued" => u[2] \in DOMAIN Etag[commitOf[ref]]
    BY <1>4 DEF Start, NoTask
  <2> QED BY <1>1, <1>2, <2>1, <2>2, <2>3 DEF Shape, TaskPC, UsePC
<1>5. CASE Finish(i)
  <2>1. /\ DOMAIN call' = Calls /\ \A j \in Calls : j # i => call'[j] = call[j]
        /\ DOMAIN call'[i] = {"pc", "ref", "commit", "done"} /\ call'[i].pc = "idle"
    BY <1>5 DEF Finish, Shape, NoCall
  <2>2. /\ DOMAIN task' = Tasks /\ \A u \in Tasks : u[1] # i => task'[u] = task[u]
        /\ \A u \in Tasks : u[1] = i =>
             DOMAIN task'[u] = {"pc", "offset", "ok"} /\ task'[u].pc = "none"
    BY <1>5 DEF Finish, NoTask
  <2> QED BY <1>1, <1>2, <2>1, <2>2 DEF Shape, TaskPC
<1> QED BY <1>3, <1>4, <1>5

\* So does a process that starts without calls.
LEMMA IdleShape ==
    ASSUME commitOf \in [Refs -> Commits], call = [i \in Calls |-> NoCall], task = [t \in Tasks |-> NoTask]
    PROVE  Shape
BY DEF Shape, NoCall, NoTask, TaskPC

\* IInv holds in the initial states.
LEMMA InitHolds == Init => IInv
BY NoLocks, IdleShape, DownloadAssumption DEF AllFree, Init, IInv

\* Every step keeps IInv.
LEMMA NextKeeps == IInv /\ [Next]_vars => IInv'
<1> SUFFICES ASSUME IInv, [Next]_vars PROVE IInv'
  OBVIOUS
<1> USE DEF IInv
<1>1. ASSUME NEW i \in Calls, (\E ref \in Refs : Start(i, ref)) \/ Cancel(i) \/ Finish(i) PROVE IInv'
  BY <1>1, CallKeeps, CallShape
<1>2. ASSUME NEW t \in Tasks, Token(t) \/ Step(t) PROVE IInv'
  BY <1>2, TaskShape, EnterKeeps, TokenKeeps, ReleaseKeeps, LeaveKeeps, WorkKeeps DEF Step
<1>3. CASE Crash
  <2>1. UNCHANGED commitOf
    BY <1>3 DEF Crash, disk, refs
  <2>2. Shape'
    BY <1>3, <2>1 DEF Crash, Shape, NoCall, NoTask, TaskPC
  <2>3. LockInv'
    <3>1. AllFree'
      BY <1>3 DEF Crash, AllFree
    <3>2. (AllFree => LockInv)'
      BY NoLocks, PTL
    <3> QED BY <3>1, <3>2
  <2> QED BY <2>2, <2>3
<1>4. CASE UNCHANGED vars
  <2>1. UNCHANGED <<call, task, locks, commitOf>>
    BY <1>4 DEF vars, disk, refs
  <2>2. Shape'
    BY <2>1 DEF Shape
  <2>3. LockInv'
    BY <2>1, OthersKeep DEF Uses, Holding, BlobOf
  <2> QED BY <2>2, <2>3
<1> QED BY <1>1, <1>2, <1>3, <1>4 DEF Next

-----------------------------------------------------------------------------
(* What the calls know of the disk.                                         *)

\* Two references that name one commit, whose downloads may write the same links.
Overlap == \E r, q \in Refs : r # q /\ commitOf[r] = commitOf[q]

Active(i) == call[i].pc # "idle"
Length(b) == IF partial[b] = None THEN 0 ELSE partial[b]
Linked(t) == snapshot[call[t[1]].commit][t[2]]

\* A partial file is the beginning of its blob: it never holds a misplaced piece.
DiskType ==
    /\ blob \in [Blobs -> 0 .. Size \cup {None}]
    /\ partial \in [Blobs -> 0 .. Size \cup {None}]
    /\ DOMAIN snapshot = Commits /\ \A c \in Commits : DOMAIN snapshot[c] = Files
    /\ published \subseteq Commits

\* A blob that everybody knows the size of is complete, or truncated by a link.
KnownWhole == \A b \in Blobs : SizeKnown(b) => blob[b] \in {None, Size} \cup (IF Overlap THEN {0} ELSE {})

\* Calls in progress are for different references.
CallsApart ==
    /\ \A i \in Calls : Active(i) => call[i].ref \in Refs /\ call[i].commit = commitOf[call[i].ref]
    /\ \A i, j \in Calls : i # j /\ Active(i) /\ Active(j) => call[i].ref # call[j].ref

\* A transfer is where its file ends, and what it will replace is not the whole blob.
Transferring(t) ==
    /\ task[t].offset \in 0 .. Size /\ task[t].ok \in BOOLEAN
    /\ task[t].pc \in {"get", "copy"} => blob[BlobOf(t)] # Size
    /\ task[t].pc = "get"  => task[t].offset = Length(BlobOf(t))
    /\ task[t].pc = "copy" => task[t].offset = partial[BlobOf(t)]
    /\ task[t].pc = "failed" => call[t[1]].done

\* A file of known size that has been downloaded stays complete and is not published yet;
\* nobody else makes its link.
Fetched(t) ==
    /\ \/ task[t].pc \in {"release", "leave"} /\ task[t].ok
       \/ task[t].pc \in {"unlink", "link", "linked"}
       => (Sized(t) => blob[BlobOf(t)] = Size)
    /\ task[t].pc # "duplicate"
    /\ task[t].pc = "link" => Linked(t) = None
    /\ task[t].pc = "linked" => Linked(t) = Symlink
    /\ task[t].pc # "none" /\ Sized(t) => call[t[1]].commit \notin published

\* A call that knows the sizes takes no task for a file that is there.
Skipped(i) == call[i].ref \in Listed =>
                 \A f \in DOMAIN Etag[call[i].commit] :
                     task[<<i, f>>].pc = "none" => Content(call[i].commit, f) = Size

\* The links of a commit whose sizes are known lead to complete blobs; when it is
\* published it has all of its files.
LinksWhole(c) == Measured(c) => \A f \in DOMAIN Etag[c] : snapshot[c][f] = Symlink => blob[Etag[c][f]] = Size
Complete(c)   == Measured(c) => \A f \in DOMAIN Etag[c] : Content(c, f) = Size

Commitwise ==
    /\ \A t \in Tasks : Fetched(t)
    /\ \A c \in Commits, f \in Files : snapshot[c][f] \in {None, Symlink}
    /\ \A i \in Calls : Active(i) => Skipped(i)
    /\ \A c \in Commits : LinksWhole(c)
    /\ \A c \in published : Complete(c)

DiskInv ==
    /\ DiskType /\ KnownWhole /\ CallsApart
    /\ \A t \in Tasks : Transferring(t)
    /\ Overlap \/ Commitwise

-----------------------------------------------------------------------------
\* Tasks that hold a token work on different blobs.
LEMMA HoldersApart ==
    ASSUME LockInv, NEW t \in Tasks, NEW u \in Tasks, Holding(t), Holding(u), t # u
    PROVE  BlobOf(t) # BlobOf(u)
<1>1. mine[t] # None /\ mine[u] # None
  BY DEF LockInv, LockType, Holding, Uses, UsePC
<1> QED BY <1>1 DEF LockInv, EntryFound, TokenHeld

\* What every step of a task leaves alone: the other tasks, and all of the calls but for
\* their contexts.
LEMMA StepFrame ==
    ASSUME Shape, NEW t \in Tasks, Token(t) \/ Step(t)
    PROVE  /\ UNCHANGED refs
           /\ \A i \in Calls : /\ call'[i].pc = call[i].pc /\ call'[i].ref = call[i].ref
                               /\ call'[i].commit = call[i].commit
                               /\ call[i].done => call'[i].done
           /\ \A u \in Tasks : /\ u[1] \in Calls /\ BlobOf(u)' = BlobOf(u)
                               /\ u # t => task'[u] = task[u]
           /\ task[t].pc # "none" /\ task'[t].pc # "none" /\ Active(t[1])
<1>1. UNCHANGED refs
  BY DEF Token, Step, Enter, EnterFails, GiveUp, Release, Leave, Stat, Get, Write, Store,
         Interrupt, Unlink, Link, Duplicate, disk
<1>2. call' = call \/ call' = [call EXCEPT ![t[1]].done = TRUE]
  BY DEF Token, Step, Enter, EnterFails, GiveUp, Release, Leave, FailTask, Stat, Get, Write, Store,
         Interrupt, Unlink, Link, Duplicate
<1>3. \A i \in Calls : /\ call'[i].pc = call[i].pc /\ call'[i].ref = call[i].ref
                       /\ call'[i].commit = call[i].commit
                       /\ call[i].done => call'[i].done
  BY <1>2 DEF Shape
<1>4. \A u \in Tasks : u[1] \in Calls
  BY DEF Tasks
<1>5. \A u \in Tasks : BlobOf(u)' = BlobOf(u)
  BY <1>3, <1>4 DEF BlobOf
<1>6. /\ task[t].pc # "none" /\ task'[t].pc # "none"
      /\ \A u \in Tasks : u # t => task'[u] = task[u]
  BY DEF Token, Step, Enter, EnterFails, GiveUp, Release, Leave, FailTask, Stat, Get, Write, Store,
         Interrupt, Unlink, Link, Duplicate, Return, Goto, At, Shape
<1>7. Active(t[1])
  BY <1>6 DEF Shape, Active
<1> QED BY <1>1, <1>3, <1>4, <1>5, <1>6, <1>7

\* Downloads of different references are downloads of different commits, unless references
\* overlap.
LEMMA CommitsApart ==
    ASSUME CallsApart, ~Overlap, NEW i \in Calls, NEW j \in Calls, i # j, Active(i), Active(j)
    PROVE  call[i].commit # call[j].commit
BY DEF CallsApart, Overlap

\* No step of a task changes what its call downloads.
LEMMA ApartKeeps ==
    ASSUME Shape, CallsApart, NEW t \in Tasks, Token(t) \/ Step(t)
    PROVE  CallsApart'
<1>1. /\ UNCHANGED commitOf
      /\ \A i \in Calls : call'[i].pc = call[i].pc /\ call'[i].ref = call[i].ref /\ call'[i].commit = call[i].commit
  BY StepFrame DEF refs
<1> QED BY <1>1 DEF CallsApart, Active

\* The steps that leave the files alone.
Idling(t) == Token(t) \/ Enter(t) \/ EnterFails(t) \/ GiveUp(t) \/ Release(t) \/ Leave(t) \/ Interrupt(t)

\* The other tasks' transfers go on: their blobs have their own lock holders.
LEMMA OthersTransfer ==
    ASSUME Shape, LockInv, NEW t \in Tasks, Token(t) \/ Step(t),
           NEW u \in Tasks, u # t, Transferring(u),
           \A b \in Blobs : \/ Holding(t) /\ BlobOf(t) = b
                            \/ partial'[b] = partial[b] /\ (blob'[b] = Size => blob[b] = Size)
    PROVE  Transferring(u)'
<1>1. task'[u] = task[u] /\ BlobOf(u)' = BlobOf(u) /\ (call[u[1]].done => call'[u[1]].done)
  BY StepFrame
<1>2. CASE task[u].pc \in {"get", "copy"}
  <2>1. BlobOf(u) \in Blobs /\ Holding(u)
    BY <1>2, BlobExists DEF Holding
  <2>2. ~(Holding(t) /\ BlobOf(t) = BlobOf(u))
    BY <2>1, HoldersApart
  <2>3. partial'[BlobOf(u)] = partial[BlobOf(u)] /\ (blob'[BlobOf(u)] = Size => blob[BlobOf(u)] = Size)
    BY <2>1, <2>2
  <2> QED BY <1>1, <1>2, <2>3 DEF Transferring, Length
<1>3. CASE task[u].pc \notin {"get", "copy"}
  BY <1>1, <1>3 DEF Transferring
<1> QED BY <1>2, <1>3

\* Waiting, failing and giving the lock back leave the files as they are.
LEMMA IdlingTransfers ==
    ASSUME Shape, LockInv, DiskType, \A u \in Tasks : Transferring(u), NEW t \in Tasks, Idling(t)
    PROVE  UNCHANGED <<disk>> /\ DiskType' /\ \A u \in Tasks : Transferring(u)'
<1>1. Token(t) \/ Step(t)
  BY DEF Idling, Step
<1>2. UNCHANGED disk
  BY DEF Idling, Token, Enter, EnterFails, GiveUp, Release, Leave, Interrupt
<1>3. UNCHANGED <<blob, partial, snapshot, published, commitOf>>
  BY <1>2 DEF disk, refs
<1>4. DiskType'
  BY <1>3 DEF DiskType
<1>5. Transferring(t)'
  <2>1. t[1] \in Calls
    BY DEF Tasks
  <2>2. \/ \E pc \in {"token", "stat", "leave", "unlink"} : Goto(t, pc)
        \/ FailTask(t) \/ Return(t, FALSE)
    BY DEF Idling, Token, Enter, EnterFails, GiveUp, Release, Leave, Interrupt
  <2>3. /\ task'[t].offset \in {0, task[t].offset} /\ (task'[t].ok = task[t].ok \/ task'[t].ok = FALSE)
        /\ task'[t].pc \in {"token", "stat", "failed", "leave", "unlink", "release"}
        /\ task'[t].pc = "failed" => call'[t[1]].done
    BY <2>1, <2>2 DEF FailTask, Return, Goto, Shape
  <2>4. task'[t].offset \in 0 .. Size /\ task'[t].ok \in BOOLEAN
    <3>1. 0 \in 0 .. Size
      BY DownloadAssumption
    <3> QED BY <2>3, <3>1 DEF Transferring
  <2> QED BY <2>3, <2>4 DEF Transferring
<1>6. ASSUME NEW u \in Tasks, u # t PROVE Transferring(u)'
  BY <1>1, <1>3, <1>6, OthersTransfer
<1> QED BY <1>2, <1>4, <1>5, <1>6

\* The steps of a transfer, under the lock of its blob. What a complete blob needs to stay
\* so is asked of every task; what makes a blob complete only of those that know its size.
LEMMA WorkTransfers ==
    ASSUME Shape, LockInv, DiskType, \A u \in Tasks : Transferring(u), NEW t \in Tasks,
           Stat(t) \/ Get(t) \/ Write(t) \/ Store(t)
    PROVE  /\ DiskType' /\ \A u \in Tasks : Transferring(u)'
           /\ UNCHANGED <<snapshot, refs, call>>
           /\ \A b \in Blobs : /\ blob[b] = Size => blob'[b] = Size
                               /\ b # BlobOf(t) \/ Sized(t) => blob'[b] \in {blob[b], None, Size}
           /\ task'[t].pc \in {"get", "copy", "release"}
           /\ task'[t].pc = "release" /\ Sized(t) => blob'[BlobOf(t)] = Size
<1> DEFINE b == BlobOf(t)
           Moved(v, w, off, pc) ==
              /\ blob' = [blob EXCEPT ![b] = v] /\ partial' = [partial EXCEPT ![b] = w]
              /\ blob[b] = Size => v = Size
              /\ Sized(t) => v \in {None, Size, blob[b]}
              /\ task'[t].pc = pc /\ task'[t].offset = off /\ task'[t].ok \in BOOLEAN
              /\ pc = "release" /\ Sized(t) => v = Size
              /\ pc = "get"  => v # Size /\ off = (IF w = None THEN 0 ELSE w)
              /\ pc = "copy" => v # Size /\ off = w
<1>0. (Token(t) \/ Step(t)) /\ Holding(t) /\ b \in Blobs
  BY BlobExists DEF Step, Stat, Get, Write, Store, Holding, At
<1>1. UNCHANGED <<snapshot, refs, call>>
  BY DEF Stat, Get, Write, Store
<1>2. BlobOf(t)' = b /\ UNCHANGED <<commitOf, published>>
  BY <1>0, <1>1, StepFrame DEF refs
<1>3. Size \in Nat /\ Size # 0 /\ None \notin Int /\ 0 \in 0 .. Size /\ Size \in 0 .. Size
  BY DownloadAssumption
<1>4. blob[b] \in 0 .. Size \cup {None} /\ partial[b] \in 0 .. Size \cup {None}
  BY <1>0 DEF DiskType
<1>5. task[t].offset \in 0 .. Size /\ task[t].ok \in BOOLEAN /\ DOMAIN task[t] = {"pc", "offset", "ok"}
  BY DEF Transferring, Shape
<1>6. blob = [blob EXCEPT ![b] = blob[b]] /\ partial = [partial EXCEPT ![b] = partial[b]]
  BY DEF DiskType
<1>7. ASSUME NEW ok \in BOOLEAN, Return(t, ok)
      PROVE  task'[t].pc = "release" /\ task'[t].offset = 0 /\ task'[t].ok \in BOOLEAN
  BY <1>7 DEF Return, Shape
<1>8. \E v, w \in 0 .. Size \cup {None}, off \in 0 .. Size, pc \in {"get", "copy", "release"} :
         Moved(v, w, off, pc)
  <2>1. CASE Stat(t)
    <3>1. CASE Present(blob[b]) /\ (Sized(t) => blob[b] = Size)
      <4>1. UNCHANGED <<blob, partial>> /\ Return(t, TRUE)
        BY <2>1, <3>1 DEF Stat
      <4>2. Moved(blob[b], partial[b], 0, "release")
        BY <1>3, <1>6, <1>7, <3>1, <4>1
      <4> HIDE DEF Moved
      <4> QED BY <1>3, <1>4, <4>2
    <3>2. CASE ~(Present(blob[b]) /\ (Sized(t) => blob[b] = Size)) /\ Sized(t) /\ Length(b) = Size
      <4>1. /\ blob' = [blob EXCEPT ![b] = Size] /\ partial' = [partial EXCEPT ![b] = None]
            /\ Return(t, TRUE)
        BY <2>1, <3>2 DEF Stat, Length
      <4>2. Moved(Size, None, 0, "release")
        BY <1>3, <1>7, <4>1
      <4> HIDE DEF Moved
      <4> QED BY <1>3, <4>2
    <3>3. CASE ~(Present(blob[b]) /\ (Sized(t) => blob[b] = Size)) /\ ~(Sized(t) /\ Length(b) = Size)
      <4>1. UNCHANGED <<blob, partial>> /\ task' = [task EXCEPT ![t].pc = "get", ![t].offset = Length(b)]
        BY <2>1, <3>3 DEF Stat, Length
      <4>2. blob[b] # Size /\ Length(b) \in 0 .. Size
        BY <1>3, <1>4, <3>3 DEF Present, Length
      <4>3. task'[t].pc = "get" /\ task'[t].offset = Length(b) /\ task'[t].ok \in BOOLEAN
        BY <1>5, <4>1 DEF Shape
      <4>4. Moved(blob[b], partial[b], Length(b), "get")
        BY <1>6, <4>1, <4>2, <4>3 DEF Length
      <4> HIDE DEF Moved
      <4> QED BY <1>4, <4>2, <4>4
    <3> QED BY <3>1, <3>2, <3>3
  <2>2. CASE Get(t)
    <3>1. blob[b] # Size /\ task[t].offset = Length(b)
      BY <2>2 DEF Get, At, Transferring
    <3>2. PICK v \in {None, blob[b]} : blob' = [blob EXCEPT ![b] = v] /\ v # Size
      <4>1. blob' = [blob EXCEPT ![b] = IF Present(blob[b]) THEN None ELSE blob[b]]
        BY <2>2 DEF Get
      <4>2. (IF Present(blob[b]) THEN None ELSE blob[b]) \in {None, blob[b]} \ {Size}
        BY <1>3, <3>1
      <4> QED BY <4>1, <4>2
    <3>3. PICK offset \in {0, task[t].offset} :
             /\ partial' = [partial EXCEPT ![b] = IF offset = 0 THEN 0 ELSE @]
             /\ task' = [task EXCEPT ![t].pc = "copy", ![t].offset = offset]
      BY <2>2 DEF Get
    <3>4. (IF offset = 0 THEN 0 ELSE partial[b]) = offset /\ offset \in 0 .. Size
      BY <1>3, <1>4, <1>5, <3>1, <3>3 DEF Length
    <3>5. partial' = [partial EXCEPT ![b] = offset]
      BY <3>3, <3>4
    <3>6. task'[t].pc = "copy" /\ task'[t].offset = offset /\ task'[t].ok \in BOOLEAN
      BY <1>5, <3>3 DEF Shape
    <3>7. Moved(v, offset, offset, "copy")
      BY <3>1, <3>2, <3>5, <3>6
    <3> HIDE DEF Moved
    <3> QED BY <1>4, <3>2, <3>4, <3>7
  <2>3. CASE Write(t)
    <3>1. blob[b] # Size /\ task[t].offset = partial[b] /\ task[t].offset < Size
      BY <2>3 DEF Write, At, Transferring
    <3>2. /\ partial' = [partial EXCEPT ![b] = task[t].offset + 1]
          /\ task'[t].pc = "copy" /\ task'[t].offset = task[t].offset + 1 /\ task'[t].ok \in BOOLEAN
      BY <1>5, <2>3, <3>1 DEF Write, At, Shape
    <3>3. task[t].offset + 1 \in 0 .. Size
      BY <1>3, <1>5, <3>1
    <3>4. UNCHANGED blob
      BY <2>3 DEF Write
    <3>5. Moved(blob[b], task[t].offset + 1, task[t].offset + 1, "copy")
      BY <1>6, <3>1, <3>2, <3>4
    <3> HIDE DEF Moved
    <3> QED BY <1>4, <3>3, <3>5
  <2>4. CASE Store(t)
    <3>1. blob[b] # Size /\ partial[b] = task[t].offset /\ (Sized(t) => partial[b] = Size)
      BY <2>4 DEF Store, At, Transferring
    <3>2. /\ blob' = [blob EXCEPT ![b] = partial[b]] /\ partial' = [partial EXCEPT ![b] = None]
          /\ Return(t, TRUE)
      BY <2>4 DEF Store
    <3>3. Moved(partial[b], None, 0, "release")
      BY <1>7, <3>1, <3>2
    <3> HIDE DEF Moved
    <3> QED BY <1>3, <1>4, <3>3
  <2> QED BY <2>1, <2>2, <2>3, <2>4
<1>9. PICK v \in 0 .. Size \cup {None}, w \in 0 .. Size \cup {None}, off \in 0 .. Size,
           pc \in {"get", "copy", "release"} : Moved(v, w, off, pc)
  BY <1>8
<1>10. /\ blob'[b] = v /\ partial'[b] = w
       /\ \A c \in Blobs : c # b => blob'[c] = blob[c] /\ partial'[c] = partial[c]
  BY <1>0, <1>9 DEF DiskType
<1>11. DiskType'
  BY <1>0, <1>1, <1>2, <1>9 DEF DiskType
<1>12. Transferring(t)'
  BY <1>2, <1>9, <1>10 DEF Transferring, Length
<1>13. ASSUME NEW u \in Tasks, u # t PROVE Transferring(u)'
  BY <1>0, <1>10, <1>13, OthersTransfer
<1>14. ASSUME NEW c \in Blobs
       PROVE  /\ blob[c] = Size => blob'[c] = Size
              /\ c # b \/ Sized(t) => blob'[c] \in {blob[c], None, Size}
  BY <1>9, <1>10
<1> QED BY <1>1, <1>9, <1>10, <1>11, <1>12, <1>13, <1>14

\* Linking comes after the transfer; it may truncate a blob only through another call's link.
LEMMA LinkTransfers ==
    ASSUME Shape, LockInv, DiskType, \A u \in Tasks : Transferring(u), NEW t \in Tasks,
           Unlink(t) \/ Link(t) \/ Duplicate(t), Duplicate(t) => Overlap
    PROVE  /\ DiskType' /\ \A u \in Tasks : Transferring(u)'
           /\ \A b \in Blobs : blob'[b] = blob[b] \/ (Overlap /\ blob'[b] = 0)
<1>0. (Token(t) \/ Step(t)) /\ BlobOf(t) \in Blobs /\ t[1] \in Calls
  BY BlobExists DEF Step, Unlink, Link, Duplicate, At, Tasks
<1>1. UNCHANGED <<partial, commitOf, published>>
  BY DEF Unlink, Link, Duplicate, refs
<1>2. blob' = blob \/ (Overlap /\ blob' = [blob EXCEPT ![BlobOf(t)] = 0])
  BY DEF Unlink, Link, Duplicate
<1>3. snapshot' = snapshot \/ \E value : SetLink(t, value)
  BY DEF Unlink, Link, Duplicate
<1>4. DOMAIN snapshot' = Commits /\ \A c \in Commits : DOMAIN snapshot'[c] = Files
  BY <1>3 DEF DiskType, SetLink
<1>5. blob' \in [Blobs -> 0 .. Size \cup {None}] /\ 0 \in 0 .. Size /\ Size # 0
  BY <1>2, DownloadAssumption DEF DiskType
<1>6. DiskType'
  BY <1>1, <1>4, <1>5 DEF DiskType
<1>7. Transferring(t)'
  <2>1. (\E pc \in {"link", "linked", "duplicate"} : Goto(t, pc)) \/ FailTask(t)
    BY DEF Unlink, Link, Duplicate
  <2>2. /\ task'[t].offset = task[t].offset /\ task'[t].ok = task[t].ok
        /\ task'[t].pc \in {"link", "linked", "duplicate", "failed"}
        /\ task'[t].pc = "failed" => call'[t[1]].done
    BY <1>0, <2>1 DEF FailTask, Goto, Shape
  <2>3. task'[t].offset \in 0 .. Size /\ task'[t].ok \in BOOLEAN
    BY <2>2 DEF Transferring
  <2> QED BY <2>2, <2>3 DEF Transferring
<1>8. \A b \in Blobs : blob'[b] = blob[b] \/ (Overlap /\ blob'[b] = 0)
  BY <1>2 DEF DiskType
<1>9. ASSUME NEW u \in Tasks, u # t PROVE Transferring(u)'
  BY <1>0, <1>1, <1>5, <1>8, <1>9, OthersTransfer
<1> QED BY <1>6, <1>7, <1>8, <1>9

\* A call whose commit has listed sizes, or whose blob has, knows them; where references do
\* not overlap, a commit is as its reference.
LEMMA SizesKnown ==
    ASSUME Shape, CallsApart, NEW t \in Tasks, task[t].pc # "none"
    PROVE  /\ SizeKnown(BlobOf(t)) => Sized(t)
           /\ Measured(call[t[1]].commit) => Sized(t)
           /\ ~Overlap /\ Sized(t) => Measured(call[t[1]].commit)
<1>1. t[1] \in Calls /\ Active(t[1]) /\ call[t[1]].commit \in Commits /\ t[2] \in DOMAIN Etag[call[t[1]].commit]
  BY DEF Shape, Tasks, Active
<1>2. call[t[1]].ref \in Refs /\ call[t[1]].commit = commitOf[call[t[1]].ref]
  BY <1>1 DEF CallsApart
<1>3. Measured(call[t[1]].commit) => Sized(t)
  BY <1>2 DEF Measured, Sized
<1>4. SizeKnown(BlobOf(t)) => Measured(call[t[1]].commit)
  BY <1>1 DEF SizeKnown, BlobOf
<1> QED BY <1>2, <1>3, <1>4 DEF Overlap, Measured, Sized

\* While references do not overlap, a step that keeps the complete blobs, and of the links
\* no other than its own task's, keeps what all the other tasks have got.
LEMMA OthersKeepFiles ==
    ASSUME Shape, DiskType, CallsApart, ~Overlap, Commitwise, NEW t \in Tasks, Token(t) \/ Step(t),
           \A b \in Blobs : blob[b] = Size => blob'[b] = Size,
           DOMAIN snapshot' = Commits, \A c \in Commits : DOMAIN snapshot'[c] = Files,
           \A c \in Commits, f \in Files : \/ snapshot'[c][f] = snapshot[c][f]
                                           \/ /\ c = call[t[1]].commit /\ f = t[2]
                                              /\ snapshot'[c][f] \in {None, Symlink}
                                              /\ snapshot'[c][f] = Symlink => task'[t].pc = "linked",
           Fetched(t)'
    PROVE  Commitwise'
<1>1. /\ UNCHANGED <<commitOf, published>>
      /\ \A i \in Calls : call'[i].pc = call[i].pc /\ call'[i].ref = call[i].ref /\ call'[i].commit = call[i].commit
      /\ \A u \in Tasks : u[1] \in Calls /\ BlobOf(u)' = BlobOf(u) /\ (u # t => task'[u] = task[u])
      /\ task[t].pc # "none" /\ task'[t].pc # "none" /\ Active(t[1])
  BY StepFrame DEF refs
<1>2. \A u \in Tasks : u = <<u[1], u[2]>> /\ u[2] \in Files
  BY DEF Tasks
<1>3. \A c \in Commits, f \in Files : snapshot'[c][f] \in {None, Symlink}
  BY DEF Commitwise
<1>4. None # Symlink /\ None # Size /\ Symlink # Size /\ \A c \in Commits : DOMAIN Etag[c] \subseteq Files
  BY DownloadAssumption
<1>5. ASSUME NEW c \in Commits, NEW f \in DOMAIN Etag[c], Content(c, f) = Size,
             ~(c = call[t[1]].commit /\ f = t[2])
      PROVE  Content(c, f)' = Size
  <2>1. Etag[c][f] \in Blobs /\ f \in Files
    BY <1>4 DEF Blobs
  <2>2. snapshot'[c][f] = snapshot[c][f] /\ snapshot[c][f] \in {None, Symlink}
    BY <1>5, <2>1 DEF Commitwise
  <2>3. snapshot[c][f] = Symlink /\ blob[Etag[c][f]] = Size
    BY <1>4, <1>5, <2>2 DEF Content
  <2> QED BY <2>1, <2>2, <2>3 DEF Content
<1>6. ASSUME NEW i \in Calls, Active(i), i # t[1] PROVE call[i].commit # call[t[1]].commit
  BY <1>1, <1>6, CommitsApart
<1>7. ASSUME NEW u \in Tasks, u # t PROVE Fetched(u)'
  <2>1. CASE task[u].pc = "none"
    BY <1>1, <1>7, <2>1 DEF Fetched
  <2>2. CASE task[u].pc # "none"
    <3>1. /\ Active(u[1]) /\ call[u[1]].commit \in Commits /\ BlobOf(u) \in Blobs
          /\ u[1] \in Calls /\ u[2] \in Files
      BY <1>1, <1>2, <2>2, BlobExists DEF Shape, Active
    <3>2. ~(call[u[1]].commit = call[t[1]].commit /\ u[2] = t[2])
      BY <1>2, <1>6, <1>7, <3>1
    <3>3. Linked(u)' = Linked(u)
      BY <1>1, <3>1, <3>2 DEF Linked
    <3>4. Fetched(u)
      BY DEF Commitwise
    <3>5. /\ Sized(u)' <=> Sized(u)
          /\ call'[u[1]].commit = call[u[1]].commit /\ task'[u] = task[u] /\ BlobOf(u)' = BlobOf(u)
      BY <1>1, <1>7, <3>1 DEF Sized
    <3> QED BY <1>1, <3>1, <3>3, <3>4, <3>5 DEF Fetched
  <2> QED BY <2>1, <2>2
<1>8. ASSUME NEW i \in Calls, Active(i) PROVE Skipped(i)'
  <2>1. /\ call'[i].commit = call[i].commit /\ call'[i].ref = call[i].ref
        /\ call[i].commit \in Commits
    BY <1>1, <1>8 DEF Shape, Active
  <2>2. ASSUME NEW f \in DOMAIN Etag[call[i].commit], task'[<<i, f>>].pc = "none", call[i].ref \in Listed
        PROVE  Content(call[i].commit, f)' = Size
    <3>1. <<i, f>> \in Tasks /\ <<i, f>> # t
      BY <1>1, <1>4, <2>1, <2>2 DEF Tasks
    <3>2. task[<<i, f>>].pc = "none"
      BY <1>1, <2>2, <3>1
    <3>3. Content(call[i].commit, f) = Size
      BY <1>8, <2>2, <3>2 DEF Commitwise, Skipped
    <3>4. ~(call[i].commit = call[t[1]].commit /\ f = t[2])
      BY <1>2, <1>6, <1>8, <3>1
    <3> QED BY <1>5, <2>1, <3>3, <3>4
  <2> QED BY <2>1, <2>2 DEF Skipped, Content
<1>9. Measured(call[t[1]].commit) => Sized(t)
  BY <1>1, SizesKnown
<1>10. ASSUME NEW c \in Commits, Measured(c) PROVE LinksWhole(c)'
  <2>1. ASSUME NEW f \in DOMAIN Etag[c], snapshot'[c][f] = Symlink PROVE blob'[Etag[c][f]] = Size
    <3>1. Etag[c][f] \in Blobs /\ f \in Files
      BY <1>4 DEF Blobs
    <3>2. CASE snapshot'[c][f] = snapshot[c][f]
      BY <1>10, <2>1, <3>1, <3>2 DEF Commitwise, LinksWhole
    <3>3. CASE snapshot'[c][f] # snapshot[c][f]
      <4>1. c = call[t[1]].commit /\ f = t[2] /\ task'[t].pc = "linked"
        BY <2>1, <3>1, <3>3
      <4>2. Sized(t)' /\ BlobOf(t)' = Etag[c][f]
        BY <1>1, <1>9, <1>10, <4>1 DEF Sized, BlobOf
      <4> QED BY <4>1, <4>2 DEF Fetched
    <3> QED BY <3>2, <3>3
  <2> QED BY <2>1 DEF LinksWhole
<1>11. ASSUME NEW c \in published, Measured(c) PROVE Complete(c)'
  <2>1. c \in Commits /\ c # call[t[1]].commit
    BY <1>1, <1>9, <1>11 DEF DiskType, Commitwise, Fetched
  <2>2. ASSUME NEW f \in DOMAIN Etag[c] PROVE Content(c, f)' = Size
    BY <1>5, <1>11, <2>1 DEF Commitwise, Complete
  <2> QED BY <2>2 DEF Complete, Content
<1>12. \A u \in Tasks : Fetched(u)'
  BY <1>7
<1>13. \A i \in Calls : Active(i)' => Skipped(i)'
  BY <1>1, <1>8 DEF Active
<1>14. \A c \in Commits : Measured(c)' <=> Measured(c)
  BY <1>1 DEF Measured
<1>15. \A c \in Commits : LinksWhole(c)'
  BY <1>10, <1>14 DEF LinksWhole
<1>16. published \subseteq Commits
  BY DEF DiskType
<1>17. \A c \in published' : Complete(c)'
  BY <1>1, <1>11, <1>14, <1>16 DEF Complete
<1> QED BY <1>3, <1>12, <1>13, <1>15, <1>17 DEF Commitwise

\* A step of a task, while references do not overlap: what it fetches is complete before it
\* is linked, and Duplicate is never reached.
LEMMA StepCommitwise ==
    ASSUME Shape, LockInv, DiskType, CallsApart, \A u \in Tasks : Transferring(u), ~Overlap, Commitwise,
           NEW t \in Tasks, Token(t) \/ Step(t)
    PROVE  Commitwise'
<1> DEFINE b == BlobOf(t)
<1>1. /\ UNCHANGED published /\ call'[t[1]].commit = call[t[1]].commit /\ BlobOf(t)' = b
      /\ task[t].pc # "none" /\ t[1] \in Calls /\ b \in Blobs
  BY StepFrame, BlobExists DEF refs
<1>2. /\ call[t[1]].commit \in Commits /\ t[2] \in Files
      /\ Sized(t) => call[t[1]].commit \notin published
      /\ Sized(t)' <=> Sized(t)
  BY <1>1, StepFrame DEF Shape, Tasks, Commitwise, Fetched, Sized
<1>3. Fetched(t) /\ ~Duplicate(t)
  BY DEF Commitwise, Fetched, Duplicate, At
<1>4. DOMAIN snapshot = Commits /\ (\A c \in Commits : DOMAIN snapshot[c] = Files) /\ task[t].ok \in BOOLEAN
  BY DEF DiskType, Transferring
<1>5. CASE Idling(t)
  <2>1. UNCHANGED <<blob, snapshot>>
    BY <1>5, IdlingTransfers DEF disk
  <2>2. \/ task'[t].pc \in {"token", "stat", "failed"}
        \/ task[t].pc = "release" /\ task'[t].pc = "leave" /\ task'[t].ok = task[t].ok
        \/ task[t].pc = "leave" /\ task[t].ok /\ task'[t].pc = "unlink"
        \/ task'[t].pc = "release" /\ task'[t].ok = FALSE
    <3>1. \/ Goto(t, "token") \/ Goto(t, "stat") \/ FailTask(t)
          \/ task[t].pc = "release" /\ Goto(t, "leave")
          \/ task[t].pc = "leave" /\ task[t].ok /\ Goto(t, "unlink")
          \/ Return(t, FALSE)
      BY <1>5 DEF Idling, Token, Enter, EnterFails, GiveUp, Release, Leave, Interrupt, At
    <3> QED BY <3>1 DEF Goto, FailTask, Return, Shape
  <2>3. Fetched(t)'
    BY <1>1, <1>2, <1>3, <2>1, <2>2 DEF Fetched
  <2> QED BY <1>4, <2>1, <2>3, OthersKeepFiles
<1>6. CASE Stat(t) \/ Get(t) \/ Write(t) \/ Store(t)
  <2>1. /\ UNCHANGED snapshot
        /\ \A c \in Blobs : blob[c] = Size => blob'[c] = Size
        /\ task'[t].pc \in {"get", "copy", "release"}
        /\ task'[t].pc = "release" /\ Sized(t) => blob'[b] = Size
    BY <1>6, WorkTransfers
  <2>2. Fetched(t)'
    BY <1>1, <1>2, <2>1 DEF Fetched
  <2> QED BY <1>4, <2>1, <2>2, OthersKeepFiles
<1>7. CASE Unlink(t) \/ Link(t)
  <2>1. UNCHANGED blob
    BY <1>7 DEF Unlink, Link
  <2>2. /\ snapshot' = [snapshot EXCEPT ![call[t[1]].commit][t[2]] = IF Unlink(t) THEN None ELSE Symlink]
        /\ task' = [task EXCEPT ![t].pc = IF Unlink(t) THEN "link" ELSE "linked"]
        /\ task[t].pc \in {"unlink", "link"}
    <3>1. CASE Unlink(t)
      BY <3>1 DEF Unlink, SetLink, Goto, At
    <3>2. CASE ~Unlink(t)
      <4>1. snapshot[call[t[1]].commit][t[2]] = None /\ task[t].pc = "link"
        BY <1>3, <1>7, <3>2 DEF Link, At, Fetched, Linked
      <4> QED BY <1>7, <3>2, <4>1 DEF Link, SetLink, Goto
    <3> QED BY <3>1, <3>2
  <2>3. task'[t].pc = IF Unlink(t) THEN "link" ELSE "linked"
    BY <2>2 DEF Shape
  <2>4. /\ DOMAIN snapshot' = Commits /\ \A c \in Commits : DOMAIN snapshot'[c] = Files
        /\ snapshot'[call[t[1]].commit][t[2]] = IF Unlink(t) THEN None ELSE Symlink
        /\ \A c \in Commits, f \in Files :
             ~(c = call[t[1]].commit /\ f = t[2]) => snapshot'[c][f] = snapshot[c][f]
    BY <1>2, <1>4, <2>2
  <2>5. Fetched(t)'
    BY <1>1, <1>2, <1>3, <2>1, <2>2, <2>3, <2>4 DEF Fetched, Linked
  <2>6. None # Symlink
    BY DownloadAssumption
  <2> QED BY <2>1, <2>3, <2>4, <2>5, <2>6, OthersKeepFiles
<1> QED BY <1>3, <1>5, <1>6, <1>7 DEF Idling, Step

\* The step of a task keeps what the calls know of the disk.
LEMMA StepDisk ==
    ASSUME Shape, LockInv, DiskInv, NEW t \in Tasks, Token(t) \/ Step(t)
    PROVE  DiskInv'
<1>1. CallsApart'
  BY ApartKeeps DEF DiskInv
<1>2. DiskType' /\ \A u \in Tasks : Transferring(u)'
  <2>1. Duplicate(t) => Overlap
    BY DEF Duplicate, At, DiskInv, Commitwise, Fetched
  <2> QED BY <2>1, IdlingTransfers, WorkTransfers, LinkTransfers DEF DiskInv, Step, Idling
<1>3. UNCHANGED commitOf
  BY StepFrame DEF refs
<1>4. ~Overlap => Commitwise'
  BY StepCommitwise DEF DiskInv
<1>5. KnownWhole'
  <2>1. ASSUME NEW b \in Blobs, SizeKnown(b)
        PROVE  blob'[b] \in {None, Size} \cup (IF Overlap THEN {0} ELSE {})
    <3>1. blob[b] \in {None, Size} \cup (IF Overlap THEN {0} ELSE {})
      BY <2>1 DEF DiskInv, KnownWhole
    <3>2. CASE Stat(t) \/ Get(t) \/ Write(t) \/ Store(t)
      <4>1. task[t].pc # "none"
        BY StepFrame
      <4>2. b # BlobOf(t) \/ Sized(t)
        BY <2>1, <4>1, SizesKnown DEF DiskInv
      <4>3. blob'[b] \in {blob[b], None, Size}
        BY <3>2, <4>2, WorkTransfers DEF DiskInv
      <4> QED BY <3>1, <4>3
    <3>3. CASE Unlink(t) \/ Link(t) \/ Duplicate(t)
      <4>1. blob'[b] = blob[b] \/ (Overlap /\ blob'[b] = 0)
        <5>1. Duplicate(t) => Overlap
          BY DEF Duplicate, At, DiskInv, Commitwise, Fetched
        <5> QED BY <3>3, <5>1, LinkTransfers DEF DiskInv
      <4> QED BY <3>1, <4>1
    <3>4. CASE Idling(t)
      <4>1. UNCHANGED blob
        BY <3>4, IdlingTransfers DEF DiskInv, disk
      <4> QED BY <3>1, <4>1
    <3> QED BY <3>2, <3>3, <3>4 DEF Step, Idling
  <2> QED BY <1>3, <2>1 DEF KnownWhole, SizeKnown, Measured, Overlap
<1> QED BY <1>1, <1>2, <1>3, <1>4, <1>5 DEF DiskInv, Overlap

-----------------------------------------------------------------------------
\* A call that is not in progress, or a step that is not its own, does not lose its files.
LEMMA CallFrame ==
    ASSUME Shape, NEW i \in Calls, (\E ref \in Refs : Start(i, ref)) \/ Cancel(i) \/ Finish(i)
    PROVE  /\ UNCHANGED <<commitOf, blob, partial, snapshot>>
           /\ \A j \in Calls : j # i => call'[j] = call[j]
           /\ \A u \in Tasks : /\ u = <<u[1], u[2]>> /\ u[1] \in Calls /\ u[2] \in Files
                               /\ u[1] # i => task'[u] = task[u] /\ BlobOf(u)' = BlobOf(u)
<1>1. UNCHANGED <<commitOf, blob, partial, snapshot>> /\ \A j \in Calls : j # i => call'[j] = call[j]
  BY DEF Start, Cancel, Finish, disk, refs, Shape
<1>2. \A u \in Tasks : u = <<u[1], u[2]>> /\ u[1] \in Calls /\ u[2] \in Files
  BY DEF Tasks
<1>3. \A u \in Tasks : u[1] # i => task'[u] = task[u]
  BY DEF Start, Cancel, Finish, Shape
<1>4. \A u \in Tasks : u[1] # i => BlobOf(u)' = BlobOf(u)
  BY <1>1, <1>2 DEF BlobOf
<1> QED BY <1>1, <1>2, <1>3, <1>4

\* A file of a commit with known sizes is complete in it or missing, unless references overlap.
LEMMA ContentValues ==
    ASSUME DiskType, ~Overlap, Commitwise, NEW c \in Commits, Measured(c), NEW f \in DOMAIN Etag[c]
    PROVE  Content(c, f) \in {None, Size} /\ f \in Files
<1>1. f \in Files
  BY DownloadAssumption
<1>2. snapshot[c][f] \in {None, Symlink} /\ (snapshot[c][f] = Symlink => blob[Etag[c][f]] = Size)
  BY <1>1 DEF Commitwise, LinksWhole
<1>3. None # Symlink
  BY DownloadAssumption
<1> QED BY <1>1, <1>2, <1>3 DEF Content

\* What the beginning and the end of calls leave alone keeps the disk in order.
LEMMA FilesKept ==
    ASSUME UNCHANGED <<commitOf, blob, partial, snapshot>>, DiskType, KnownWhole
    PROVE  /\ published' \subseteq Commits => DiskType'
           /\ KnownWhole' /\ (Overlap' <=> Overlap)
           /\ \A c : (LinksWhole(c)' <=> LinksWhole(c)) /\ (Complete(c)' <=> Complete(c))
BY DEF DiskType, KnownWhole, SizeKnown, Measured, Overlap, LinksWhole, Complete, Content

\* A call that starts takes a task for each file that is not complete.
LEMMA StartDisk ==
    ASSUME Shape, DiskInv, NEW i \in Calls, NEW ref \in Refs, Start(i, ref)
    PROVE  DiskInv'
<1> DEFINE c == commitOf[ref]
           whole == \A f \in DOMAIN Etag[c] : Content(c, f) # None
           there(exact, f) == IF exact THEN Content(c, f) = (IF ref \in Listed THEN Size ELSE 0)
                              ELSE whole \/ Present(Content(c, f))
<1>0. PICK exact \in BOOLEAN :
         /\ call' = [call EXCEPT ![i] = [pc |-> "fetch", ref |-> ref, commit |-> c, done |-> FALSE]]
         /\ task' = [t \in Tasks |->
                      IF t[1] # i THEN task[t]
                      ELSE [NoTask EXCEPT !.pc = IF t[2] \notin DOMAIN Etag[c] \/ there(exact, t[2])
                                                 THEN "none" ELSE "queued"]]
  BY DEF Start
<1>1. /\ UNCHANGED <<commitOf, blob, partial, snapshot, published>>
      /\ call[i].pc = "idle" /\ \A j \in Calls : call[j].ref # ref
  BY DEF Start, disk, refs
<1>2. /\ \A j \in Calls : j # i => call'[j] = call[j]
      /\ \A u \in Tasks : /\ u = <<u[1], u[2]>> /\ u[1] \in Calls /\ u[2] \in Files
                          /\ u[1] # i => task'[u] = task[u] /\ BlobOf(u)' = BlobOf(u)
  BY CallFrame
<1>3. call'[i].pc = "fetch" /\ call'[i].ref = ref /\ call'[i].commit = c /\ c \in Commits
  BY <1>0 DEF Shape
<1>4. ASSUME NEW u \in Tasks, u[1] = i
      PROVE  /\ task'[u].offset = 0 /\ task'[u].ok = FALSE /\ task'[u].pc \in {"none", "queued"}
             /\ task'[u].pc = "none" <=> u[2] \notin DOMAIN Etag[c] \/ there(exact, u[2])
  BY <1>0, <1>4 DEF NoTask
<1>5. Size \in Nat \ {0} /\ None # Size /\ 0 \in 0 .. Size
  BY DownloadAssumption
<1>6. DiskType' /\ KnownWhole'
  BY <1>1, FilesKept DEF DiskInv, DiskType
<1>7. CallsApart'
  BY <1>1, <1>2, <1>3 DEF DiskInv, CallsApart, Active
<1>8. ASSUME NEW u \in Tasks PROVE Transferring(u)'
  <2>1. CASE u[1] = i
    <3>1. task'[u].offset \in 0 .. Size /\ task'[u].ok \in BOOLEAN /\ task'[u].pc \notin {"get", "copy", "failed"}
      BY <1>4, <1>5, <2>1
    <3> QED BY <3>1 DEF Transferring
  <2>2. CASE u[1] # i
    BY <1>1, <1>2, <2>2 DEF DiskInv, Transferring, Length
  <2> QED BY <2>1, <2>2
<1>9. ASSUME ~Overlap PROVE Commitwise'
  <2>1. Commitwise /\ DiskType
    BY <1>9 DEF DiskInv
  <2>2. ref \in Listed => Measured(c)
    BY <1>9 DEF Measured, Overlap
  <2>3. ASSUME NEW u \in Tasks PROVE Fetched(u)'
    <3>1. CASE u[1] = i
      <4>1. ASSUME task'[u].pc = "queued", ref \in Listed PROVE c \notin published
        <5>1. u[2] \in DOMAIN Etag[c] /\ ~there(exact, u[2])
          BY <1>4, <3>1, <4>1
        <5>2. Content(c, u[2]) # Size
          BY <1>5, <4>1, <5>1 DEF Present
        <5> QED BY <2>1, <2>2, <4>1, <5>1, <5>2 DEF Commitwise, Complete
      <4>2. Sized(u)' <=> ref \in Listed
        BY <1>3, <3>1 DEF Sized
      <4>3. task'[u].pc \in {"none", "queued"} /\ call'[u[1]].commit = c
        BY <1>3, <1>4, <3>1
      <4> HIDE DEF c, there
      <4> QED BY <1>1, <4>1, <4>2, <4>3 DEF Fetched
    <3>2. CASE u[1] # i
      <4>1. task'[u] = task[u] /\ BlobOf(u)' = BlobOf(u) /\ call'[u[1]] = call[u[1]]
        BY <1>2, <3>2
      <4>2. Fetched(u)
        BY <2>1 DEF Commitwise
      <4> QED BY <1>1, <4>1, <4>2 DEF Fetched, Linked, Sized
    <3> QED BY <3>1, <3>2
  <2>4. ASSUME NEW j \in Calls, Active(j)' PROVE Skipped(j)'
    <3>1. CASE j = i
      <4>1. ASSUME ref \in Listed, NEW f \in DOMAIN Etag[c], task'[<<i, f>>].pc = "none" PROVE Content(c, f) = Size
        <5>1. \A g \in DOMAIN Etag[c] : Content(c, g) \in {None, Size} /\ g \in Files
          BY <1>3, <1>9, <2>1, <2>2, <4>1, ContentValues
        <5>2. <<i, f>> \in Tasks
          BY <5>1 DEF Tasks
        <5>3. there(exact, f)
          BY <1>4, <4>1, <5>2
        <5> QED BY <4>1, <5>1, <5>3 DEF Present
      <4> QED BY <1>1, <1>3, <3>1, <4>1 DEF Skipped, Content
    <3>2. CASE j # i
      <4>1. Active(j) /\ call'[j] = call[j]
        BY <1>2, <2>4, <3>2 DEF Active
      <4>2. \A f \in DOMAIN Etag[call[j].commit] : task'[<<j, f>>] = task[<<j, f>>]
        <5>1. \A f \in DOMAIN Etag[call[j].commit] : <<j, f>> \in Tasks
          BY <4>1, DownloadAssumption DEF Shape, Active, Tasks
        <5> QED BY <1>2, <3>2, <5>1
      <4>3. Skipped(j)
        BY <2>1, <4>1 DEF Commitwise
      <4> QED BY <1>1, <4>1, <4>2, <4>3 DEF Skipped, Content
    <3> QED BY <3>1, <3>2
  <2>5. \A d : (LinksWhole(d)' <=> LinksWhole(d)) /\ (Complete(d)' <=> Complete(d))
    BY <1>1, FilesKept DEF DiskInv
  <2> QED BY <1>1, <2>1, <2>3, <2>4, <2>5 DEF Commitwise
<1>10. UNCHANGED Overlap
  BY <1>1 DEF Overlap
<1> QED BY <1>6, <1>7, <1>8, <1>9, <1>10 DEF DiskInv

\* A call that ends without an error has the whole of its commit.
LEMMA FinishDisk ==
    ASSUME Shape, DiskInv, NEW i \in Calls, Finish(i)
    PROVE  DiskInv'
<1> DEFINE c == call[i].commit
<1>1. /\ UNCHANGED <<commitOf, blob, partial, snapshot>>
      /\ call[i].pc = "fetch" /\ Quiet(i) /\ call'[i].pc = "idle"
      /\ published' = IF call[i].done THEN published ELSE published \cup {c}
      /\ \A u \in Tasks : u[1] = i => task'[u] = NoTask
  BY DEF Finish, Shape, NoCall
<1>2. /\ \A j \in Calls : j # i => call'[j] = call[j]
      /\ \A u \in Tasks : /\ u = <<u[1], u[2]>> /\ u[1] \in Calls /\ u[2] \in Files
                          /\ u[1] # i => task'[u] = task[u] /\ BlobOf(u)' = BlobOf(u)
  BY CallFrame
<1>3. c \in Commits /\ Active(i)
  BY <1>1 DEF Shape, Active
<1>4. DiskType' /\ KnownWhole'
  <2>1. published' \subseteq Commits
    BY <1>1, <1>3 DEF DiskInv, DiskType
  <2> QED BY <1>1, <2>1, FilesKept DEF DiskInv
<1>5. CallsApart'
  BY <1>1, <1>2 DEF DiskInv, CallsApart, Active
<1>6. ASSUME NEW u \in Tasks PROVE Transferring(u)'
  <2>1. CASE u[1] = i
    <3>1. task'[u].offset \in 0 .. Size /\ task'[u].ok \in BOOLEAN /\ task'[u].pc \notin {"get", "copy", "failed"}
      <4>1. 0 \in 0 .. Size
        BY DownloadAssumption
      <4>2. task'[u].offset = 0 /\ task'[u].ok = FALSE /\ task'[u].pc = "none"
        BY <1>1, <2>1 DEF NoTask
      <4> QED BY <4>1, <4>2
    <3> QED BY <3>1 DEF Transferring
  <2>2. CASE u[1] # i
    BY <1>1, <1>2, <2>2 DEF DiskInv, Transferring, Length
  <2> QED BY <2>1, <2>2
<1>7. ASSUME ~Overlap PROVE Commitwise'
  <2>1. Commitwise /\ CallsApart
    BY <1>7 DEF DiskInv
  <2>2. ASSUME NEW u \in Tasks PROVE Fetched(u)'
    <3>1. CASE u[1] = i
      BY <1>1, <3>1 DEF Fetched, NoTask
    <3>2. CASE u[1] # i
      <4>1. task[u].pc # "none" => call[u[1]].commit # c
        BY <1>2, <1>3, <1>7, <2>1, <3>2, CommitsApart DEF Shape, Active
      <4>2. Fetched(u) /\ call'[u[1]] = call[u[1]] /\ task'[u] = task[u] /\ BlobOf(u)' = BlobOf(u)
        BY <1>2, <2>1, <3>2 DEF Commitwise
      <4> QED BY <1>1, <4>1, <4>2 DEF Fetched, Linked, Sized
    <3> QED BY <3>1, <3>2
  <2>3. ASSUME NEW j \in Calls, Active(j)' PROVE Skipped(j)'
    <3>1. j # i /\ Active(j) /\ call'[j] = call[j]
      BY <1>1, <1>2, <2>3 DEF Active
    <3>2. \A f \in DOMAIN Etag[call[j].commit] : task'[<<j, f>>] = task[<<j, f>>]
      <4>1. \A f \in DOMAIN Etag[call[j].commit] : <<j, f>> \in Tasks
        BY <3>1, DownloadAssumption DEF Shape, Active, Tasks
      <4> QED BY <1>2, <3>1, <4>1
    <3>3. Skipped(j)
      BY <2>1, <3>1 DEF Commitwise
    <3> QED BY <1>1, <3>1, <3>2, <3>3 DEF Skipped, Content
  <2>4. ASSUME ~call[i].done, Measured(c) PROVE Complete(c)
    <3>0. call[i].ref \in Listed
      BY <1>3, <2>1, <2>4 DEF CallsApart, Measured
    <3>1. ASSUME NEW f \in DOMAIN Etag[c] PROVE Content(c, f) = Size
      <4>1. f \in Files /\ <<i, f>> \in Tasks
        BY <1>3, DownloadAssumption DEF Tasks
      <4>2. task[<<i, f>>].pc \in {"none", "linked"}
        <5>1. task[<<i, f>>].pc = "failed" => call[i].done
          BY <4>1 DEF DiskInv, Transferring
        <5> QED BY <1>1, <2>4, <4>1, <5>1 DEF Quiet
      <4>3. CASE task[<<i, f>>].pc = "none"
        BY <1>3, <2>1, <3>0, <4>3 DEF Commitwise, Skipped
      <4>4. CASE task[<<i, f>>].pc = "linked"
        <5>1. Fetched(<<i, f>>)
          BY <2>1, <4>1 DEF Commitwise
        <5>2. snapshot[c][f] = Symlink /\ blob[Etag[c][f]] = Size
          BY <3>0, <4>4, <5>1 DEF Fetched, Linked, BlobOf, Sized
        <5> QED BY <5>2 DEF Content
      <4> QED BY <4>2, <4>3, <4>4
    <3> QED BY <3>1 DEF Complete
  <2>5. \A d : (LinksWhole(d)' <=> LinksWhole(d)) /\ (Complete(d)' <=> Complete(d))
    BY <1>1, FilesKept DEF DiskInv
  <2>6. \A d \in published' : Complete(d)'
    <3>1. ~call[i].done => Complete(c)
      BY <2>4 DEF Complete
    <3> QED BY <1>1, <2>1, <2>5, <3>1 DEF Commitwise
  <2> QED BY <1>1, <2>1, <2>2, <2>3, <2>5, <2>6 DEF Commitwise
<1> QED BY <1>1, <1>4, <1>5, <1>6, <1>7 DEF DiskInv, Overlap

\* The beginning, the cancellation and the end of a call.
LEMMA CallDisk ==
    ASSUME Shape, DiskInv, NEW i \in Calls, (\E ref \in Refs : Start(i, ref)) \/ Cancel(i) \/ Finish(i)
    PROVE  DiskInv'
<1>1. CASE Cancel(i)
  <2>1. /\ UNCHANGED <<commitOf, task, blob, partial, snapshot, published>>
        /\ call' = [call EXCEPT ![i].done = TRUE]
    BY <1>1 DEF Cancel, disk, refs
  <2>2. \A j \in Calls : /\ call'[j].pc = call[j].pc /\ call'[j].ref = call[j].ref
                         /\ call'[j].commit = call[j].commit
                         /\ call[j].done => call'[j].done
    BY <2>1 DEF Shape
  <2>3. \A u \in Tasks : u[1] \in Calls
    BY DEF Tasks
  <2>4. \A u \in Tasks : BlobOf(u)' = BlobOf(u)
    BY <2>2, <2>3 DEF BlobOf
  <2>5. DiskType' /\ KnownWhole' /\ CallsApart'
    <3>1. DiskType' /\ KnownWhole'
      BY <2>1, FilesKept DEF DiskInv, DiskType
    <3> QED BY <2>1, <2>2, <3>1 DEF DiskInv, CallsApart, Active
  <2>6. ASSUME NEW u \in Tasks PROVE Transferring(u)'
    BY <2>1, <2>2, <2>3, <2>4 DEF DiskInv, Transferring, Length
  <2>7. ASSUME Commitwise PROVE Commitwise'
    <3>1. \A u \in Tasks : Fetched(u)'
      BY <2>1, <2>2, <2>3, <2>4, <2>7 DEF Commitwise, Fetched, Linked, Sized
    <3>2. \A j \in Calls : Active(j)' => Skipped(j)'
      BY <2>1, <2>2, <2>7 DEF Commitwise, Skipped, Active, Content
    <3>3. \A d : (LinksWhole(d)' <=> LinksWhole(d)) /\ (Complete(d)' <=> Complete(d))
      BY <2>1, FilesKept DEF DiskInv
    <3> QED BY <2>1, <2>7, <3>1, <3>2, <3>3 DEF Commitwise
  <2> QED BY <2>1, <2>5, <2>6, <2>7 DEF DiskInv, Overlap
<1>2. CASE Finish(i)
  BY <1>2, FinishDisk
<1>3. CASE \E ref \in Refs : Start(i, ref)
  BY <1>3, StartDisk
<1> QED BY <1>1, <1>2, <1>3

\* Without calls the disk is what the last ones have left.
LEMMA IdleDisk ==
    ASSUME DiskInv, UNCHANGED disk,
           call' = [i \in Calls |-> NoCall], task' = [t \in Tasks |-> NoTask]
    PROVE  DiskInv'
<1>1. UNCHANGED <<blob, partial, snapshot, published, commitOf>>
  BY DEF disk, refs
<1>2. \A u \in Tasks : task'[u].offset = 0 /\ task'[u].ok = FALSE /\ task'[u].pc = "none"
  BY DEF NoTask
<1>3. \A i \in Calls : ~Active(i)'
  BY DEF Active, NoCall
<1>4. DiskType' /\ KnownWhole' /\ CallsApart'
  <2>1. DiskType' /\ KnownWhole'
    BY <1>1, FilesKept DEF DiskInv, DiskType
  <2> QED BY <1>3, <2>1 DEF CallsApart
<1>5. 0 \in 0 .. Size
  BY DownloadAssumption
<1>6. \A u \in Tasks : Transferring(u)'
  <2>1. \A u \in Tasks : /\ task'[u].offset \in 0 .. Size /\ task'[u].ok \in BOOLEAN
                         /\ task'[u].pc \notin {"get", "copy", "failed"}
    BY <1>2, <1>5
  <2> QED BY <2>1 DEF Transferring
<1>7. ASSUME Commitwise PROVE Commitwise'
  <2>1. \A u \in Tasks : Fetched(u)'
    BY <1>2 DEF Fetched
  <2>2. \A d : (LinksWhole(d)' <=> LinksWhole(d)) /\ (Complete(d)' <=> Complete(d))
    BY <1>1, FilesKept DEF DiskInv
  <2> QED BY <1>1, <1>3, <1>7, <2>1, <2>2 DEF Commitwise
<1> QED BY <1>1, <1>4, <1>6, <1>7 DEF DiskInv, Overlap

\* An empty cache.
LEMMA EmptyDisk == Init => DiskInv
<1> SUFFICES ASSUME Init PROVE DiskInv
  OBVIOUS
<1>1. Size \in Nat \ {0} /\ 0 \in 0 .. Size /\ None # Size /\ None # Symlink /\ None \notin Int
  BY DownloadAssumption
<1>2. \A u \in Tasks : task[u].offset = 0 /\ task[u].ok = FALSE /\ task[u].pc = "none"
  BY DEF Init, NoTask
<1>3. \A i \in Calls : ~Active(i)
  BY DEF Init, Active, NoCall
<1>4. DiskType /\ KnownWhole /\ CallsApart
  BY <1>3 DEF Init, DiskType, KnownWhole, CallsApart
<1>5. \A u \in Tasks : Transferring(u)
  <2>1. \A u \in Tasks : /\ task[u].offset \in 0 .. Size /\ task[u].ok \in BOOLEAN
                         /\ task[u].pc \notin {"get", "copy", "failed"}
    BY <1>1, <1>2
  <2> QED BY <2>1 DEF Transferring
<1>6. Commitwise
  <2>1. \A c \in Commits : DOMAIN Etag[c] \subseteq Files
    BY DownloadAssumption
  <2>2. \A c \in Commits, f \in Files : snapshot[c][f] = None
    BY DEF Init
  <2>3. \A c \in Commits : LinksWhole(c)
    BY <1>1, <2>1, <2>2 DEF LinksWhole
  <2>4. published = {}
    BY DEF Init
  <2> QED BY <1>2, <1>3, <2>2, <2>3, <2>4 DEF Commitwise, Fetched
<1> QED BY <1>4, <1>5, <1>6 DEF DiskInv

\* The locks of IInv make the disk's invariant inductive.
LEMMA NextDisk == IInv /\ DiskInv /\ [Next]_vars => DiskInv'
<1> SUFFICES ASSUME IInv, DiskInv, [Next]_vars PROVE DiskInv'
  OBVIOUS
<1> USE DEF IInv
<1>1. ASSUME NEW i \in Calls, (\E ref \in Refs : Start(i, ref)) \/ Cancel(i) \/ Finish(i) PROVE DiskInv'
  BY <1>1, CallDisk
<1>2. ASSUME NEW t \in Tasks, Token(t) \/ Step(t) PROVE DiskInv'
  BY <1>2, StepDisk
<1>3. CASE Crash
  BY <1>3, IdleDisk DEF Crash
<1>4. CASE UNCHANGED vars
  <2>1. UNCHANGED <<call, task, blob, partial, snapshot, published, commitOf>>
    BY <1>4 DEF vars, disk, refs
  <2>2. DiskType' /\ KnownWhole' /\ CallsApart' /\ \A u \in Tasks : Transferring(u)'
    <3>1. DiskType' /\ KnownWhole'
      BY <2>1, FilesKept DEF DiskInv, DiskType
    <3> QED BY <2>1, <3>1 DEF DiskInv, CallsApart, Active, Transferring, Length, BlobOf
  <2>3. Commitwise => Commitwise'
    <3>1. \A d : (LinksWhole(d)' <=> LinksWhole(d)) /\ (Complete(d)' <=> Complete(d))
      BY <2>1, FilesKept DEF DiskInv
    <3> QED BY <2>1, <3>1 DEF Commitwise, Fetched, Linked, Sized, BlobOf, Skipped, Active, Content
  <2> QED BY <2>1, <2>2, <2>3 DEF DiskInv, Overlap
<1> QED BY <1>1, <1>2, <1>3, <1>4 DEF Next

\* Every state of the program keeps its locks in order.
LEMMA Invariance == Spec => []IInv
BY InitHolds, NextKeeps, PTL DEF Spec

\* One writer per blob, whatever entries come and go with waiters that give up and users
\* that leave, for any number of calls and files: the entry is in the map exactly while it
\* has users, so nobody makes a second one, and the token of the one entry is exclusive.
THEOREM OneWriter == Spec => []BlobLocked
<1>1. ASSUME IInv PROVE BlobLocked
  <2>1. ASSUME NEW t \in Tasks, NEW u \in Tasks, Holding(t), Holding(u), BlobOf(t) = BlobOf(u) PROVE t = u
    <3>1. mine[t] # None /\ mine[u] # None
      BY <1>1, <2>1 DEF IInv, LockInv, LockType, Holding, Uses, UsePC
    <3>2. mine[t] = mine[u]
      BY <1>1, <2>1, <3>1 DEF IInv, LockInv, EntryFound
    <3> QED BY <1>1, <2>1, <3>2 DEF IInv, LockInv, TokenHeld
  <2>2. ASSUME NEW t \in Tasks
        PROVE  /\ entry[t].users = Cardinality(Users(t))
               /\ \A u \in Users(t) : entries[BlobOf(u)] = t
               /\ Users(t) = {} => t \notin {entries[b] : b \in Blobs}
    <3>1. t # None
      BY DownloadAssumption
    <3> QED BY <1>1, <3>1 DEF IInv, LockInv, UsersCounted, EntryFound, EntryUsed, Users
  <2> QED BY <2>1, <2>2 DEF BlobLocked, Users
<1> QED BY Invariance, <1>1, PTL

\* Every state of the program keeps locks and disk in order.
LEMMA DiskInvariance == Spec => []DiskInv
BY InitHolds, NextKeeps, EmptyDisk, NextDisk, PTL DEF Spec

\* What a ref with listed sizes names is on the disk in full, and a blob under its final name
\* has no misplaced piece and is complete where its size is known, for any number of calls,
\* references, commits and files: over transfers that resume what others have left, mirrors
\* that send everything again, references without sizes that store what ends early, failures,
\* cancelled calls and crashes. Only where two references name one commit a blob may be empty.
THEOREM PublishedWhole == Spec => []PublishedComplete
<1>1. ASSUME DiskInv PROVE PublishedComplete
  <2>1. ASSUME NEW b \in Blobs
        PROVE  /\ blob[b] \in 0 .. Size \cup {None}
               /\ SizeKnown(b) => blob[b] \in {None, Size} \cup (IF Overlap THEN {0} ELSE {})
    BY <1>1 DEF DiskInv, DiskType, KnownWhole
  <2>2. Overlap \/ \A c \in published : Measured(c) => \A f \in DOMAIN Etag[c] : Content(c, f) = Size
    BY <1>1 DEF DiskInv, Commitwise, Complete
  <2> QED BY <2>1, <2>2 DEF PublishedComplete, Overlap
<1> QED BY DiskInvariance, <1>1, PTL
=============================================================================
