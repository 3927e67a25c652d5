------------------------------- MODULE FsBlob -------------------------------
(***************************************************************************)
(* The filesystem blob driver (internal/blob/fsblob) at the granularity of *)
(* its system calls, for one key.  An object and its JSON sidecar live in  *)
(* two directories; Put commits them with two renames, each followed by a  *)
(* directory fsync, under an in-process lock of the key.  A rename or an   *)
(* unlink is visible to every later read at once but reaches the disk only *)
(* at the fsync of its directory: objMay and sideMay hold what the disk    *)
(* may show after a power loss.  Staging (temp file, hash, fsync, close)   *)
(* touches no name a reader sees; its only effect here is that it can fail *)
(* and that it creates the shard directories.                              *)
(***************************************************************************)
EXTENDS Naturals, FiniteSets

CONSTANTS
    Callers,      \* goroutines of the serving process that use the driver
    Contents,     \* what is written; the ETag in a sidecar names its content
    NoFile,       \* the name does not exist
    MaxCalls      \* bound: calls of the driver

VARIABLES
    obj, side,        \* what a read of the two names finds now
    objMay, sideMay,  \* what the disk may hold under them after a power loss
    dirs,             \* the key's shard directories: "none", "made", "durable"
    call,             \* call[x]: the driver call goroutine x is in
    calls,            \* calls begun
    acked,            \* the content the last answered writer left, or "open"
    mishaps           \* failed steps and calls cut off between their two renames

blobVars == <<obj, side, objMay, sideMay, dirs, call, calls, acked, mishaps>>

File == Contents \cup {NoFile}

NoCall == [pc |-> "idle", data |-> NoFile]

BlobInit ==
    /\ obj = NoFile /\ side = NoFile
    /\ objMay = {NoFile} /\ sideMay = {NoFile}
    /\ dirs = "none"
    /\ call = [x \in Callers |-> NoCall]
    /\ calls = 0
    /\ acked = NoFile
    /\ mishaps = 0

(***************************************************************************)
(* The stripe of the key's lock: held from the first rename or unlink to   *)
(* the return of the call.  Different keys may share a stripe, which only  *)
(* makes one wait longer.                                                  *)
(***************************************************************************)
Holding == {"renamed", "synced", "meta", "removed", "unlinked"}

LockFree == \A x \in Callers : call[x].pc \notin Holding

At(x, pc) == call[x].pc = pc

Goto(x, pc) == call' = [call EXCEPT ![x].pc = pc]

Return(x) == call' = [call EXCEPT ![x] = NoCall]

Enter(x, pc, c) ==
    /\ At(x, "idle")
    /\ calls < MaxCalls
    /\ calls' = calls + 1
    /\ call' = [call EXCEPT ![x] = [pc |-> pc, data |-> c]]

----------------------------------------------------------------------------
(* Put *)

PutBegin(x, c) ==
    /\ Enter(x, "stage", c)
    /\ dirs' = IF dirs = "none" THEN "made" ELSE dirs
    /\ UNCHANGED <<obj, side, objMay, sideMay, acked, mishaps>>

\* Short body, full disk, failed fsync: the temp file is removed.
PutStageFails(x) ==
    /\ At(x, "stage")
    /\ Return(x)
    /\ UNCHANGED <<obj, side, objMay, sideMay, dirs, calls, acked, mishaps>>

\* Bug: the renames are not serialised by the key's lock.
BugNoLock(x) ==
    /\ At(x, "stage")
    /\ obj' = call[x].data
    /\ objMay' = objMay \cup {call[x].data}
    /\ acked' = "open"
    /\ Goto(x, "renamed")
    /\ UNCHANGED <<side, sideMay, dirs, calls, mishaps>>

PutRename(x) ==
    /\ At(x, "stage") /\ LockFree
    /\ obj' = call[x].data
    /\ objMay' = objMay \cup {call[x].data}
    /\ acked' = "open"
    /\ Goto(x, "renamed")
    /\ UNCHANGED <<side, sideMay, dirs, calls, mishaps>>

\* Bug: the directory is not fsynced after the rename.
BugNoDirSync(x) ==
    /\ At(x, "renamed")
    /\ Goto(x, "synced")
    /\ UNCHANGED <<obj, side, objMay, sideMay, dirs, calls, acked, mishaps>>

syncDir(x) ==
    /\ At(x, "renamed")
    /\ objMay' = {obj}
    /\ Goto(x, "synced")
    /\ UNCHANGED <<obj, side, sideMay, dirs, calls, acked, mishaps>>

writeFileDurably(x) ==
    /\ At(x, "synced")
    /\ side' = call[x].data
    /\ sideMay' = sideMay \cup {call[x].data}
    /\ Goto(x, "meta")
    /\ UNCHANGED <<obj, objMay, dirs, calls, acked, mishaps>>

PutReturn(x) ==
    /\ At(x, "meta")
    /\ sideMay' = {side}
    /\ acked' = call[x].data
    /\ Return(x)
    /\ UNCHANGED <<obj, side, objMay, dirs, calls, mishaps>>

----------------------------------------------------------------------------
(* Delete *)

DeleteBegin(x) ==
    /\ Enter(x, "remove", NoFile)
    /\ UNCHANGED <<obj, side, objMay, sideMay, dirs, acked, mishaps>>

DeleteMissing(x) ==
    /\ At(x, "remove") /\ LockFree
    /\ obj = NoFile
    /\ Return(x)
    /\ UNCHANGED <<obj, side, objMay, sideMay, dirs, calls, acked, mishaps>>

DeleteObject(x) ==
    /\ At(x, "remove") /\ LockFree
    /\ obj # NoFile
    /\ obj' = NoFile
    /\ objMay' = objMay \cup {NoFile}
    /\ acked' = "open"
    /\ Goto(x, "removed")
    /\ UNCHANGED <<side, sideMay, dirs, calls, mishaps>>

\* A sidecar that is already missing is not an error.
DeleteSidecar(x) ==
    /\ At(x, "removed")
    /\ side' = NoFile
    /\ sideMay' = sideMay \cup {NoFile}
    /\ Goto(x, "unlinked")
    /\ UNCHANGED <<obj, objMay, dirs, calls, acked, mishaps>>

\* Only the object's directory is fsynced.
DeleteReturn(x) ==
    /\ At(x, "unlinked")
    /\ objMay' = {obj}
    /\ acked' = NoFile
    /\ Return(x)
    /\ UNCHANGED <<obj, side, sideMay, dirs, calls, mishaps>>

\* Any system call of the locked part fails: the call returns the error and
\* leaves the two names as they are.
StepFails(x) ==
    /\ call[x].pc \in Holding
    /\ mishaps' = mishaps + 1
    /\ Return(x)
    /\ UNCHANGED <<obj, side, objMay, sideMay, dirs, calls, acked>>

----------------------------------------------------------------------------
(* Get: stat under the lock, open after it.  data keeps the ETag the stat  *)
(* returned until the open.                                                *)

Found == obj # NoFile /\ side # NoFile

GetStat(x) ==
    /\ LockFree
    /\ Found
    /\ Enter(x, "open", side)
    /\ UNCHANGED <<obj, side, objMay, sideMay, dirs, acked, mishaps>>

GetOpen(x) ==
    /\ At(x, "open")
    /\ Return(x)
    /\ UNCHANGED <<obj, side, objMay, sideMay, dirs, calls, acked, mishaps>>

----------------------------------------------------------------------------
(* The machine under the driver *)

\* The kernel writes everything back on its own.
WriteBack ==
    /\ dirs' = IF dirs = "none" THEN "none" ELSE "durable"
    /\ objMay' = {obj} /\ sideMay' = {side}
    /\ UNCHANGED <<obj, side, call, calls, acked, mishaps>>

\* What a power loss leaves.  A shard directory whose own entry was never
\* synced (Put syncs the directory it renames in, not that directory's
\* parents) may be lost with all it holds.
Lost(may) == IF dirs = "made" THEN may \cup {NoFile} ELSE may

AfterPowerLoss ==
    /\ obj' \in Lost(objMay) /\ side' \in Lost(sideMay)
    /\ objMay' = {obj'} /\ sideMay' = {side'}
    /\ dirs' = IF dirs = "none" THEN "none" ELSE "durable"
    /\ mishaps' = mishaps + 1
    /\ acked' = IF dirs = "made" THEN "open" ELSE acked

\* The goroutines end with their process, wherever they are.
CutOff ==
    /\ call' = [x \in Callers |-> NoCall]
    /\ UNCHANGED calls

Killed ==
    /\ CutOff
    /\ mishaps' = IF LockFree THEN mishaps ELSE mishaps + 1
    /\ UNCHANGED <<obj, side, objMay, sideMay, dirs, acked>>

BlobStep ==
    \E x \in Callers :
        \/ \E c \in Contents : PutBegin(x, c)
        \/ PutStageFails(x) \/ PutRename(x) \/ syncDir(x)
        \/ writeFileDurably(x) \/ PutReturn(x)
        \/ DeleteBegin(x) \/ DeleteMissing(x) \/ DeleteObject(x)
        \/ DeleteSidecar(x) \/ DeleteReturn(x)
        \/ GetStat(x) \/ GetOpen(x)

----------------------------------------------------------------------------
(***************************************************************************)
(* Between calls an object and its sidecar describe the same content,      *)
(* whatever the interleaving of Put, Delete and Get on the key; only a     *)
(* failed system call or a crash between the two renames can leave a pair  *)
(* that disagrees (fsblob.go:35, "keep meta and object consistent under    *)
(* concurrent Put").                                                       *)
(***************************************************************************)
PairAgrees == LockFree /\ mishaps = 0 => obj = side

(***************************************************************************)
(* What an answered Put or Delete left is what every later read finds,     *)
(* after any number of process kills and power losses, until another       *)
(* writer replaces it (fsblob.go:32, the crash-safe sequence).  The one    *)
(* exception is a shard directory made since the last write-back.          *)
(***************************************************************************)
AckedSurvives ==
    acked # "open" =>
        /\ obj = acked
        /\ acked # NoFile => side = acked
=============================================================================
