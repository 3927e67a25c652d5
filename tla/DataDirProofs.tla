---------------------------- MODULE DataDirProofs ----------------------------
(***************************************************************************)
(* Proofs about DataDir for every number of processes, migrations, driver  *)
(* calls and failures: the signing key, the preparation of the database    *)
(* and the files of the blob driver.                                       *)
(***************************************************************************)
EXTENDS DataDir, TLAPS

-----------------------------------------------------------------------------
(* The inductive invariants.                                               *)

\* Where a process has a signing secret.
Keeping == {"close", "list", "migrate", "count", "insert", "listen", "serving", "draining"}

\* Where the key file is the one this process created.
Creating == {"write", "close", "remove"}

\* A process between its creation of the key file and its use of it.
CreatorOK(x) ==
    /\ x.pc = "write" => key = 0
    /\ x.pc = "close" => x.secret = key
    /\ x.pc = "remove" => key # NoKey
    /\ x.pc \in Keeping => x.secret # 0

SecretOK(x) == x.pc \in Keeping => x.secret = key

KeyInv ==
    /\ key \in Nat \cup {NoKey} /\ keyMay \subseteq Nat \cup {NoKey} /\ generated \in Nat
    /\ proc \in [Procs -> Process]
    /\ \A p \in Procs : CreatorOK(proc[p])
    /\ \A p, q \in Procs : proc[p].pc \in Creating /\ proc[q].pc \in Creating => p = q
    /\ "withdrawn" \notin keyHurt => \A p \in Procs : SecretOK(proc[p])
    /\ EmptyKeyHasCause

\* What a process knows of the database at each step.
PreparedOK(x) ==
    /\ x.pc = "migrate" => \A v \in Version \ x.pending : applied[v] = 1
    /\ x.pc \in {"count", "insert", "listen", "serving", "draining"} => \A v \in Version : applied[v] = 1
    /\ x.pc \in {"listen", "serving"} /\ email => admins = 1

StoreInv ==
    /\ applied \in [Version -> 0..1] /\ admins \in 0..1 /\ email \in BOOLEAN
    /\ proc \in [Procs -> Process]
    /\ \A p \in Procs : PreparedOK(proc[p])

CallSteps == Holding \cup {"idle", "stage", "remove", "open"}

\* What the holder of the key's lock has done to the two names.
HolderOK(x) ==
    /\ x.pc \in {"renamed", "synced", "meta"} => obj = x.data
    /\ x.pc = "meta" => side = x.data
    /\ x.pc \in {"removed", "unlinked"} => obj = NoFile
    /\ x.pc = "unlinked" => side = NoFile
    /\ x.pc \in {"synced", "meta"} => objMay = {obj}
    /\ x.pc \in Holding => acked = "open"

BlobInv ==
    /\ {obj, side} \cup objMay \cup sideMay \subseteq File /\ mishaps \in Nat
    /\ call \in [Callers -> [pc : CallSteps, data : File]]
    /\ \A x, y \in Callers : call[x].pc \in Holding /\ call[y].pc \in Holding => x = y
    /\ \A x \in Callers : HolderOK(call[x])
    /\ PairAgrees
    /\ AckedSurvives
    /\ acked # "open" => objMay = {acked} /\ (acked # NoFile => sideMay = {acked})

-----------------------------------------------------------------------------
(* The signing key.                                                        *)

\* A step of one process that leaves the key file alone.
LEMMA OneProcess ==
    ASSUME KeyInv, NEW p \in Procs, NEW y \in Process, proc' = [proc EXCEPT ![p] = y],
           UNCHANGED <<key, keyMay, generated>>,
           keyHurt \subseteq keyHurt', "withdrawn" \in keyHurt' => "withdrawn" \in keyHurt,
           proc[p].pc \in {"write", "remove"} /\ y.pc # "remove" =>
             keyHurt' \cap {"crashed", "notRemoved"} # {},
           y.pc \in Creating => y.pc = "remove" /\ proc[p].pc \in Creating /\ key # NoKey,
           y.pc \in Keeping => y.secret # 0 /\ ("withdrawn" \notin keyHurt => y.secret = key)
    PROVE  KeyInv'
<1>1. /\ proc \in [Procs -> Process] /\ proc' \in [Procs -> Process] /\ proc'[p] = y
      /\ \A q \in Procs : q # p => proc'[q] = proc[q]
  BY DEF KeyInv
<1>2. ASSUME NEW q \in Procs PROVE CreatorOK(proc[q])'
  <2>1. CASE q = p
    BY <1>1, <2>1 DEF CreatorOK, Creating
  <2>2. CASE q # p
    BY <1>1, <2>2 DEF KeyInv, CreatorOK
  <2> QED BY <2>1, <2>2
<1>3. \A q, r \in Procs : proc'[q].pc \in Creating /\ proc'[r].pc \in Creating => q = r
  BY <1>1 DEF KeyInv
<1>4. ASSUME "withdrawn" \notin keyHurt', NEW q \in Procs PROVE SecretOK(proc[q])'
  <2>1. CASE q = p
    BY <1>1, <1>4, <2>1 DEF SecretOK
  <2>2. CASE q # p
    BY <1>1, <1>4, <2>2 DEF KeyInv, SecretOK
  <2> QED BY <2>1, <2>2
<1>5. EmptyKeyHasCause'
  BY <1>1 DEF KeyInv, EmptyKeyHasCause, Unfinished, Is
<1> QED BY <1>1, <1>2, <1>3, <1>4, <1>5 DEF KeyInv

\* The steps of a process that only read the key file.
LEMMA KeyUntouched ==
    ASSUME KeyInv, NEW p \in Procs,
           \/ Start(p) \/ LoadSecret(p) \/ CloseKeyFile(p) \/ ListPending(p) \/ Up(p)
           \/ Migrated(p) \/ BootstrapCount(p) \/ BootstrapInsert(p) \/ Listen(p)
           \/ Signal(p) \/ Stopped(p) \/ StartFails(p)
    PROVE  KeyInv'
<1>0. proc \in [Procs -> Process] /\ proc[p] \in Process /\ CreatorOK(proc[p])
      /\ ("withdrawn" \notin keyHurt => SecretOK(proc[p])) /\ key \in Nat \cup {NoKey}
  BY DEF KeyInv
<1>1. proc[p].pc \notin {"write", "remove"} /\ UNCHANGED <<key, keyMay, generated, keyHurt>>
  BY DEF Start, LoadSecret, CloseKeyFile, ListPending, Up, Migrated, BootstrapCount,
         BootstrapInsert, Listen, Signal, Stopped, StartFails, KeepKey, Is
<1>2. ASSUME NEW pc \in {"load", "create"}, Move(p, pc) PROVE KeyInv'
  <2> DEFINE y == [proc[p] EXCEPT !.pc = pc]
  <2>1. y \in Process /\ y.pc = pc
    BY <1>0 DEF Process, Steps
  <2>2. proc' = [proc EXCEPT ![p] = y]
    BY <1>2 DEF Move
  <2> QED BY <1>1, <2>1, <2>2, OneProcess DEF Keeping, Creating
<1>3. ASSUME NEW pc \in Keeping \ {"close"}, Move(p, pc), proc[p].pc \in Keeping PROVE KeyInv'
  <2> DEFINE y == [proc[p] EXCEPT !.pc = pc]
  <2>1. y \in Process /\ y.pc = pc /\ y.secret = proc[p].secret
    BY <1>0 DEF Process, Steps, Keeping
  <2>2. proc' = [proc EXCEPT ![p] = y]
    BY <1>3 DEF Move
  <2>3. y.pc \notin Creating
    BY <1>3, <2>1 DEF Keeping, Creating
  <2>4. y.secret # 0 /\ ("withdrawn" \notin keyHurt => y.secret = key)
    BY <1>0, <1>3, <2>1 DEF CreatorOK, SecretOK
  <2> HIDE DEF y
  <2> QED BY <1>1, <2>1, <2>2, <2>3, <2>4, OneProcess
<1>4. CASE Exit(p)
  <2>1. Off \in Process /\ Off.pc = "down"
    BY DEF Off, Process, Steps
  <2> QED BY <1>1, <1>4, <2>1, OneProcess DEF Exit, Keeping, Creating
<1>5. CASE key \notin {NoKey, 0} /\ proc' = [proc EXCEPT ![p] = [@ EXCEPT !.pc = "list", !.secret = key]]
  <2> DEFINE y == [proc[p] EXCEPT !.pc = "list", !.secret = key]
  <2>1. y \in Process /\ y.pc = "list" /\ y.secret = key
    BY <1>0, <1>5 DEF Process, Steps
  <2>2. proc' = [proc EXCEPT ![p] = y]
    BY <1>5
  <2> HIDE DEF y
  <2> QED BY <1>1, <1>5, <2>1, <2>2, OneProcess DEF Creating
<1>6. ASSUME NEW S \in SUBSET Version, proc[p].pc \in {"list", "migrate"},
             proc' = [proc EXCEPT ![p] = [proc[p] EXCEPT !.pc = "migrate", !.pending = S]]
      PROVE  KeyInv'
  <2> DEFINE y == [proc[p] EXCEPT !.pc = "migrate", !.pending = S]
  <2>1. y \in Process /\ y.pc = "migrate" /\ y.secret = proc[p].secret
    BY <1>0 DEF Process, Steps
  <2>2. y.secret # 0 /\ ("withdrawn" \notin keyHurt => y.secret = key)
    BY <1>0, <1>6, <2>1 DEF CreatorOK, SecretOK, Keeping
  <2>3. proc' = [proc EXCEPT ![p] = y]
    BY <1>6
  <2> HIDE DEF y
  <2> QED BY <1>1, <2>1, <2>2, <2>3, OneProcess DEF Creating
<1>7. CASE Start(p) \/ LoadSecret(p)
  BY <1>2, <1>4, <1>5, <1>7 DEF Start, LoadSecret
<1>8. CASE CloseKeyFile(p) \/ Migrated(p) \/ BootstrapCount(p) \/ BootstrapInsert(p) \/ Listen(p)
           \/ Signal(p) \/ Stopped(p) \/ StartFails(p)
  <2>1. CASE CloseKeyFile(p)
    BY <1>3, <2>1 DEF CloseKeyFile, Is, Keeping
  <2>2. CASE Migrated(p)
    BY <1>3, <2>2 DEF Migrated, Is, Keeping
  <2>3. CASE BootstrapCount(p)
    BY <1>3, <2>3 DEF BootstrapCount, Is, Keeping
  <2>4. CASE BootstrapInsert(p)
    BY <1>3, <1>4, <2>4 DEF BootstrapInsert, Is, Keeping
  <2>5. CASE Listen(p)
    BY <1>3, <2>5 DEF Listen, Is, Keeping
  <2>6. CASE Signal(p)
    BY <1>3, <2>6 DEF Signal, Is, Keeping
  <2>7. CASE Stopped(p) \/ StartFails(p)
    BY <1>4, <2>7 DEF Stopped, StartFails
  <2> QED BY <1>8, <2>1, <2>2, <2>3, <2>4, <2>5, <2>6, <2>7
<1>9. CASE ListPending(p)
  BY <1>6, <1>9 DEF ListPending, Is
<1>10. CASE Up(p)
  <2>1. ASSUME NEW v, proc' = [proc EXCEPT ![p].pending = @ \ {v}] PROVE KeyInv'
    <3>1. proc[p].pending \ {v} \in SUBSET Version /\ proc[p].pc = "migrate"
      BY <1>0, <1>10 DEF Process, Up, Is
    <3>2. [proc[p] EXCEPT !.pending = @ \ {v}] =
            [proc[p] EXCEPT !.pc = "migrate", !.pending = proc[p].pending \ {v}]
      BY <1>0, <3>1 DEF Process
    <3> QED BY <1>6, <2>1, <3>1, <3>2
  <2> QED BY <1>4, <1>10, <2>1 DEF Up
<1> QED BY <1>7, <1>8, <1>9, <1>10

\* One process creates the key file; who comes second reads it.
LEMMA CreateKeyFileKeeps == ASSUME KeyInv, NEW p \in Procs, CreateKeyFile(p) PROVE KeyInv'
<1>0. proc \in [Procs -> Process] /\ proc[p] \in Process /\ NoKey \notin Nat /\ proc[p].pc = "create"
  BY StartupAssumption DEF KeyInv, CreateKeyFile, Is
<1>1. CASE key # NoKey /\ Move(p, "load") /\ UNCHANGED <<key, keyMay>>
  <2> DEFINE y == [proc[p] EXCEPT !.pc = "load"]
  <2>1. y \in Process /\ y.pc = "load"
    BY <1>0 DEF Process, Steps
  <2>2. proc' = [proc EXCEPT ![p] = y]
    BY <1>1 DEF Move
  <2> HIDE DEF y
  <2> QED BY <1>0, <1>1, <2>1, <2>2, OneProcess DEF Keeping, Creating, CreateKeyFile
<1>2. CASE key = NoKey /\ Move(p, "write") /\ SetKey(0)
  <2>1. /\ proc' \in [Procs -> Process] /\ proc'[p].pc = "write"
        /\ \A q \in Procs : q # p => proc'[q] = proc[q]
    BY <1>0, <1>2 DEF Move, Process, Steps
  <2>2. \A q \in Procs : proc[q].pc \notin Creating
    <3>1. \A q \in Procs : proc[q].secret \in Nat /\ CreatorOK(proc[q])
      BY DEF KeyInv, Process
    <3> QED BY <1>0, <1>2, <3>1 DEF CreatorOK, Creating
  <2>3. ASSUME "withdrawn" \notin keyHurt PROVE \A q \in Procs : proc[q].pc \notin Keeping
    <3>1. \A q \in Procs : proc[q].secret \in Nat /\ SecretOK(proc[q])
      BY <2>3 DEF KeyInv, Process
    <3> QED BY <1>0, <1>2, <3>1 DEF SecretOK
  <2>4. ASSUME NEW q \in Procs PROVE CreatorOK(proc[q])'
    BY <1>2, <2>1, <2>2 DEF CreatorOK, KeyInv, SetKey, Keeping, Creating
  <2>5. ASSUME "withdrawn" \notin keyHurt', NEW q \in Procs PROVE SecretOK(proc[q])'
    BY <2>1, <2>3, <2>5 DEF SecretOK, CreateKeyFile, Keeping
  <2>6. EmptyKeyHasCause'
    BY <2>1 DEF EmptyKeyHasCause, Unfinished, Is
  <2>7. \A q, r \in Procs : proc'[q].pc \in Creating /\ proc'[r].pc \in Creating => q = r
    BY <2>1, <2>2
  <2> QED BY <1>2, <2>1, <2>4, <2>5, <2>6, <2>7 DEF KeyInv, SetKey, CreateKeyFile
<1> QED BY <1>1, <1>2 DEF CreateKeyFile

\* While a process is about to fill the empty file, nobody else uses it.
LEMMA NobodyElse ==
    ASSUME KeyInv, key = 0, NEW q \in Procs
    PROVE  proc[q].pc # "close" /\ ("withdrawn" \notin keyHurt => proc[q].pc \notin Keeping)
<1>1. CreatorOK(proc[q]) /\ ("withdrawn" \notin keyHurt => SecretOK(proc[q]))
  BY DEF KeyInv
<1>2. proc[q].pc # "close"
  <2>1. "close" \in Keeping
    BY DEF Keeping
  <2> QED BY <1>1, <2>1 DEF CreatorOK
<1> QED BY <1>1, <1>2 DEF CreatorOK, SecretOK

\* The creator writes its secret into the empty file.
LEMMA WriteSecretKeeps == ASSUME KeyInv, NEW p \in Procs, WriteSecret(p) PROVE KeyInv'
<1> DEFINE y == [proc[p] EXCEPT !.pc = "close", !.secret = generated + 1]
<1>0. /\ proc \in [Procs -> Process] /\ proc[p] \in Process /\ NoKey \notin Nat
      /\ proc[p].pc = "write" /\ key = 0 /\ generated \in Nat /\ keyMay \subseteq Nat \cup {NoKey}
      /\ generated' = generated + 1 /\ key' = generated + 1
      /\ keyMay' = keyMay \cup {generated + 1} /\ keyHurt' = keyHurt
  BY StartupAssumption DEF KeyInv, WriteSecret, Is, CreatorOK, SetKey
<1>1. y \in Process /\ y.pc = "close" /\ y.secret = generated + 1
  <2>1. PICK k \in Nat : k = generated + 1
    BY <1>0
  <2>2. [proc[p] EXCEPT !.pc = "close", !.secret = k] \in Process
    BY <1>0 DEF Process, Steps
  <2> QED BY <1>0, <2>1, <2>2 DEF Process
<1>2. proc' = [proc EXCEPT ![p] = y]
  BY DEF WriteSecret
<1> HIDE DEF y
<1>3. /\ proc' \in [Procs -> Process] /\ proc'[p] = y
      /\ \A q \in Procs : q # p => proc'[q] = proc[q]
  BY <1>0, <1>1, <1>2
<1>4. \A q \in Procs : q # p => proc[q].pc \notin Creating
  BY <1>0 DEF KeyInv, Creating
<1>5. ASSUME NEW q \in Procs PROVE CreatorOK(proc[q])'
  <2>1. CASE q = p
    BY <1>0, <1>1, <1>3, <2>1 DEF CreatorOK
  <2>2. CASE q # p
    BY <1>3, <1>4, <2>2 DEF CreatorOK, KeyInv, Creating
  <2> QED BY <2>1, <2>2
<1>6. ASSUME "withdrawn" \notin keyHurt', NEW q \in Procs PROVE SecretOK(proc[q])'
  <2>1. CASE q = p
    BY <1>0, <1>1, <1>3, <2>1 DEF SecretOK
  <2>2. CASE q # p
    BY <1>0, <1>3, <1>6, <2>2, NobodyElse DEF SecretOK
  <2> QED BY <2>1, <2>2
<1>7. EmptyKeyHasCause'
  BY <1>0 DEF EmptyKeyHasCause
<1> QED BY <1>0, <1>1, <1>3, <1>4, <1>5, <1>6, <1>7 DEF KeyInv

\* A write that fails leaves the file empty or with a secret nobody has read.
LEMMA WriteFailsKeeps == ASSUME KeyInv, NEW p \in Procs, WriteFails(p) PROVE KeyInv'
<1> DEFINE y == [proc[p] EXCEPT !.pc = "remove"]
<1>0. /\ proc \in [Procs -> Process] /\ proc[p] \in Process /\ NoKey \notin Nat
      /\ proc[p].pc = "write" /\ key = 0 /\ generated \in Nat /\ keyMay \subseteq Nat \cup {NoKey}
      /\ keyHurt' = keyHurt
  BY StartupAssumption DEF KeyInv, WriteFails, Is, CreatorOK
<1>9. generated' \in Nat /\ key' \in Nat /\ keyMay' \subseteq Nat \cup {NoKey}
  <2>1. CASE UNCHANGED <<key, keyMay, generated>>
    BY <1>0, <2>1
  <2>2. CASE generated' = generated + 1 /\ SetKey(generated + 1)
    BY <1>0, <2>2 DEF SetKey
  <2> QED BY <2>1, <2>2 DEF WriteFails
<1>1. y \in Process /\ y.pc = "remove"
  BY <1>0 DEF Process, Steps
<1>2. proc' = [proc EXCEPT ![p] = y]
  BY DEF WriteFails, Move
<1> HIDE DEF y
<1>3. /\ proc' \in [Procs -> Process] /\ proc'[p] = y
      /\ \A q \in Procs : q # p => proc'[q] = proc[q]
  BY <1>0, <1>1, <1>2
<1>4. \A q \in Procs : q # p => proc[q].pc \notin Creating
  BY <1>0 DEF KeyInv, Creating
<1>5. ASSUME NEW q \in Procs PROVE CreatorOK(proc[q])'
  <2>1. CASE q = p
    BY <1>0, <1>1, <1>3, <1>9, <2>1 DEF CreatorOK, Keeping
  <2>2. CASE q # p
    BY <1>3, <1>4, <2>2 DEF CreatorOK, KeyInv, Creating
  <2> QED BY <2>1, <2>2
<1>6. ASSUME "withdrawn" \notin keyHurt', NEW q \in Procs PROVE SecretOK(proc[q])'
  <2>1. CASE q = p
    BY <1>1, <1>3, <2>1 DEF SecretOK, Keeping
  <2>2. CASE q # p
    BY <1>0, <1>3, <1>6, <2>2, NobodyElse DEF SecretOK
  <2> QED BY <2>1, <2>2
<1>7. EmptyKeyHasCause'
  BY <1>1, <1>3 DEF EmptyKeyHasCause, Unfinished, Is
<1>8. \A q, r \in Procs : proc'[q].pc \in Creating /\ proc'[r].pc \in Creating => q = r
  BY <1>3, <1>4
<1> QED BY <1>3, <1>5, <1>6, <1>7, <1>8, <1>9 DEF KeyInv

\* A close that fails leaves the secret in the file.
LEMMA CloseFailsKeeps == ASSUME KeyInv, NEW p \in Procs, CloseFails(p) PROVE KeyInv'
<1> DEFINE y == [proc[p] EXCEPT !.pc = "remove"]
<1>0. /\ proc \in [Procs -> Process] /\ proc[p] \in Process /\ NoKey \notin Nat
      /\ proc[p].pc = "close" /\ key = proc[p].secret
      /\ UNCHANGED <<key, keyMay, generated, keyHurt>>
  BY StartupAssumption DEF KeyInv, CloseFails, KeepKey, Is, CreatorOK
<1>1. y \in Process /\ y.pc = "remove" /\ key # NoKey
  BY <1>0 DEF Process, Steps
<1>2. proc' = [proc EXCEPT ![p] = y]
  BY DEF CloseFails, Move
<1> HIDE DEF y
<1> QED BY <1>0, <1>1, <1>2, OneProcess DEF Keeping, Creating

\* The creator removes its file, or fails to, which the history records.
LEMMA RemoveKeyFileKeeps == ASSUME KeyInv, NEW p \in Procs, RemoveKeyFile(p) PROVE KeyInv'
<1>0. /\ proc \in [Procs -> Process] /\ NoKey \notin Nat /\ proc[p].pc = "remove"
      /\ proc' = [proc EXCEPT ![p] = Off] /\ generated' = generated
  BY StartupAssumption DEF KeyInv, RemoveKeyFile, Is, Exit
<1>1. Off \in Process /\ Off.pc = "down"
  BY DEF Off, Process, Steps
<1>2. CASE SetKey(NoKey) /\ keyHurt' = keyHurt \cup (IF key = 0 THEN {} ELSE {"withdrawn"})
  <2>1. /\ proc' \in [Procs -> Process] /\ proc'[p].pc = "down"
        /\ \A q \in Procs : q # p => proc'[q] = proc[q]
    BY <1>0, <1>1
  <2>2. \A q \in Procs : proc'[q].pc \notin Creating
    BY <1>0, <2>1 DEF KeyInv, Creating
  <2>3. ASSUME NEW q \in Procs PROVE CreatorOK(proc[q])'
    BY <2>1, <2>2 DEF CreatorOK, KeyInv, Keeping, Creating
  <2>4. ASSUME "withdrawn" \notin keyHurt', NEW q \in Procs PROVE SecretOK(proc[q])'
    BY <1>2, <2>1, <2>4, NobodyElse DEF SecretOK, Keeping
  <2>5. EmptyKeyHasCause'
    BY <1>0, <1>2 DEF EmptyKeyHasCause, SetKey
  <2>6. key' = NoKey /\ keyMay' = keyMay \cup {NoKey}
    BY <1>2 DEF SetKey
  <2> QED BY <1>0, <2>1, <2>2, <2>3, <2>4, <2>5, <2>6 DEF KeyInv
<1>3. CASE UNCHANGED <<key, keyMay>> /\ keyHurt' = keyHurt \cup {"notRemoved"}
  BY <1>0, <1>1, <1>3, OneProcess DEF Keeping, Creating
<1> QED BY <1>2, <1>3 DEF RemoveKeyFile

\* A process that is killed leaves the file as it is, a power loss what the
\* disk held; the operator removes a file nobody is about to fill.
LEMMA KillKeeps == ASSUME KeyInv, NEW p \in Procs, Kill(p) PROVE KeyInv'
<1>1. Off \in Process /\ Off.pc = "down"
  BY DEF Off, Process, Steps
<1> QED BY <1>1, OneProcess DEF Kill, Exit, Unfinished, Is, Keeping, Creating

LEMMA PowerOffKeeps == ASSUME KeyInv, PowerOff PROVE KeyInv'
<1>1. Off \in Process /\ Off.pc = "down"
  BY DEF Off, Process, Steps
<1>2. proc' \in [Procs -> Process] /\ \A q \in Procs : proc'[q].pc = "down"
  BY <1>1 DEF PowerOff
<1>3. key' \in Nat \cup {NoKey} /\ keyMay' \subseteq Nat \cup {NoKey} /\ generated' \in Nat
  BY DEF PowerOff, KeyInv
<1> QED BY <1>2, <1>3 DEF KeyInv, PowerOff, CreatorOK, SecretOK, EmptyKeyHasCause, Keeping, Creating

LEMMA DeleteEmptyKeyKeeps == ASSUME KeyInv, DeleteEmptyKey PROVE KeyInv'
<1>0. /\ NoKey \notin Nat /\ key = 0 /\ key' = NoKey /\ keyMay' = keyMay \cup {NoKey}
      /\ UNCHANGED <<generated, proc, keyHurt>>
      /\ \A p \in Procs : proc[p].pc \notin {"write", "remove"}
  BY StartupAssumption DEF DeleteEmptyKey, SetKey, Unfinished, Is
<1>1. ASSUME NEW q \in Procs PROVE CreatorOK(proc[q])' /\ ("withdrawn" \notin keyHurt => SecretOK(proc[q])')
  BY <1>0, NobodyElse DEF KeyInv, CreatorOK, SecretOK, Keeping
<1>2. EmptyKeyHasCause'
  BY <1>0 DEF EmptyKeyHasCause
<1> QED BY <1>0, <1>1, <1>2 DEF KeyInv

\* What does not touch the file or the processes.
LEMMA KeyStays ==
    ASSUME KeyInv, UNCHANGED <<key, generated, proc, keyHurt>>, keyMay' \subseteq keyMay \cup {key}
    PROVE  KeyInv'
  BY DEF KeyInv, CreatorOK, SecretOK, EmptyKeyHasCause, Unfinished, Is

\* Every step of the data directory keeps the invariant of the key.
LEMMA KeyKept == ASSUME KeyInv, [DataDirNext]_vars PROVE KeyInv'
<1>1. ASSUME NEW p \in Procs, KeepsRunning(p) \/ Ends(p) PROVE KeyInv'
  BY <1>1, KeyUntouched, CreateKeyFileKeeps, WriteSecretKeeps, WriteFailsKeeps,
     CloseFailsKeeps, RemoveKeyFileKeeps, KillKeeps
     DEF KeepsRunning, Ends, Advance
<1>2. CASE Request \/ RequestFails \/ KernelFlush \/ UNCHANGED vars
  BY <1>2, KeyStays DEF Request, RequestFails, KernelFlush, KeyWrittenBack, startVars, vars
<1>3. CASE PowerLoss \/ DeleteEmptyKey
  BY <1>3, PowerOffKeeps, DeleteEmptyKeyKeeps DEF PowerLoss
<1> QED BY <1>1, <1>2, <1>3 DEF DataDirNext

-----------------------------------------------------------------------------
(* The preparation of the database.                                        *)

\* A step of one process that leaves the database alone.
LEMMA StoreUntouched ==
    ASSUME StoreInv, NEW p \in Procs, NEW y \in Process, proc' = [proc EXCEPT ![p] = y],
           UNCHANGED <<applied, admins, email>>, PreparedOK(y)
    PROVE  StoreInv'
<1>1. /\ proc' \in [Procs -> Process] /\ proc'[p] = y
      /\ \A q \in Procs : q # p => proc'[q] = proc[q]
  BY DEF StoreInv
<1>2. ASSUME NEW q \in Procs PROVE PreparedOK(proc[q])'
  <2>1. CASE q = p
    BY <1>1, <2>1 DEF PreparedOK
  <2>2. CASE q # p
    BY <1>1, <2>2 DEF StoreInv, PreparedOK
  <2> QED BY <2>1, <2>2
<1> QED BY <1>1, <1>2 DEF StoreInv

\* A process that exits, or that moves on knowing what it needs.
LEMMA ExitKeepsStore ==
    ASSUME StoreInv, NEW p \in Procs, Exit(p), UNCHANGED <<applied, admins, email>> PROVE StoreInv'
<1>1. Off \in Process /\ Off.pc = "down"
  BY DEF Off, Process, Steps
<1> QED BY <1>1, StoreUntouched DEF Exit, PreparedOK

LEMMA MoveKeepsStore ==
    ASSUME StoreInv, NEW p \in Procs, NEW pc \in Steps \ {"migrate"}, Move(p, pc),
           UNCHANGED <<applied, admins, email>>,
           pc \in {"count", "insert", "listen", "serving", "draining"} =>
             \A v \in Version : applied[v] = 1,
           pc \in {"listen", "serving"} /\ email => admins = 1
    PROVE  StoreInv'
<1> DEFINE y == [proc[p] EXCEPT !.pc = pc]
<1>1. y \in Process /\ y.pc = pc
  BY DEF StoreInv, Process
<1>2. proc' = [proc EXCEPT ![p] = y]
  BY DEF Move
<1> HIDE DEF y
<1>3. PreparedOK(y)
  BY <1>1 DEF PreparedOK
<1> QED BY <1>1, <1>2, <1>3, StoreUntouched

\* The steps up to the migrations.
LEMMA LoadKeepsStore ==
    ASSUME KeyInv, StoreInv, NEW p \in Procs,
           \/ Start(p) \/ LoadSecret(p) \/ CreateKeyFile(p) \/ WriteSecret(p) \/ CloseKeyFile(p)
           \/ WriteFails(p) \/ CloseFails(p) \/ RemoveKeyFile(p)
    PROVE  StoreInv'
<1>0. proc[p] \in Process
  BY DEF StoreInv
<1>1. ASSUME NEW pc \in {"load", "create", "write", "remove", "list"}, Move(p, pc),
             UNCHANGED <<applied, admins, email>> PROVE StoreInv'
  BY <1>1, MoveKeepsStore DEF Steps
<1>2. ASSUME NEW pc \in {"list", "close"}, NEW k,
             proc' = [proc EXCEPT ![p] = [@ EXCEPT !.pc = pc, !.secret = k]], k \in Nat,
             UNCHANGED <<applied, admins, email>>
      PROVE  StoreInv'
  <2> DEFINE y == [proc[p] EXCEPT !.pc = pc, !.secret = k]
  <2>1. y \in Process /\ y.pc = pc
    BY <1>0, <1>2 DEF Process, Steps
  <2>2. proc' = [proc EXCEPT ![p] = y]
    BY <1>2
  <2> HIDE DEF y
  <2>3. PreparedOK(y)
    BY <2>1 DEF PreparedOK
  <2> QED BY <1>2, <2>1, <2>2, <2>3, StoreUntouched
<1>3. CASE Start(p) \/ CreateKeyFile(p) \/ CloseKeyFile(p) \/ WriteFails(p) \/ CloseFails(p)
  BY <1>1, <1>3 DEF Start, CreateKeyFile, CloseKeyFile, WriteFails, CloseFails, KeepStore
<1>4. CASE LoadSecret(p)
  BY <1>1, <1>2, <1>4, ExitKeepsStore DEF LoadSecret, KeepStore, KeyInv
<1>5. CASE WriteSecret(p)
  <2>1. generated + 1 \in Nat
    BY DEF KeyInv
  <2> QED BY <1>2, <1>5, <2>1 DEF WriteSecret, KeepStore
<1>6. CASE RemoveKeyFile(p)
  BY <1>6, ExitKeepsStore DEF RemoveKeyFile, KeepStore
<1> QED BY <1>3, <1>4, <1>5, <1>6

\* A migration that was committed since it was listed fails: each is applied once.
LEMMA MigrateKeepsStore ==
    ASSUME StoreInv, NEW p \in Procs, ListPending(p) \/ Up(p) PROVE StoreInv'
<1>0. proc[p] \in Process /\ applied \in [Version -> 0..1] /\ proc \in [Procs -> Process]
  BY DEF StoreInv
<1>1. CASE ListPending(p)
  <2>1. PICK S \in SUBSET Version : S = {v \in Version : applied[v] = 0}
    OBVIOUS
  <2> DEFINE y == [proc[p] EXCEPT !.pc = "migrate", !.pending = S]
  <2>2. y \in Process /\ y.pc = "migrate" /\ y.pending = S
    BY <1>0, <2>1 DEF Process, Steps
  <2>3. proc' = [proc EXCEPT ![p] = y]
    BY <1>1, <2>1 DEF ListPending
  <2> HIDE DEF y
  <2>4. PreparedOK(y)
    BY <1>0, <2>1, <2>2 DEF PreparedOK
  <2> QED BY <1>1, <2>2, <2>3, <2>4, StoreUntouched DEF ListPending, KeepStore
<1>2. ASSUME NEW v, applied[v] = 0, applied' = [applied EXCEPT ![v] = @ + 1],
             proc' = [proc EXCEPT ![p].pending = @ \ {v}], Up(p)
      PROVE  StoreInv'
  <2> DEFINE y == [proc[p] EXCEPT !.pending = @ \ {v}]
  <2>1. /\ y \in Process /\ y.pc = "migrate" /\ y.pending = proc[p].pending \ {v}
        /\ proc[p].pc = "migrate"
    BY <1>0, <1>2 DEF Process, Up, Is
  <2>2. proc' = [proc EXCEPT ![p] = y]
    BY <1>2
  <2> HIDE DEF y
  <2>3. /\ proc' \in [Procs -> Process] /\ proc'[p] = y
        /\ \A q \in Procs : q # p => proc'[q] = proc[q]
    BY <1>0, <2>1, <2>2
  <2>4. /\ applied' \in [Version -> 0..1]
        /\ \A w \in Version : applied[w] = 1 => applied'[w] = 1
        /\ v \in Version => applied'[v] = 1
    <3>1. CASE v \in Version
      <4>1. PICK n \in 0..1 : n = 1
        OBVIOUS
      <4>2. applied' = [applied EXCEPT ![v] = n]
        BY <1>2, <4>1
      <4>3. applied' \in [Version -> 0..1] /\ \A w \in Version : applied'[w] = IF w = v THEN n ELSE applied[w]
        BY <1>0, <4>2
      <4> QED BY <4>1, <4>3
    <3>2. CASE v \notin Version
      BY <1>0, <1>2, <3>2
    <3> QED BY <3>1, <3>2
  <2>5. PreparedOK(proc[p])
    BY DEF StoreInv
  <2>6. PreparedOK(proc[p])'
    BY <2>1, <2>3, <2>4, <2>5 DEF PreparedOK
  <2>7. ASSUME NEW q \in Procs, q # p PROVE PreparedOK(proc[q])'
    <3>1. PreparedOK(proc[q]) /\ proc'[q] = proc[q] /\ UNCHANGED <<admins, email>>
      BY <1>2, <2>3, <2>7 DEF StoreInv, Up
    <3> QED BY <2>4, <3>1 DEF PreparedOK
  <2> QED BY <1>2, <2>3, <2>4, <2>6, <2>7 DEF StoreInv, Up
<1>3. CASE Up(p)
  BY <1>2, <1>3, ExitKeepsStore DEF Up
<1> QED BY <1>1, <1>3

\* Bootstrap: however many count no user, one of them inserts.
LEMMA ServeKeepsStore ==
    ASSUME StoreInv, NEW p \in Procs,
           \/ Migrated(p) \/ BootstrapCount(p) \/ BootstrapInsert(p) \/ Listen(p) \/ Signal(p)
    PROVE  StoreInv'
<1>0. PreparedOK(proc[p]) /\ admins \in 0..1 /\ proc \in [Procs -> Process]
  BY DEF StoreInv
<1>1. CASE Migrated(p)
  <2>1. \A v \in Version : applied[v] = 1
    BY <1>0, <1>1 DEF Migrated, PreparedOK, Is
  <2> QED BY <1>1, <2>1, MoveKeepsStore DEF Migrated, KeepStore, Steps
<1>2. CASE BootstrapCount(p)
  <2>1. \A v \in Version : applied[v] = 1
    BY <1>0, <1>2 DEF BootstrapCount, PreparedOK, Is
  <2>2. admins > 0 => admins = 1
    BY <1>0
  <2> QED BY <1>2, <2>1, <2>2, MoveKeepsStore DEF BootstrapCount, KeepStore, Steps
<1>3. CASE BootstrapInsert(p)
  <2>1. CASE admins = 0 /\ admins' = admins + 1 /\ Move(p, "listen")
    <3>1. \A v \in Version : applied[v] = 1
      BY <1>0, <1>3 DEF BootstrapInsert, PreparedOK, Is
    <3>2. /\ proc' \in [Procs -> Process] /\ proc'[p].pc = "listen"
          /\ \A q \in Procs : q # p => proc'[q] = proc[q]
      BY <1>0, <2>1 DEF Move, Process, Steps
    <3>3. admins' = 1 /\ UNCHANGED <<applied, email>>
      BY <1>3, <2>1 DEF BootstrapInsert
    <3>4. ASSUME NEW q \in Procs PROVE PreparedOK(proc[q])'
      <4>1. CASE q = p
        BY <3>1, <3>2, <3>3, <4>1 DEF PreparedOK
      <4>2. CASE q # p
        BY <3>2, <3>3, <4>2 DEF PreparedOK, StoreInv
      <4> QED BY <4>1, <4>2
    <3> QED BY <3>2, <3>3, <3>4 DEF StoreInv
  <2> QED BY <1>3, <2>1, ExitKeepsStore DEF BootstrapInsert
<1>4. CASE Listen(p) \/ Signal(p)
  <2>1. \A v \in Version : applied[v] = 1
    BY <1>0, <1>4 DEF Listen, Signal, PreparedOK, Is
  <2>2. Listen(p) /\ email => admins = 1
    BY <1>0 DEF Listen, PreparedOK, Is
  <2> QED BY <1>4, <2>1, <2>2, MoveKeepsStore DEF Listen, Signal, KeepStore, Steps
<1> QED BY <1>1, <1>2, <1>3, <1>4

\* Every step of the data directory keeps the invariant of the database.
LEMMA StoreKept == ASSUME KeyInv, StoreInv, [DataDirNext]_vars PROVE StoreInv'
<1>1. ASSUME NEW p \in Procs, KeepsRunning(p) \/ Ends(p) PROVE StoreInv'
  <2>1. CASE StartFails(p) \/ Stopped(p) \/ Kill(p)
    BY <2>1, ExitKeepsStore DEF StartFails, Stopped, Kill, KeepStore
  <2> QED BY <1>1, <2>1, LoadKeepsStore, MigrateKeepsStore, ServeKeepsStore
          DEF KeepsRunning, Ends, Advance
<1>2. CASE Request \/ RequestFails \/ KernelFlush \/ DeleteEmptyKey \/ UNCHANGED vars
  <2>1. UNCHANGED <<proc, applied, admins, email>>
    BY <1>2 DEF Request, RequestFails, KernelFlush, KeyWrittenBack, DeleteEmptyKey, startVars, vars
  <2> QED BY <2>1 DEF StoreInv, PreparedOK
<1>3. CASE PowerLoss
  <2>1. Off \in Process /\ Off.pc = "down"
    BY DEF Off, Process, Steps
  <2>2. proc' \in [Procs -> Process] /\ \A q \in Procs : proc'[q].pc = "down"
    BY <1>3, <2>1 DEF PowerLoss, PowerOff
  <2> QED BY <1>3, <2>2 DEF StoreInv, PreparedOK, PowerLoss, PowerOff, KeepStore
<1> QED BY <1>1, <1>2, <1>3 DEF DataDirNext

-----------------------------------------------------------------------------
(* The files of the blob driver.                                           *)

\* A call that begins, fails before the lock or has only read.
LEMMA OutsideLock ==
    ASSUME BlobInv, NEW x \in Callers, NEW y \in [pc : CallSteps, data : File],
           call' = [call EXCEPT ![x] = y], call[x].pc \notin Holding, y.pc \notin Holding,
           UNCHANGED <<obj, side, objMay, sideMay, acked, mishaps>>
    PROVE  BlobInv'
<1>1. /\ call' \in [Callers -> [pc : CallSteps, data : File]] /\ call'[x] = y
      /\ \A z \in Callers : z # x => call'[z] = call[z]
  BY DEF BlobInv
<1>2. ASSUME NEW z \in Callers PROVE HolderOK(call[z])'
  <2>1. CASE z = x
    BY <1>1, <2>1 DEF HolderOK, Holding
  <2>2. CASE z # x
    BY <1>1, <2>2 DEF BlobInv, HolderOK
  <2> QED BY <2>1, <2>2
<1>3. LockFree' <=> LockFree
  BY <1>1 DEF LockFree
<1> QED BY <1>1, <1>2, <1>3 DEF BlobInv, PairAgrees, AckedSurvives

\* The holder of the lock goes on, x the caller and y its next record.
LEMMA UnderLock ==
    ASSUME BlobInv, NEW x \in Callers, NEW y \in [pc : CallSteps, data : File],
           call' = [call EXCEPT ![x] = y],
           LockFree \/ call[x].pc \in Holding,
           {obj, side}' \cup objMay' \cup sideMay' \subseteq File, mishaps' \in Nat,
           \A z \in {y} : HolderOK(z)',
           y.pc \notin Holding => PairAgrees',
           AckedSurvives',
           acked' # "open" => objMay' = {acked'} /\ (acked' # NoFile => sideMay' = {acked'})
    PROVE  BlobInv'
<1>1. /\ call' \in [Callers -> [pc : CallSteps, data : File]] /\ call'[x] = y
      /\ \A z \in Callers : z # x => call'[z] = call[z]
  BY DEF BlobInv
<1>2. \A z \in Callers : z # x => call[z].pc \notin Holding
  BY DEF BlobInv, LockFree
<1>3. ASSUME NEW z \in Callers PROVE HolderOK(call[z])'
  <2>1. CASE z = x
    BY <1>1, <2>1 DEF HolderOK
  <2>2. CASE z # x
    BY <1>1, <1>2, <2>2 DEF HolderOK, Holding
  <2> QED BY <2>1, <2>2
<1>4. PairAgrees'
  BY <1>1 DEF PairAgrees, LockFree
<1> QED BY <1>1, <1>2, <1>3, <1>4 DEF BlobInv

\* The calls outside the lock.
LEMMA CallsOutside ==
    ASSUME BlobInv, NEW x \in Callers,
           \/ \E c \in Contents : PutBegin(x, c)
           \/ PutStageFails(x) \/ DeleteBegin(x) \/ DeleteMissing(x) \/ GetStat(x) \/ GetOpen(x)
    PROVE  BlobInv'
<1>1. ASSUME NEW pc \in {"stage", "remove", "open"}, NEW c \in File, Enter(x, pc, c),
             UNCHANGED <<obj, side, objMay, sideMay, acked, mishaps>>
      PROVE  BlobInv'
  <2> DEFINE y == [pc |-> pc, data |-> c]
  <2>1. y \in [pc : CallSteps, data : File] /\ y.pc \notin Holding
    BY DEF CallSteps, Holding
  <2> HIDE DEF y
  <2>2. call' = [call EXCEPT ![x] = y] /\ call[x].pc \notin Holding
    BY <1>1 DEF Enter, At, Holding, y
  <2> QED BY <1>1, <2>1, <2>2, OutsideLock
<1>2. ASSUME call[x].pc \notin Holding, Return(x), UNCHANGED <<obj, side, objMay, sideMay, acked, mishaps>>
      PROVE  BlobInv'
  <2>1. NoCall \in [pc : CallSteps, data : File] /\ NoCall.pc \notin Holding
    BY DEF NoCall, CallSteps, Holding, File
  <2> QED BY <1>2, <2>1, OutsideLock DEF Return
<1>3. CASE (\E c \in Contents : PutBegin(x, c)) \/ DeleteBegin(x)
  BY <1>1, <1>3 DEF PutBegin, DeleteBegin, File
<1>4. CASE GetStat(x)
  <2>1. side \in File
    BY DEF BlobInv
  <2> QED BY <1>1, <1>4, <2>1 DEF GetStat
<1>5. CASE PutStageFails(x) \/ DeleteMissing(x) \/ GetOpen(x)
  <2>1. call[x].pc \notin Holding
    BY <1>5 DEF PutStageFails, DeleteMissing, GetOpen, At, Holding
  <2> QED BY <1>2, <1>5, <2>1 DEF PutStageFails, DeleteMissing, GetOpen
<1> QED BY <1>3, <1>4, <1>5

\* The two renames of a Put, each with its fsync.
LEMMA PutKeeps ==
    ASSUME BlobInv, NEW x \in Callers,
           PutRename(x) \/ syncDir(x) \/ writeFileDurably(x) \/ PutReturn(x)
    PROVE  BlobInv'
<1>0. /\ call \in [Callers -> [pc : CallSteps, data : File]]
      /\ call[x] \in [pc : CallSteps, data : File] /\ HolderOK(call[x])
      /\ {obj, side} \cup objMay \cup sideMay \subseteq File /\ mishaps \in Nat
  BY DEF BlobInv
<1>1. ASSUME NEW pc \in Holding, Goto(x, pc)
      PROVE  \E y \in [pc : CallSteps, data : File] :
               call' = [call EXCEPT ![x] = y] /\ y.pc = pc /\ y.data = call[x].data
  <2> DEFINE y == [call[x] EXCEPT !.pc = pc]
  <2>1. y \in [pc : CallSteps, data : File] /\ y.pc = pc /\ y.data = call[x].data
    BY <1>0 DEF CallSteps
  <2>2. call' = [call EXCEPT ![x] = y]
    BY <1>1 DEF Goto
  <2> HIDE DEF y
  <2> QED BY <2>1, <2>2
<1>2. CASE PutRename(x)
  <2>1. PICK y \in [pc : CallSteps, data : File] :
          call' = [call EXCEPT ![x] = y] /\ y.pc = "renamed" /\ y.data = call[x].data
    BY <1>1, <1>2 DEF PutRename, Holding
  <2>2. \A z \in {y} : HolderOK(z)'
    BY <1>2, <2>1 DEF PutRename, HolderOK, Holding
  <2>3. {obj, side}' \cup objMay' \cup sideMay' \subseteq File
    BY <1>0, <1>2 DEF PutRename
  <2>4. acked' = "open" /\ mishaps' = mishaps /\ LockFree
    BY <1>2 DEF PutRename
  <2> QED BY <1>0, <2>1, <2>2, <2>3, <2>4, UnderLock DEF AckedSurvives, Holding
<1>3. CASE syncDir(x)
  <2>1. PICK y \in [pc : CallSteps, data : File] :
          call' = [call EXCEPT ![x] = y] /\ y.pc = "synced" /\ y.data = call[x].data
    BY <1>1, <1>3 DEF syncDir, Holding
  <2>2. acked = "open" /\ obj = call[x].data /\ call[x].pc \in Holding
    BY <1>0, <1>3 DEF syncDir, HolderOK, At, Holding
  <2>3. \A z \in {y} : HolderOK(z)'
    BY <1>3, <2>1, <2>2 DEF syncDir, HolderOK, Holding
  <2>4. {obj, side}' \cup objMay' \cup sideMay' \subseteq File
    BY <1>0, <1>3 DEF syncDir
  <2>5. acked' = "open" /\ mishaps' = mishaps
    BY <1>3, <2>2 DEF syncDir
  <2> QED BY <1>0, <2>1, <2>2, <2>3, <2>4, <2>5, UnderLock DEF AckedSurvives, Holding
<1>4. CASE writeFileDurably(x)
  <2>1. PICK y \in [pc : CallSteps, data : File] :
          call' = [call EXCEPT ![x] = y] /\ y.pc = "meta" /\ y.data = call[x].data
    BY <1>1, <1>4 DEF writeFileDurably, Holding
  <2>2. acked = "open" /\ obj = call[x].data /\ objMay = {obj} /\ call[x].pc \in Holding
    BY <1>0, <1>4 DEF writeFileDurably, HolderOK, At, Holding
  <2>3. \A z \in {y} : HolderOK(z)'
    BY <1>4, <2>1, <2>2 DEF writeFileDurably, HolderOK, Holding
  <2>4. {obj, side}' \cup objMay' \cup sideMay' \subseteq File
    BY <1>0, <1>4 DEF writeFileDurably
  <2>5. acked' = "open" /\ mishaps' = mishaps
    BY <1>4, <2>2 DEF writeFileDurably
  <2> QED BY <1>0, <2>1, <2>2, <2>3, <2>4, <2>5, UnderLock DEF AckedSurvives, Holding
<1>5. CASE PutReturn(x)
  <2>1. NoCall \in [pc : CallSteps, data : File] /\ NoCall.pc = "idle"
    BY DEF NoCall, CallSteps, File
  <2>2. obj = call[x].data /\ side = call[x].data /\ objMay = {obj} /\ call[x].pc \in Holding
    BY <1>0, <1>5 DEF PutReturn, HolderOK, At, Holding
  <2>3. \A z \in {NoCall} : HolderOK(z)'
    BY <2>1 DEF HolderOK, Holding
  <2>4. {obj, side}' \cup objMay' \cup sideMay' \subseteq File /\ mishaps' \in Nat
    BY <1>0, <1>5 DEF PutReturn
  <2>5. /\ acked' = call[x].data /\ obj' = acked' /\ side' = acked'
        /\ objMay' = {acked'} /\ sideMay' = {acked'} /\ call' = [call EXCEPT ![x] = NoCall]
    BY <1>5, <2>2 DEF PutReturn, Return
  <2>6. AckedSurvives' /\ PairAgrees'
    BY <2>5 DEF AckedSurvives, PairAgrees
  <2> QED BY <2>1, <2>2, <2>3, <2>4, <2>5, <2>6, UnderLock
<1> QED BY <1>2, <1>3, <1>4, <1>5

\* A Delete unlinks the object, then its sidecar, and syncs the first.
LEMMA DeleteKeeps ==
    ASSUME BlobInv, NEW x \in Callers, DeleteObject(x) \/ DeleteSidecar(x) \/ DeleteReturn(x)
    PROVE  BlobInv'
<1>0. /\ call \in [Callers -> [pc : CallSteps, data : File]]
      /\ call[x] \in [pc : CallSteps, data : File] /\ HolderOK(call[x])
      /\ {obj, side} \cup objMay \cup sideMay \subseteq File /\ mishaps \in Nat /\ NoFile \in File
  BY DEF BlobInv, File
<1>1. ASSUME NEW pc \in Holding, Goto(x, pc)
      PROVE  \E y \in [pc : CallSteps, data : File] :
               call' = [call EXCEPT ![x] = y] /\ y.pc = pc
  <2> DEFINE y == [call[x] EXCEPT !.pc = pc]
  <2>1. y \in [pc : CallSteps, data : File] /\ y.pc = pc
    BY <1>0 DEF CallSteps
  <2>2. call' = [call EXCEPT ![x] = y]
    BY <1>1 DEF Goto
  <2> HIDE DEF y
  <2> QED BY <2>1, <2>2
<1>2. CASE DeleteObject(x)
  <2>1. PICK y \in [pc : CallSteps, data : File] : call' = [call EXCEPT ![x] = y] /\ y.pc = "removed"
    BY <1>1, <1>2 DEF DeleteObject, Holding
  <2>2. \A z \in {y} : HolderOK(z)'
    BY <1>2, <2>1 DEF DeleteObject, HolderOK, Holding
  <2>3. {obj, side}' \cup objMay' \cup sideMay' \subseteq File
    BY <1>0, <1>2 DEF DeleteObject
  <2>4. acked' = "open" /\ mishaps' = mishaps /\ LockFree
    BY <1>2 DEF DeleteObject
  <2> QED BY <1>0, <2>1, <2>2, <2>3, <2>4, UnderLock DEF AckedSurvives, Holding
<1>3. CASE DeleteSidecar(x)
  <2>1. PICK y \in [pc : CallSteps, data : File] : call' = [call EXCEPT ![x] = y] /\ y.pc = "unlinked"
    BY <1>1, <1>3 DEF DeleteSidecar, Holding
  <2>2. acked = "open" /\ obj = NoFile /\ call[x].pc \in Holding
    BY <1>0, <1>3 DEF DeleteSidecar, HolderOK, At, Holding
  <2>3. \A z \in {y} : HolderOK(z)'
    BY <1>3, <2>1, <2>2 DEF DeleteSidecar, HolderOK, Holding
  <2>4. {obj, side}' \cup objMay' \cup sideMay' \subseteq File
    BY <1>0, <1>3 DEF DeleteSidecar
  <2>5. acked' = "open" /\ mishaps' = mishaps
    BY <1>3, <2>2 DEF DeleteSidecar
  <2> QED BY <1>0, <2>1, <2>2, <2>3, <2>4, <2>5, UnderLock DEF AckedSurvives, Holding
<1>4. CASE DeleteReturn(x)
  <2>1. NoCall \in [pc : CallSteps, data : File] /\ NoCall.pc = "idle"
    BY DEF NoCall, CallSteps, File
  <2>2. obj = NoFile /\ side = NoFile /\ call[x].pc \in Holding
    BY <1>0, <1>4 DEF DeleteReturn, HolderOK, At, Holding
  <2>3. \A z \in {NoCall} : HolderOK(z)'
    BY <2>1 DEF HolderOK, Holding
  <2>4. {obj, side}' \cup objMay' \cup sideMay' \subseteq File /\ mishaps' \in Nat
    BY <1>0, <1>4 DEF DeleteReturn
  <2>5. /\ acked' = NoFile /\ obj' = NoFile /\ side' = NoFile
        /\ objMay' = {NoFile} /\ call' = [call EXCEPT ![x] = NoCall]
    BY <1>4, <2>2 DEF DeleteReturn, Return
  <2>6. AckedSurvives' /\ PairAgrees'
    BY <2>5 DEF AckedSurvives, PairAgrees
  <2> QED BY <2>1, <2>2, <2>3, <2>4, <2>5, <2>6, UnderLock
<1> QED BY <1>2, <1>3, <1>4

\* A call that is cut off or fails under the lock counts as a mishap and leaves
\* nothing acknowledged that is not on the disk.
LEMMA FailureKeeps ==
    ASSUME BlobInv, (\E x \in Callers : StepFails(x)) \/ Killed PROVE BlobInv'
<1>0. mishaps \in Nat /\ NoCall \in [pc : CallSteps, data : File] /\ NoCall.pc = "idle"
      /\ UNCHANGED <<obj, side, objMay, sideMay, acked>>
  BY DEF BlobInv, NoCall, CallSteps, File, StepFails, Killed
<1>1. ASSUME NEW x \in Callers, StepFails(x) PROVE BlobInv'
  <2>1. call' = [call EXCEPT ![x] = NoCall] /\ call[x].pc \in Holding /\ mishaps' = mishaps + 1
    BY <1>1 DEF StepFails, Return
  <2>2. \A z \in {NoCall} : HolderOK(z)'
    BY <1>0 DEF HolderOK, Holding
  <2>3. PairAgrees' /\ mishaps' \in Nat
    BY <1>0, <2>1 DEF PairAgrees
  <2>4. AckedSurvives'
    BY <1>0 DEF BlobInv, AckedSurvives
  <2>5. {obj, side}' \cup objMay' \cup sideMay' \subseteq File
    BY <1>0 DEF BlobInv
  <2>6. acked' # "open" => objMay' = {acked'} /\ (acked' # NoFile => sideMay' = {acked'})
    BY <1>0 DEF BlobInv
  <2> QED BY <1>0, <2>1, <2>2, <2>3, <2>4, <2>5, <2>6, UnderLock
<1>2. CASE Killed
  <2>1. call' \in [Callers -> [pc : CallSteps, data : File]] /\ \A x \in Callers : call'[x].pc = "idle"
    BY <1>0, <1>2 DEF Killed, CutOff
  <2>2. \A x \in Callers : HolderOK(call[x])'
    BY <2>1 DEF HolderOK, Holding
  <2>3. PairAgrees' /\ mishaps' \in Nat
    BY <1>0, <1>2 DEF BlobInv, PairAgrees, Killed
  <2> QED BY <1>0, <2>1, <2>2, <2>3 DEF BlobInv, AckedSurvives, Holding
<1> QED BY <1>1, <1>2

\* What the disk holds: all of it after a write-back, what was synced after a
\* power loss.
LEMMA DiskKeeps == ASSUME BlobInv, WriteBack \/ (AfterPowerLoss /\ CutOff) PROVE BlobInv'
<1>1. CASE WriteBack
  <2>1. UNCHANGED <<obj, side, call, acked, mishaps>> /\ objMay' = {obj} /\ sideMay' = {side}
    BY <1>1 DEF WriteBack
  <2>2. \A x \in Callers : HolderOK(call[x])'
    BY <2>1 DEF BlobInv, HolderOK
  <2> QED BY <2>1, <2>2 DEF BlobInv, PairAgrees, LockFree, AckedSurvives
<1>2. CASE AfterPowerLoss /\ CutOff
  <2>0. mishaps \in Nat /\ NoCall \in [pc : CallSteps, data : File] /\ NoCall.pc = "idle"
    BY DEF BlobInv, NoCall, CallSteps, File
  <2>1. call' \in [Callers -> [pc : CallSteps, data : File]] /\ \A x \in Callers : call'[x].pc = "idle"
    BY <1>2, <2>0 DEF CutOff
  <2>2. \A x \in Callers : HolderOK(call[x])'
    BY <2>1 DEF HolderOK, Holding
  <2>3. PairAgrees' /\ mishaps' \in Nat
    BY <1>2, <2>0 DEF PairAgrees, AfterPowerLoss
  <2>4. obj' \in Lost(objMay) /\ side' \in Lost(sideMay) /\ objMay' = {obj'} /\ sideMay' = {side'}
    BY <1>2 DEF AfterPowerLoss
  <2>5. {obj, side}' \cup objMay' \cup sideMay' \subseteq File
    BY <2>4 DEF BlobInv, Lost, File
  <2>6. ASSUME acked' # "open"
        PROVE  obj' = acked' /\ (acked' # NoFile => side' = acked')
    <3>1. dirs # "made" /\ acked' = acked /\ acked # "open"
      BY <1>2, <2>6 DEF AfterPowerLoss
    <3>2. objMay = {acked} /\ (acked # NoFile => sideMay = {acked})
      BY <3>1 DEF BlobInv
    <3> QED BY <2>4, <3>1, <3>2 DEF Lost
  <2> QED BY <2>1, <2>2, <2>3, <2>4, <2>5, <2>6 DEF BlobInv, AckedSurvives, Holding
<1> QED BY <1>1, <1>2

\* Every step of the data directory keeps the invariant of the files.
LEMMA BlobKept == ASSUME BlobInv, [DataDirNext]_vars PROVE BlobInv'
<1>1. CASE Request
  BY <1>1, CallsOutside, PutKeeps, DeleteKeeps DEF Request, BlobStep
<1>2. CASE RequestFails \/ PowerLoss \/ KernelFlush \/ Killed
  BY <1>2, FailureKeeps, DiskKeeps DEF RequestFails, PowerLoss, KernelFlush
<1>3. CASE UNCHANGED blobVars
  <2>1. UNCHANGED <<obj, side, objMay, sideMay, call, acked, mishaps>>
    BY <1>3 DEF blobVars
  <2>2. \A x \in Callers : HolderOK(call[x])'
    BY <2>1 DEF BlobInv, HolderOK
  <2> QED BY <2>1, <2>2 DEF BlobInv, PairAgrees, LockFree, AckedSurvives
<1> QED BY <1>1, <1>2, <1>3 DEF DataDirNext, vars

-----------------------------------------------------------------------------
(* The theorems.                                                           *)

\* Nothing has happened yet: no key, no schema, no file.
LEMMA InitOK == DataDirInit => KeyInv /\ StoreInv /\ BlobInv
<1> SUFFICES ASSUME DataDirInit PROVE KeyInv /\ StoreInv /\ BlobInv
  OBVIOUS
<1>1. Off \in Process /\ Off.pc = "down"
  BY DEF Off, Process, Steps
<1>2. proc \in [Procs -> Process] /\ \A p \in Procs : proc[p].pc = "down"
  BY <1>1 DEF DataDirInit, StartupInit
<1>3. KeyInv
  BY <1>2, StartupAssumption DEF DataDirInit, StartupInit, KeyInv, CreatorOK, SecretOK,
     EmptyKeyHasCause, Keeping, Creating
<1>4. StoreInv
  BY <1>2 DEF DataDirInit, StartupInit, StoreInv, PreparedOK
<1>5. BlobInv
  <2>1. NoCall \in [pc : CallSteps, data : File] /\ NoCall.pc = "idle"
    BY DEF NoCall, CallSteps, File
  <2>2. call \in [Callers -> [pc : CallSteps, data : File]] /\ \A x \in Callers : call[x].pc = "idle"
    BY <2>1 DEF DataDirInit, BlobInit
  <2> QED BY <2>2 DEF DataDirInit, BlobInit, BlobInv, HolderOK, Holding, PairAgrees, AckedSurvives, File
<1> QED BY <1>3, <1>4, <1>5

\* All three invariants hold of every behaviour.
LEMMA DataDirInvHolds == DataDirSpec => [](KeyInv /\ StoreInv /\ BlobInv)
<1>1. KeyInv /\ StoreInv /\ BlobInv /\ [DataDirNext]_vars => (KeyInv /\ StoreInv /\ BlobInv)'
  BY KeyKept, StoreKept, BlobKept
<1> QED BY InitOK, <1>1, PTL DEF DataDirSpec

\* LoadOrCreateSigningSecret: however many processes race to create the file and
\* wherever they fail or are killed, all that serve sign with the secret that is
\* in it, unless a failed write or close made its creator remove it.
THEOREM SecretTheorem == DataDirSpec => []OneSecret
<1>1. KeyInv => OneSecret
  BY DEF KeyInv, OneSecret, SecretOK, Serving, Keeping
<1> QED BY <1>1, DataDirInvHolds, PTL

\* Without a crash, LoadOrCreateSigningSecret leaves an empty key file only when
\* the write and then the removal of the file both failed.
THEOREM EmptyKeyTheorem == DataDirSpec => []EmptyKeyHasCause
<1>1. KeyInv => EmptyKeyHasCause
  BY DEF KeyInv
<1> QED BY <1>1, DataDirInvHolds, PTL

\* For any number of processes and migrations, the schema is applied once and
\* one administrator is created before anything is served.
THEOREM PreparedTheorem == DataDirSpec => []PreparedOnce
<1>1. StoreInv => PreparedOnce
  BY DEF StoreInv, PreparedOnce, PreparedOK, Serving
<1> QED BY <1>1, DataDirInvHolds, PTL

\* The lock of a key keeps an object and its sidecar together for any number of
\* callers of the driver.
THEOREM PairTheorem == DataDirSpec => []PairAgrees
<1>1. BlobInv => PairAgrees
  BY DEF BlobInv
<1> QED BY <1>1, DataDirInvHolds, PTL

\* What the driver acknowledged is on the disk.
THEOREM AckedTheorem == DataDirSpec => []AckedSurvives
<1>1. BlobInv => AckedSurvives
  BY DEF BlobInv
<1> QED BY <1>1, DataDirInvHolds, PTL
=============================================================================
