------------------------------- MODULE DataDir -------------------------------
(***************************************************************************)
(* The data directory: processes that start on it (Startup) while one of   *)
(* them, Server, serves requests that write and read an image through the  *)
(* filesystem driver (FsBlob).  A kill or the end of a drain cuts the      *)
(* driver calls of that process off where they are; a power loss does so   *)
(* to every process and leaves on disk what was synced.                    *)
(***************************************************************************)
EXTENDS Startup, FsBlob

CONSTANT Server

ASSUME DataDirAssumption == Server \in Procs

vars == <<startVars, blobVars>>

DataDirInit == StartupInit /\ BlobInit

\* Ends of a process that take its goroutines with them.
Ends(p) == Stopped(p) \/ Kill(p)

KeepsRunning(p) ==
    \/ Start(p) \/ Advance(p) \/ Signal(p)
    \/ WriteFails(p) \/ CloseFails(p) \/ StartFails(p)

Request ==
    /\ proc[Server].pc \in {"serving", "draining"}
    /\ BlobStep
    /\ UNCHANGED startVars

RequestFails ==
    /\ Trouble
    /\ \E x \in Callers : StepFails(x)
    /\ UNCHANGED <<key, keyMay, generated, proc, applied, admins, email, keyHurt>>

PowerLoss == PowerOff /\ AfterPowerLoss /\ CutOff

KernelFlush == WriteBack /\ KeyWrittenBack

DataDirNext ==
    \/ \E p \in Procs :
        \/ KeepsRunning(p) /\ UNCHANGED blobVars
        \/ Ends(p) /\ IF p = Server THEN Killed ELSE UNCHANGED blobVars
    \/ Request
    \/ RequestFails
    \/ PowerLoss
    \/ KernelFlush
    \/ DeleteEmptyKey /\ UNCHANGED blobVars

\* A process keeps going, its supervisor restarts it, and the drain and the
\* flush of a shutdown end within their budgets (main.go:339, 347).
Fairness ==
    \A p \in Procs :
        /\ WF_vars(Start(p) /\ UNCHANGED blobVars)
        /\ WF_vars(Advance(p) /\ UNCHANGED blobVars)
        /\ WF_vars(Stopped(p) /\ IF p = Server THEN Killed ELSE UNCHANGED blobVars)

DataDirSpec == DataDirInit /\ [][DataDirNext]_vars /\ Fairness

----------------------------------------------------------------------------
(***************************************************************************)
(* Every serving process signs with the secret in the key file, so that    *)
(* sessions verify at every process and after every restart, whichever     *)
(* processes raced to create the file and whatever crashed since           *)
(* (secret.go, main.go:158-161).  The one exception is a file removed,     *)
(* because writing or closing it failed, after another process had read    *)
(* the secret in it.                                                       *)
(***************************************************************************)
OneSecret ==
    "withdrawn" \notin keyHurt => \A p \in Serving : proc[p].secret = key

(***************************************************************************)
(* An empty key file that nobody is about to fill or to remove, which      *)
(* makes every later start fail (secret.go:46), is only ever left by a     *)
(* crash between its creation and the write reaching the disk, or by a     *)
(* failed write whose file could not be removed either (secret.go:81).     *)
(***************************************************************************)
EmptyKeyHasCause ==
    key = 0 /\ (\A p \in Procs : ~Unfinished(p)) => keyHurt \cap {"crashed", "notRemoved"} # {}

(***************************************************************************)
(* Processes that prepare one database at the same time, killed anywhere,  *)
(* do it once: each migration is committed once (migrations.go:37, "It is  *)
(* idempotent"), and however many of them find the user table empty, one   *)
(* administrator is created (bootstrap.go:13).  A process that serves does *)
(* so on the complete schema and with the administrator configured.        *)
(***************************************************************************)
PreparedOnce ==
    /\ \A v \in Version : applied[v] <= 1
    /\ admins <= 1
    /\ Serving # {} => /\ \A v \in Version : applied[v] = 1
                       /\ email => admins = 1

(***************************************************************************)
(* Processes whose starts defeat each other (the losers of the key file,   *)
(* of a migration and of the bootstrap exit) do not do so forever: some    *)
(* process serves again and again, unless a crash or a failed removal left *)
(* the key file empty.                                                     *)
(***************************************************************************)
SomeoneServes == <>[](key = 0) \/ []<>(Serving # {})
=============================================================================
