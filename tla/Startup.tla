------------------------------- MODULE Startup -------------------------------
(***************************************************************************)
(* How a qurator process comes up on a data directory and a database it    *)
(* may share with others (cmd/qurator/main.go run): load or create the     *)
(* signing key, open and migrate the store, open the blob store, build the *)
(* authenticator, bootstrap the administrator, listen, and later drain,    *)
(* flush and exit.  Several processes may be anywhere in this sequence,    *)
(* each may fail or be killed at any step, and a supervisor starts it      *)
(* again (README.md:90, --restart unless-stopped).                         *)
(***************************************************************************)
EXTENDS Naturals, FiniteSets

CONSTANTS
    Procs,          \* server processes on one data directory and database
    Migrations,     \* the number of schema migrations, 4 in the source
    NoKey,          \* the key file does not exist
    MaxTroubles      \* bound: failed system calls, kills, power losses

ASSUME StartupAssumption ==
    Migrations \in Nat \ {0} /\ MaxTroubles \in Nat /\ NoKey \notin Nat

VARIABLES
    key,        \* the key file: NoKey, 0 when empty, else the secret in it
    keyMay,     \* what the disk may hold of it after a power loss
    generated,  \* secrets written so far: the next one is generated + 1
    proc,       \* proc[p]: where p is in its run
    applied,    \* applied[v]: how often migration v was committed
    admins,     \* how many administrators Bootstrap created
    email,      \* whether a bootstrap administrator is configured
    troubles,   \* how many of them so far
    keyHurt     \* what has befallen the key file: a crash, a secret withdrawn from
                \* it, a removal that failed

startVars == <<key, keyMay, generated, proc, applied, admins, email, troubles, keyHurt>>

Version == 1..Migrations

Steps == {"down", "load", "create", "write", "close", "remove", "list", "migrate",
          "count", "insert", "listen", "serving", "draining"}

Process == [pc : Steps, secret : Nat, pending : SUBSET Version]

Off == [pc |-> "down", secret |-> 0, pending |-> {}]

StartupInit ==
    /\ key = NoKey /\ keyMay = {NoKey}
    /\ generated = 0
    /\ proc = [p \in Procs |-> Off]
    /\ applied = [v \in Version |-> 0]
    /\ admins = 0
    /\ email \in BOOLEAN
    /\ troubles = 0
    /\ keyHurt = {}

Serving == {p \in Procs : proc[p].pc = "serving"}

----------------------------------------------------------------------------
Is(p, pc) == proc[p].pc = pc

Move(p, pc) == proc' = [proc EXCEPT ![p].pc = pc]

\* run returns an error: main prints it and exits.
Exit(p) == proc' = [proc EXCEPT ![p] = Off]

Trouble == troubles < MaxTroubles /\ troubles' = troubles + 1

SetKey(k) == key' = k /\ keyMay' = keyMay \cup {k}

KeepKey == UNCHANGED <<key, keyMay, generated, keyHurt>>
KeepStore == UNCHANGED <<applied, admins>>

Start(p) ==
    /\ Is(p, "down")
    /\ Move(p, "load")
    /\ KeepKey /\ KeepStore /\ UNCHANGED <<email, troubles>>

(* LoadOrCreateSigningSecret *)

LoadSecret(p) ==
    /\ Is(p, "load")
    /\ \/ key = NoKey /\ Move(p, "create")
       \/ key = 0 /\ Exit(p)
       \/ /\ key \notin {NoKey, 0}
          /\ proc' = [proc EXCEPT ![p] = [@ EXCEPT !.pc = "list", !.secret = key]]
    /\ KeepKey /\ KeepStore /\ UNCHANGED <<email, troubles>>

\* Bug: the file is opened without O_EXCL, so a second creator truncates it.
BugNoExcl(p) ==
    /\ Is(p, "create")
    /\ Move(p, "write") /\ SetKey(0)
    /\ KeepStore /\ UNCHANGED <<generated, keyHurt, email, troubles>>

\* O_CREATE|O_EXCL: a file that has appeared since sends the loser back to
\* the read.
CreateKeyFile(p) ==
    /\ Is(p, "create")
    /\ \/ key # NoKey /\ Move(p, "load") /\ UNCHANGED <<key, keyMay>>
       \/ key = NoKey /\ Move(p, "write") /\ SetKey(0)
    /\ KeepStore /\ UNCHANGED <<generated, keyHurt, email, troubles>>

WriteSecret(p) ==
    /\ Is(p, "write")
    /\ generated' = generated + 1
    /\ SetKey(generated + 1)
    /\ proc' = [proc EXCEPT ![p] = [@ EXCEPT !.pc = "close", !.secret = generated + 1]]
    /\ KeepStore /\ UNCHANGED <<keyHurt, email, troubles>>

\* Bug: a failed write leaves the file it created.
BugKeepsEmptyFile(p) ==
    /\ Is(p, "write") /\ Trouble
    /\ Exit(p)
    /\ KeepKey /\ KeepStore /\ UNCHANGED email

\* A write that fails may have left the beginning of the secret in the file.
WriteFails(p) ==
    /\ Is(p, "write") /\ Trouble
    /\ \/ UNCHANGED <<key, keyMay, generated>>
       \/ generated' = generated + 1 /\ SetKey(generated + 1)
    /\ Move(p, "remove")
    /\ KeepStore /\ UNCHANGED <<keyHurt, email>>

CloseKeyFile(p) ==
    /\ Is(p, "close")
    /\ Move(p, "list")
    /\ KeepKey /\ KeepStore /\ UNCHANGED <<email, troubles>>

CloseFails(p) ==
    /\ Is(p, "close") /\ Trouble
    /\ Move(p, "remove")
    /\ KeepKey /\ KeepStore /\ UNCHANGED email

\* The file this process created is removed.  os.Remove's error is not looked
\* at, and what made the write or the close fail may make it fail too.
RemoveKeyFile(p) ==
    /\ Is(p, "remove")
    /\ \/ /\ SetKey(NoKey)
          /\ keyHurt' = keyHurt \cup (IF key = 0 THEN {} ELSE {"withdrawn"})
       \/ /\ UNCHANGED <<key, keyMay>>
          /\ keyHurt' = keyHurt \cup {"notRemoved"}
    /\ Exit(p)
    /\ KeepStore /\ UNCHANGED <<generated, email, troubles>>

(* store.Open, Migrate: the pending versions are listed once, then each is *)
(* applied in a transaction of its own.  No lock is held across them.      *)

ListPending(p) ==
    /\ Is(p, "list")
    /\ proc' = [proc EXCEPT ![p] = [@ EXCEPT !.pc = "migrate",
                                             !.pending = {v \in Version : applied[v] = 0}]]
    /\ KeepKey /\ KeepStore /\ UNCHANGED <<email, troubles>>

FirstPending(p) == CHOOSE v \in proc[p].pending : \A w \in proc[p].pending : v <= w

\* Bug: IF NOT EXISTS everywhere, so the loser of a race commits it again.
BugIdempotentDDL(p) ==
    /\ Is(p, "migrate") /\ proc[p].pending # {}
    /\ LET v == FirstPending(p) IN
       /\ applied' = [applied EXCEPT ![v] = @ + 1]
       /\ proc' = [proc EXCEPT ![p].pending = @ \ {v}]
    /\ KeepKey /\ UNCHANGED <<admins, email, troubles>>

\* The DDL is not idempotent: a version another process has committed makes
\* the transaction fail, and the start with it.
Up(p) ==
    /\ Is(p, "migrate") /\ proc[p].pending # {}
    /\ LET v == FirstPending(p) IN
       \/ /\ applied[v] = 0
          /\ applied' = [applied EXCEPT ![v] = @ + 1]
          /\ proc' = [proc EXCEPT ![p].pending = @ \ {v}]
       \/ /\ applied[v] > 0
          /\ Exit(p)
          /\ UNCHANGED applied
    /\ KeepKey /\ UNCHANGED <<admins, email, troubles>>

\* blob.Open and auth.New keep nothing; Bootstrap runs when configured.
Migrated(p) ==
    /\ Is(p, "migrate") /\ proc[p].pending = {}
    /\ Move(p, IF email THEN "count" ELSE "listen")
    /\ KeepKey /\ KeepStore /\ UNCHANGED <<email, troubles>>

(* Bootstrap: count, then create under the unique index on the email *)

\* Bug: the user table is never counted.
BugNeverCounts(p) ==
    /\ Is(p, "count")
    /\ Move(p, "insert")
    /\ KeepKey /\ KeepStore /\ UNCHANGED <<email, troubles>>

BootstrapCount(p) ==
    /\ Is(p, "count")
    /\ Move(p, IF admins > 0 THEN "listen" ELSE "insert")
    /\ KeepKey /\ KeepStore /\ UNCHANGED <<email, troubles>>

BootstrapInsert(p) ==
    /\ Is(p, "insert")
    /\ \/ admins = 0 /\ admins' = admins + 1 /\ Move(p, "listen")
       \/ admins > 0 /\ Exit(p) /\ UNCHANGED admins
    /\ KeepKey /\ UNCHANGED <<applied, email, troubles>>

Listen(p) ==
    /\ Is(p, "listen")
    /\ Move(p, "serving")
    /\ KeepKey /\ KeepStore /\ UNCHANGED <<email, troubles>>

\* A signal: requests are drained under one budget, then the recorder is
\* closed under another, then run returns.
Signal(p) ==
    /\ Is(p, "serving")
    /\ Move(p, "draining")
    /\ KeepKey /\ KeepStore /\ UNCHANGED <<email, troubles>>

Stopped(p) ==
    /\ Is(p, "draining")
    /\ Exit(p)
    /\ KeepKey /\ KeepStore /\ UNCHANGED <<email, troubles>>

\* Any other error of the key file, open, migrate, bootstrap or listen.
StartFails(p) ==
    /\ proc[p].pc \in {"load", "create", "list", "migrate", "count", "insert", "listen"} /\ Trouble
    /\ Exit(p)
    /\ KeepKey /\ KeepStore /\ UNCHANGED email

\* A process between creating the key file and filling or removing it.
Unfinished(p) == Is(p, "write") \/ Is(p, "remove")

\* The process is killed: what it wrote stays, an open transaction does not.
Kill(p) ==
    /\ ~Is(p, "down") /\ Trouble
    /\ Exit(p)
    /\ keyHurt' = IF Unfinished(p) THEN keyHurt \cup {"crashed"} ELSE keyHurt
    /\ KeepStore /\ UNCHANGED <<key, keyMay, generated, email>>

\* The key file is not fsynced: it may be absent, empty, or hold what was
\* written to it.
PowerOff ==
    /\ Trouble
    /\ proc' = [p \in Procs |-> Off]
    /\ key' \in keyMay /\ keyMay' = {key'}
    /\ keyHurt' = keyHurt \cup {"crashed"}
    /\ KeepStore /\ UNCHANGED <<generated, email>>

KeyWrittenBack ==
    /\ keyMay' = {key}
    /\ UNCHANGED <<key, generated, proc, applied, admins, email, troubles, keyHurt>>

\* "delete it to generate a new one": the operator follows the error message
\* while no process is about to fill or to remove the file.
DeleteEmptyKey ==
    /\ key = 0 /\ \A p \in Procs : ~Unfinished(p)
    /\ SetKey(NoKey)
    /\ UNCHANGED <<generated, proc, applied, admins, email, troubles, keyHurt>>

\* What the process does by itself.
Advance(p) ==
    \/ LoadSecret(p) \/ CreateKeyFile(p) \/ WriteSecret(p) \/ CloseKeyFile(p)
    \/ RemoveKeyFile(p)
    \/ ListPending(p) \/ Up(p) \/ Migrated(p)
    \/ BootstrapCount(p) \/ BootstrapInsert(p) \/ Listen(p)

=============================================================================
