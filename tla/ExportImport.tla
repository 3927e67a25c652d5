---------------------------- MODULE ExportImport ----------------------------
(***************************************************************************)
(* Export and import (internal/export): Write walks the tables of a store  *)
(* that keeps serving, one query per table, and Read replays the archive   *)
(* into another, empty store through its ordinary transactions.            *)
(*                                                                         *)
(* The archive's entries are, in order, the manifest, users, tokens, codes *)
(* reservations and rollups.  Write answers 200 before it has read a row,  *)
(* so a download may end early: Read then sees the first entries only, or  *)
(* part of one.  Tokens are exported and never recreated.                  *)
(***************************************************************************)
EXTENDS CodeStore, Sequences, SequencesExt

CONSTANTS
  Operator,      \* the user Bootstrap created
  MaxScans,      \* bound: scans counted
  MaxDuring,     \* bound: transactions while the archive is written
  Cuts           \* bound: how many whole entries a broken download may leave

VARIABLES
  users,         \* the users that have a row
  rollups,       \* [CodeId -> the scans its rollups add up to]
  order,         \* code ids by created_at
  phase,         \* what the operator is doing
  during,        \* transactions since the first table was walked
  usersFile,     \* users.jsonl
  codesFile,     \* codes.jsonl: a sequence of [id, row]
  resFile,       \* alias_reservations.jsonl: [ShortCode -> reservation]
  rollupsFile,   \* scan_rollups.jsonl
  got,           \* how many entries of the archive arrived whole
  tusers, tcodes, treservations, trollups, \* the store imported into
  next,          \* the line of codes.jsonl being replayed
  released,      \* history: some alias was released
  joined,        \* history: a user's row was created while the archive was written
  moved          \* history: codes or aliases changed after codes were walked

sourceVars == <<codes, reservations, users, rollups, order, during>>
archiveVars == <<usersFile, codesFile, resFile, rollupsFile, got>>
targetVars == <<tusers, tcodes, treservations, trollups, next>>
historyVars == <<released, joined, moved>>
exportVars == <<sourceVars, archiveVars, targetVars, historyVars, phase>>

ASSUME ExportAssumption == Operator \in User /\ {MaxScans, MaxDuring} \subseteq Nat /\ Cuts \subseteq 0..5

Target == INSTANCE CodeStore WITH codes <- tcodes, reservations <- treservations

Writing == {"walkCodes", "walkReservations", "walkRollups"}
Entries == 6
\* The entry a phase of the import reads.
EntryOf == [users |-> 2, codes |-> 4, redelete |-> 4, aliases |-> 5, rollups |-> 6]
Phase == {"serving", "exported", "done", "failed"} \cup Writing \cup DOMAIN EntryOf

\* Both stores are stores, and the archive holds rows of the first.
ExportTypeOK ==
  /\ TypeOK /\ Target!TypeOK
  /\ phase \in Phase /\ during \in 0..MaxDuring /\ got \in 0..Entries
  /\ users \cup usersFile \cup tusers \subseteq User
  /\ {rollups, rollupsFile, trollups} \subseteq [CodeId -> Nat]
  /\ order \in Seq(CodeId) /\ ToSet(order) = Stored
  /\ \A i \in DOMAIN codesFile : codesFile[i] \in [id : CodeId, row : Row]
  /\ resFile \in [ShortCode -> Reservation]
  /\ next \in 1..(Len(codesFile) + 1)
  /\ {released, joined, moved} \subseteq BOOLEAN

NoRollups == [c \in CodeId |-> 0]

ExportInit ==
  /\ StoreInit /\ Target!StoreInit
  /\ users = {Operator} /\ usersFile = {} /\ tusers = {}
  /\ rollups = NoRollups /\ rollupsFile = NoRollups /\ trollups = NoRollups
  /\ order = <<>> /\ phase = "serving" /\ during = 0
  /\ codesFile = <<>>
  /\ resFile = [s \in ShortCode |-> [code |-> NoRow, released |-> FALSE]]
  /\ next = 1 /\ got = Entries
  /\ released = FALSE /\ joined = FALSE /\ moved = FALSE

-----------------------------------------------------------------------------
(* The instance serves, before and while it is exported.                   *)

Serving ==
  \/ phase = "serving" /\ UNCHANGED during
  \/ phase \in Writing /\ during < MaxDuring /\ during' = during + 1

\* A transaction on the codes; codes.user_id REFERENCES users(id).
Serve ==
  /\ Serving
  /\ StoreNext /\ storeVars' # storeVars
  /\ \A c \in Stored' : codes'[c].user \in users
  /\ order' = order \o SetToSeq(Stored' \ Stored)
  /\ released' = (released \/ \E s \in ShortCode :
                     reservations'[s].released /\ ~reservations[s].released)
  /\ moved' = (moved \/ phase \in {"walkReservations", "walkRollups"})
  /\ UNCHANGED <<users, rollups, joined, archiveVars, targetVars, phase>>

\* A first request through the forward-auth proxy creates its user.
Join ==
  /\ Serving
  /\ \E u \in User \ users : users' = users \cup {u}
  /\ joined' = (joined \/ phase # "serving")
  /\ UNCHANGED <<storeVars, rollups, order, released, moved, archiveVars, targetVars, phase>>

\* The recorder counts a scan; scan_rollups.code_id REFERENCES codes(id).
CountScan ==
  /\ Serving
  /\ \E c \in Stored : /\ \A d \in CodeId : rollups[d] < MaxScans
                       /\ rollups' = [rollups EXCEPT ![c] = @ + 1]
  /\ UNCHANGED <<storeVars, users, order, historyVars, archiveVars, targetVars, phase>>

-----------------------------------------------------------------------------
(* Write.  Each table is walked by one query: a snapshot of it.            *)

ForEachUser == users
\* ORDER BY created_at
ForEachCode == [i \in DOMAIN order |-> [id |-> order[i], row |-> codes[order[i]]]]
ForEachReservation == reservations
ForEachRollup == rollups

ExportUsers ==
  /\ phase = "serving"
  /\ usersFile' = ForEachUser
  /\ phase' = "walkCodes"
  /\ UNCHANGED <<sourceVars, codesFile, resFile, rollupsFile, got, targetVars, historyVars>>

ExportCodes ==
  /\ phase = "walkCodes"
  /\ codesFile' = ForEachCode
  /\ phase' = "walkReservations"
  /\ UNCHANGED <<sourceVars, usersFile, resFile, rollupsFile, got, targetVars, historyVars>>

ExportReservations ==
  /\ phase = "walkReservations"
  /\ resFile' = ForEachReservation
  /\ phase' = "walkRollups"
  /\ UNCHANGED <<sourceVars, usersFile, codesFile, rollupsFile, got, targetVars, historyVars>>

\* Only once every table has been walked is the archive put together.
ExportRollups ==
  /\ phase = "walkRollups"
  /\ rollupsFile' = ForEachRollup
  /\ phase' = "exported"
  /\ UNCHANGED <<sourceVars, usersFile, codesFile, resFile, got, targetVars, historyVars>>

\* The connection breaks, the disk fills up or Write fails after the 200.
Truncate ==
  /\ phase = "exported" /\ got = Entries
  /\ got' \in Cuts
  /\ UNCHANGED <<sourceVars, usersFile, codesFile, resFile, rollupsFile, targetVars,
                 historyVars, phase>>

-----------------------------------------------------------------------------
(* Read.                                                                   *)

\* The target has no users; without a manifest the import fails.
ImportStart ==
  /\ phase = "exported"
  /\ tusers = {}
  /\ phase' = IF got = 0 THEN "failed" ELSE "users"
  /\ UNCHANGED <<sourceVars, archiveVars, targetVars, historyVars>>

\* An entry that is cut off ends the import with an error, after the rows of it
\* that arrived.  An archive that ends between two entries is read to its end.
ImportTorn ==
  /\ phase \in DOMAIN EntryOf /\ got < EntryOf[phase]
  /\ phase' = "failed"
  /\ UNCHANGED <<sourceVars, archiveVars, targetVars, historyVars>>

ImportUsers ==
  /\ phase = "users"
  /\ tusers' = IF got >= EntryOf.users THEN usersFile ELSE {}
  /\ phase' = "codes"
  /\ UNCHANGED <<sourceVars, archiveVars, tcodes, treservations, trollups, next, historyVars>>

\* A deleted code is created disabled and deleted by the next call.
Recreated(r) ==
  [short |-> r.short, user |-> r.user, mode |-> r.mode, ref |-> r.ref, dest |-> r.dest,
   state |-> IF r.state = "deleted" THEN "disabled" ELSE r.state]

\* A row the store refuses, for its short code, its reference or its owner, ends
\* the import.
ImportCode ==
  /\ phase = "codes" /\ next <= Len(codesFile) /\ got >= EntryOf.codes - 1
  /\ LET line == codesFile[next]
         rows == [c \in {line.id} |-> Recreated(line.row)]
         refused == Target!InsertErrors(rows) # {} \/ line.row.user \notin tusers
     IN  \/ /\ ~refused
            /\ Target!CreateCodes(rows)
            /\ IF line.row.state = "deleted"
               THEN phase' = "redelete" /\ UNCHANGED next
               ELSE next' = next + 1 /\ UNCHANGED phase
         \/ /\ refused
            /\ phase' = "failed"
            /\ UNCHANGED <<tcodes, treservations, next>>
  /\ UNCHANGED <<sourceVars, archiveVars, tusers, trollups, historyVars>>

ImportRedelete ==
  /\ phase = "redelete"
  /\ Target!DeleteCode(codesFile[next].id, codesFile[next].row.user)
  /\ next' = next + 1
  /\ phase' = "codes"
  /\ UNCHANGED <<sourceVars, archiveVars, tusers, trollups, historyVars>>

ImportCodesDone ==
  /\ phase = "codes"
  /\ IF got >= EntryOf.codes THEN next > Len(codesFile) ELSE next = 1
  /\ phase' = "aliases"
  /\ UNCHANGED <<sourceVars, archiveVars, targetVars, historyVars>>

\* Mutant: released_at is not looked at.
BugReleaseAll ==
  {s \in ShortCode : got >= EntryOf.aliases /\ resFile[s].code \in Target!Stored}

\* The lines of alias_reservations.jsonl that Read acts on.
ToRelease ==
  {s \in ShortCode : /\ got >= EntryOf.aliases
                     /\ resFile[s].released /\ resFile[s].code \in Target!Stored}

\* Mutant: released aliases are left to the codes that gave them up.
BugSkipReleases ==
  /\ phase = "aliases"
  /\ phase' = "rollups"
  /\ UNCHANGED <<sourceVars, archiveVars, targetVars, historyVars>>

\* The releases, in short-code order; each concerns its own short code, so they
\* are taken together, and one that is refused ends the import.
ImportReleases ==
  /\ phase = "aliases"
  /\ IF \A s \in ToRelease : Target!ReleaseResult(s) = "ok"
     THEN /\ treservations' = [s \in ShortCode |->
                IF s \in ToRelease THEN [treservations[s] EXCEPT !.released = TRUE]
                ELSE treservations[s]]
          /\ phase' = "rollups"
     ELSE phase' = "failed" /\ UNCHANGED treservations
  /\ UNCHANGED <<sourceVars, archiveVars, tusers, tcodes, trollups, next, historyVars>>

\* Rollups of codes that are not in the archive are skipped.
ImportRollups ==
  /\ phase = "rollups"
  /\ trollups' = [c \in CodeId |->
       IF got >= EntryOf.rollups /\ c \in Target!Stored THEN rollupsFile[c] ELSE 0]
  /\ phase' = "done"
  /\ UNCHANGED <<sourceVars, archiveVars, tusers, tcodes, treservations, next, historyVars>>

ExportNext ==
  \/ Serve \/ Join \/ CountScan
  \/ ExportUsers \/ ExportCodes \/ ExportReservations \/ ExportRollups \/ Truncate
  \/ ImportStart \/ ImportTorn \/ ImportUsers
  \/ ImportCode \/ ImportRedelete \/ ImportCodesDone \/ ImportReleases \/ ImportRollups

ExportSpec == ExportInit /\ [][ExportNext]_exportVars

-----------------------------------------------------------------------------
(* Properties.                                                             *)

Truncated == got < Entries

\* An import of a whole archive that succeeds has every exported code, with its
\* destination, mode, owner, reference, state and scan count; only the version
\* starts over.  An alias the archive shows live or retired in both tables is
\* not free after it, whatever changed during the export.  And if nothing
\* changed after the codes were walked, each short code is as it was: a printed
\* code does not come back to life or change hands, and "a short code that was
\* free before the export is free after the import" (read.go:25).
ImportRestores ==
  /\ ExportTypeOK
  /\ phase = "done" /\ ~Truncated =>
       /\ Target!Stored = {codesFile[i].id : i \in DOMAIN codesFile}
       /\ \A i \in DOMAIN codesFile :
            LET was == codesFile[i].row
                is  == tcodes[codesFile[i].id]
            IN  /\ is.short = was.short /\ is.user = was.user /\ is.user \in tusers
                /\ is.mode = was.mode /\ is.ref = was.ref /\ is.dest = was.dest
                /\ is.state = was.state
                /\ trollups[codesFile[i].id] = rollupsFile[codesFile[i].id]
                /\ ~resFile[was.short].released => Target!Reserved(was.short)
       /\ ~moved => \A s \in ShortCode : /\ Target!PhaseOf(s) = PhaseOf(s)
                                         /\ Target!HolderOf(s) = HolderOf(s)

\* An import fails for one of three reasons only, although Read stops at the
\* first refusal and cannot be retried: an alias had been released, a user's row
\* was created while the archive was written (so that a code's owner may be
\* missing from it), or the archive is cut off.
ImportFailureHasCause == phase = "failed" => released \/ joined \/ Truncated
=============================================================================
