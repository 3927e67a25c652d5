------------------------------ MODULE CodeList -------------------------------
(***************************************************************************)
(* The paged list of an owner's codes (ListCodes of the SQL drivers), read *)
(* page by page with a keyset cursor while codes are created and deleted.  *)
(***************************************************************************)
EXTENDS Integers, FiniteSets

CONSTANTS
    CodeIds,        \* code ids, numbers: ListCodes orders by them
    Filters,        \* list filters: after, before (times) and the page size
    MaxTime         \* bound: the clock

\* A limit that is not positive is replaced by the default page size.
ASSUME CodeListAssumption ==
    /\ CodeIds \subseteq Nat \ {0} /\ MaxTime \in Nat
    /\ \A f \in Filters : f.limit \in Nat \ {0}

VARIABLES
    time,        \* the clock
    codes,      \* the owner's rows: created_at and whether it is deleted
    list        \* the listing in progress, or the last one

listVars == <<time, codes, list>>

NoCursor == [at |-> 0, id |-> 0]

ListInit ==
    /\ time = 0
    /\ codes = [c \in {} |-> 0]
    /\ list = [on |-> FALSE, cursor |-> NoCursor, filter |-> NoCursor,
               base |-> {}, shown |-> [c \in CodeIds |-> 0]]

Wait ==
    /\ time < MaxTime
    /\ time' = time + 1
    /\ UNCHANGED <<codes, list>>

(* Codes come and go *)

\* created_at is stamped before the insert commits: a row may appear with
\* the time of an earlier instant.
CreateCode(c, at) ==
    /\ c \notin DOMAIN codes
    /\ at + 1 >= time
    /\ codes' = [d \in DOMAIN codes \cup {c} |->
                   IF d = c THEN [at |-> at, deleted |-> FALSE]
                            ELSE codes[d]]
    /\ UNCHANGED <<time, list>>

DeleteCode(c) ==
    /\ c \in DOMAIN codes /\ ~codes[c].deleted
    /\ codes' = [codes EXCEPT ![c].deleted = TRUE]
    /\ UNCHANGED <<time, list>>

----------------------------------------------------------------------------
(* ListCodes *)

Live == {c \in DOMAIN codes : ~codes[c].deleted}

Matches(c, f) == codes[c].at > f.after /\ codes[c].at < f.before

\* ORDER BY created_at DESC, id DESC
Newer(p, q) == p.at > q.at \/ (p.at = q.at /\ p.id > q.id)

Pos(c) == [at |-> codes[c].at, id |-> c]

\* Bug: the cursor compares the time alone.
BugTimeOnly(c, cursor) == cursor = NoCursor \/ codes[c].at < cursor.at

Past(c, cursor) == cursor = NoCursor \/ Newer(cursor, Pos(c))

Remaining(f, cursor) == {c \in Live : Matches(c, f) /\ Past(c, cursor)}

Page(f, cursor) ==
    LET rest == Remaining(f, cursor)
    IN  {c \in rest : Cardinality({d \in rest : Newer(Pos(d), Pos(c))}) < f.limit}

\* One row more than the page is read to learn whether a page follows.
NextCursor(f, cursor) ==
    LET page == Page(f, cursor)
    IN  IF Cardinality(Remaining(f, cursor)) > f.limit
        THEN Pos(CHOOSE c \in page : \A d \in page : d = c \/ Newer(Pos(d), Pos(c)))
        ELSE NoCursor

ListStart(f) ==
    /\ ~list.on
    /\ list' = [on |-> TRUE, cursor |-> NoCursor, filter |-> f,
                base |-> {c \in Live : Matches(c, f)},
                shown |-> [c \in CodeIds |-> 0]]
    /\ UNCHANGED <<time, codes>>

ListCodes ==
    /\ list.on
    /\ LET f    == list.filter
           page == Page(f, list.cursor)
           next == NextCursor(f, list.cursor)
       IN  list' = [list EXCEPT
                      !.shown = [c \in CodeIds |-> @[c] + IF c \in page THEN 1 ELSE 0],
                      !.cursor = next,
                      !.on = next # NoCursor]
    /\ UNCHANGED <<time, codes>>

ListNext ==
    \/ Wait
    \/ \E c \in CodeIds : DeleteCode(c) \/ \E at \in 0..time : CreateCode(c, at)
    \/ \E f \in Filters : ListStart(f)
    \/ ListCodes

----------------------------------------------------------------------------
(***************************************************************************)
(* Every code that was there when a listing began and still is when it     *)
(* ends has been shown exactly once, and none is ever shown twice, however *)
(* many codes were created or deleted between its pages (sqlite.go:618,    *)
(* "rows inserted mid-listing are neither skipped nor duplicated").        *)
(***************************************************************************)
ListedOnce ==
    /\ \A c \in CodeIds : list.shown[c] <= 1
    /\ ~list.on => \A c \in list.base \cap Live : list.shown[c] = 1
=============================================================================
