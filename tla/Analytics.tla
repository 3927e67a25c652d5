------------------------------ MODULE Analytics ------------------------------
(***************************************************************************)
(* What becomes of a scan once the recorder has it: raw events and hourly  *)
(* rollups written in one transaction (InsertScanBatch), the analytics     *)
(* query over the rollups, and the retention job that prunes raw events in *)
(* batches while inserts go on.  Time is counted in ticks, HourTicks of    *)
(* them to the hour and DayHours hours to the day.                         *)
(***************************************************************************)
EXTENDS Integers, FiniteSets

CONSTANTS
    Codes,          \* the caller's codes
    Direct,         \* those whose image carries the destination itself
    Strangers,      \* codes of others, or none at all
    Agents,         \* what the User-Agent parser reports of the visitors
    Hosts,          \* referrer hosts, "" for a direct scan
    HourTicks, DayHours,
    FirstWeekday,   \* the weekday of day 0, Sunday = 0
    RetentionDays, PruneBatch,
    Ranges,         \* analytics requests: how far back, how long, which bucket
    DefaultRange, MaxRange,
    MaxTicks,       \* bound: the clock
    MaxFails,       \* bound: prunes that fail
    MaxScans        \* bound: scans

ASSUME AnalyticsAssumption ==
    /\ {HourTicks, DayHours, RetentionDays, PruneBatch} \subseteq Nat \ {0}
    /\ FirstWeekday \in 0..6
    /\ Direct \subseteq Codes /\ Strangers \cap Codes = {}

VARIABLES
    clock,
    buffer,     \* scans the recorder holds
    events,     \* scan_events
    rollups,    \* scan_rollups: the count of each <<code, hour, dimension, value>>
    history,    \* every scan ever committed
    prune       \* the retention job: the cutoff of the run in progress, failures

vars == <<clock, buffer, events, rollups, history, prune>>

----------------------------------------------------------------------------
(* Classifying a scan *)

\* Classify: bots are a device category, never a browser family.
Classify(ua) ==
    [family |-> IF ua.browser = "" \/ ua.kind = "bot" THEN "unknown" ELSE ua.browser,
     device |-> ua.kind,
     bot    |-> ua.kind = "bot"]

DimTotal == "total"
Breakdowns == {"ua_family", "device_category", "referrer_host", "is_bot"}

Value(e, dim) ==
    CASE dim = "total"           -> ""
      [] dim = "ua_family"       -> e.visit.family
      [] dim = "device_category" -> e.visit.device
      [] dim = "referrer_host"   -> e.host
      [] dim = "is_bot"          -> IF e.visit.bot THEN "true" ELSE "false"

Hour(t) == t \div HourTicks

Key(e, dim) == <<e.code, Hour(e.at), dim, Value(e, dim)>>

\* For every event one increment on the total and one on each breakdown.
BuildRollups(evs) ==
    LET keys == {Key(e, dim) : e \in evs, dim \in Breakdowns \cup {DimTotal}}
    IN  [k \in keys |-> Cardinality({e \in evs : Key(e, k[3]) = k})]

Count(r, k) == IF k \in DOMAIN r THEN r[k] ELSE 0

\* Bug: the upsert replaces the count.
BugReplaces(r, deltas) ==
    [k \in DOMAIN r \cup DOMAIN deltas |->
        IF k \in DOMAIN deltas THEN deltas[k] ELSE r[k]]

\* ON CONFLICT ... DO UPDATE SET count = count + excluded.count
Upsert(r, deltas) ==
    [k \in DOMAIN r \cup DOMAIN deltas |-> Count(r, k) + Count(deltas, k)]

----------------------------------------------------------------------------
(* The clock, scans, and the recorder's flush *)

StatsInit ==
    /\ clock = 0
    /\ buffer = {} /\ events = {} /\ history = {}
    /\ rollups = [k \in {} |-> 0]
    /\ prune = [on |-> FALSE, before |-> 0, fails |-> 0]

Tick ==
    /\ clock < MaxTicks
    /\ clock' = clock + 1
    /\ UNCHANGED <<buffer, events, rollups, history, prune>>

Scanned == Cardinality(buffer) + Cardinality(history)

\* The redirect handler records each scan of a code it finds, a direct one's
\* short link included.  n distinguishes scans that are otherwise alike.
record(c, ua, h) ==
    /\ Scanned < MaxScans
    /\ buffer' = buffer \cup {[n |-> Scanned, code |-> c, at |-> clock,
                               visit |-> Classify(ua), host |-> h]}
    /\ UNCHANGED <<clock, events, rollups, history, prune>>

InsertScanBatch(batch) ==
    /\ batch # {}
    /\ events' = events \cup batch
    /\ rollups' = Upsert(rollups, BuildRollups(batch))
    /\ history' = history \cup batch
    /\ buffer' = buffer \ batch
    /\ UNCHANGED <<clock, prune>>

----------------------------------------------------------------------------
(* Retention *)

Cutoff == clock - RetentionDays * DayHours * HourTicks

\* Bug: the window is not subtracted from the time of the run.
BugNoWindow ==
    /\ ~prune.on
    /\ prune' = [prune EXCEPT !.on = TRUE, !.before = clock]
    /\ UNCHANGED <<clock, buffer, events, rollups, history>>

RunOnceStart ==
    /\ ~prune.on
    /\ prune' = [prune EXCEPT !.on = TRUE, !.before = Cutoff]
    /\ UNCHANGED <<clock, buffer, events, rollups, history>>

Old(evs, before) == {e \in evs : e.at < before}

Older(d, e) == d.at < e.at \/ (d.at = e.at /\ d.n < e.n)

\* Bug: the limit is off by one.
BugLimit(evs, limit) ==
    {e \in evs : Cardinality({d \in evs : Older(d, e)}) < limit - 1}

\* ORDER BY occurred_at, id LIMIT ?
Oldest(evs, limit) ==
    {e \in evs : Cardinality({d \in evs : Older(d, e)}) < limit}

PruneScanEvents ==
    /\ prune.on
    /\ Old(events, prune.before) # {}
    /\ events' = events \ Oldest(Old(events, prune.before), PruneBatch)
    /\ UNCHANGED <<clock, buffer, rollups, history, prune>>

\* A call that deletes nothing ends the run.
RunOnceDone ==
    /\ prune.on
    /\ Old(events, prune.before) = {}
    /\ prune' = [prune EXCEPT !.on = FALSE]
    /\ UNCHANGED <<clock, buffer, events, rollups, history>>

\* The store fails or the process stops: the next run starts over.
RunOnceFails ==
    /\ prune.on /\ prune.fails < MaxFails
    /\ prune' = [prune EXCEPT !.on = FALSE, !.fails = @ + 1]
    /\ UNCHANGED <<clock, buffer, events, rollups, history>>

----------------------------------------------------------------------------
(* QueryAnalytics *)

Day(h) == h \div DayHours

\* Weeks start on Monday.
bucketStart(h, bucket) ==
    CASE bucket = "hour" -> h
      [] bucket = "day"  -> Day(h) * DayHours
      [] bucket = "week" ->
           LET offset == (((Day(h) + FirstWeekday) % 7) + 6) % 7
           IN  (Day(h) - offset) * DayHours

\* hour_bucket >= from AND hour_bucket < to
InRange(k, q) ==
    /\ k[1] = q.code
    /\ k[2] * HourTicks >= q.from
    /\ k[2] * HourTicks < q.to

\* SUM(count) over the rows with these keys, as the size of the set with r[k]
\* elements for each k: equations between such sums need no induction.
SumOver(r, keys) == Cardinality(UNION {{k} \X (1..r[k]) : k \in keys})

QueryAnalytics(q) ==
    LET rows   == {k \in DOMAIN rollups : InRange(k, q)}
        totals == {k \in rows : k[3] = DimTotal}
        starts == {bucketStart(k[2], q.bucket) : k \in totals}
    IN  [total  |-> SumOver(rollups, totals),
         series |-> [s \in starts |->
                       SumOver(rollups, {k \in totals : bucketStart(k[2], q.bucket) = s})],
         breakdowns |->
            [dim \in Breakdowns |->
               [v \in {k[4] : k \in {k \in rows : k[3] = dim}} |->
                  SumOver(rollups, {k \in rows : k[3] = dim /\ k[4] = v})]]]

SumOf(f) == SumOver(f, DOMAIN f)
----------------------------------------------------------------------------
(* GET /v1/codes/{id}/analytics, asked now for a range that ends `ago`      *)
(* ticks back (the default when absent) and is `span` long                 *)

\* A query parameter that was not given.
Absent == -1

To(r) == clock - (IF r.ago = Absent THEN 0 ELSE r.ago)

From(r) == To(r) - (IF r.span = Absent THEN DefaultRange ELSE r.span)

BadRange(r) == To(r) <= From(r) \/ To(r) - From(r) > MaxRange

ServeAnalytics(c, r) ==
    IF BadRange(r) THEN [status |-> "invalid_request"]
    ELSE IF c \in Strangers THEN [status |-> "not_found"]
    ELSE IF c \in Direct THEN [status |-> "not_tracked"]
    ELSE [status |-> "ok",
          answer |-> QueryAnalytics([code |-> c, from |-> From(r), to |-> To(r),
                                     bucket |-> r.bucket])]

----------------------------------------------------------------------------
AnalyticsNext ==
    \/ Tick
    \/ \E c \in Codes, ua \in Agents, h \in Hosts : record(c, ua, h)
    \/ \E batch \in SUBSET buffer : InsertScanBatch(batch)
    \/ RunOnceStart \/ PruneScanEvents \/ RunOnceDone \/ RunOnceFails

\* Run loops for as long as the instance is up (retention.go:45).
AnalyticsSpec ==
    /\ StatsInit /\ [][AnalyticsNext]_vars
    /\ WF_vars(RunOnceStart)
    /\ WF_vars(PruneScanEvents \/ RunOnceDone)

----------------------------------------------------------------------------
(***************************************************************************)
(* The analytics of a code count every scan ever committed whose hour      *)
(* starts in the range, its series and each of its breakdowns add up to    *)
(* its total, and none of it changes when raw events are pruned.  The      *)
(* clicks on a direct code's short link are recorded beside them and are   *)
(* never shown as scans (v1/analytics.go:23, :115, rollup.go:13).          *)
(***************************************************************************)
AnswersMatchHistory ==
    \A c \in Codes \cup Strangers, r \in Ranges :
        LET res == ServeAnalytics(c, r)
            true == {e \in history : /\ e.code = c
                                     /\ Hour(e.at) * HourTicks >= From(r)
                                     /\ Hour(e.at) * HourTicks < To(r)}
        IN  res.status = "ok" =>
              /\ c \in Codes \ Direct
              /\ res.answer.total = Cardinality(true)
              /\ SumOf(res.answer.series) = res.answer.total
              /\ \A dim \in Breakdowns : SumOf(res.answer.breakdowns[dim]) = res.answer.total

(***************************************************************************)
(* However the scans were cut into batches and whatever has been pruned    *)
(* since, there is a rollup row for each hour, dimension and value that    *)
(* was scanned and no other, and it counts the scans committed for it      *)
(* (rollup.go:13, the upsert of InsertScanBatch).                          *)
(***************************************************************************)
RollupsCountHistory ==
    /\ DOMAIN rollups = {Key(e, dim) : e \in history, dim \in Breakdowns \cup {DimTotal}}
    /\ \A k \in DOMAIN rollups :
         rollups[k] = Cardinality({e \in history : Key(e, k[3]) = k})

(***************************************************************************)
(* Retention never takes a raw event of the window, whatever is inserted   *)
(* between its batches and however late a run prunes with the cutoff it    *)
(* took when it started (retention.go:83).                                 *)
(***************************************************************************)
WindowKept == \A e \in history : e.at >= Cutoff => e \in events

(***************************************************************************)
(* A raw event past the window is eventually deleted: a run ends although  *)
(* inserts go on, and a failed one is made good by the next                *)
(* (retention.go:44-82).                                                   *)
(***************************************************************************)
OldEventsGo ==
    \A n \in 0..MaxScans - 1 :
        (\E e \in events : e.n = n /\ e.at < Cutoff) ~> (\A e \in events : e.n # n)
=============================================================================
