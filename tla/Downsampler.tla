---------------------------- MODULE Downsampler ----------------------------
(***************************************************************************)
(* The rollups of a target's uptime samples (backend/sla/downsampler.py):  *)
(* raw samples into 5-minute rows, these into 1-hour rows, and old raw     *)
(* samples deleted.  A row stands for the set of samples it was computed   *)
(* from, a sample for the time it was taken.                               *)
(***************************************************************************)
EXTENDS Integers, TLC

CONSTANTS
    Short,        \* ticks in 5 minutes
    Long,         \* ticks in an hour, a multiple of Short
    Keep,         \* ticks in retention_days
    Horizon       \* bound: ticks looked at

VARIABLES
    now,
    taken,        \* the samples ever recorded
    raw,          \* uptime_samples, those of them not yet pruned
    five,         \* uptime_samples_5m by bucket_start
    hour          \* uptime_samples_1h by bucket_start

vars == <<now, taken, raw, five, hour>>

\* The start of the bucket, w wide, that time t is in.
Floor(t, w) == (t \div w) * w

\* The samples the 5-minute step groups, and the rows the 1-hour step groups.
Old == {s \in raw : s < now - Short}
OldRows(rows) == {b \in DOMAIN rows : b < now - Long}

\* A bucket that has its row is skipped.
RollToFive ==
    five @@ [b \in {Floor(s, Short) : s \in Old} |-> {s \in Old : Floor(s, Short) = b}]

RollToHour(rows) ==
    hour @@ [h \in {Floor(b, Long) : b \in OldRows(rows)} |->
               UNION {rows[b] : b \in {c \in OldRows(rows) : Floor(c, Long) = h}}]

-----------------------------------------------------------------------------
Init ==
    /\ now = 0
    /\ taken = {} /\ raw = {}
    /\ five = <<>> /\ hour = <<>>

\* Time passes, with a sample of that time or, when the probe failed to be
\* recorded, without.
Tick ==
    /\ now < Horizon
    /\ now' = now + 1
    /\ \E new \in SUBSET {now} : taken' = taken \cup new /\ raw' = raw \cup new
    /\ UNCHANGED <<five, hour>>

\* Every hour from whenever the process started, and again at each restart.
RunOnce ==
    /\ five' = RollToFive
    /\ hour' = RollToHour(five')
    /\ raw' = {s \in raw : s >= now - Keep}
    /\ UNCHANGED <<now, taken>>

Next == Tick \/ RunOnce

Spec == Init /\ [][Next]_vars

-----------------------------------------------------------------------------
\* A rollup is exact (reliability-guide.md:62, "the downsampler stores exact
\* count-weighted average, minimum, and maximum latency in 5-minute and 1-hour
\* rollups"): once written, a row counts every sample of its bucket.
RollupsAreExact ==
    /\ \A b \in DOMAIN five : five[b] = {s \in taken : Floor(s, Short) = b}
    /\ \A h \in DOMAIN hour : hour[h] = {s \in taken : Floor(s, Long) = h}

=============================================================================
