----------------------------- MODULE WeekEpochs -----------------------------
(***************************************************************************)
(* Epochs of seven days, the default: computeEpochId and epochStartMs      *)
(* (packages/core/src/epoch-manager.ts) name an epoch by the year and the  *)
(* number of its week, and one LoroEpochManager keeps the epochs of the    *)
(* retained weeks open under these names.  EpochStore models durations     *)
(* other than a week, whose ids are plain quotients.                       *)
(*                                                                         *)
(* A moment is twice its day plus a half of the day: 0 is midnight, 1 is   *)
(* any later moment, which Date arithmetic keeps as a fraction of a day.   *)
(***************************************************************************)
EXTENDS Integers

CONSTANTS
    FirstYear,      \* the year of day 0, a Monday
    LastYear,
    FirstDay,       \* bounds: the days the model runs through
    LastDay,
    Halves,         \* the halves of a day in which the scheduler may run
    Retain,         \* config.retainEpochs
    MaxPause        \* bound on the moments between two runs of the scheduler

\* The calendar repeats every 400 years, with January 1, 2024 a Monday.
ASSUME YearsAssumption ==
    /\ FirstYear \in Nat /\ FirstYear % 400 = 24
    /\ LastYear \in Nat /\ FirstYear <= LastYear
    /\ FirstDay \in Nat /\ LastDay \in Nat
    /\ Halves \subseteq 0 .. 1
    /\ Retain \in Nat
    /\ MaxPause \in Nat

VARIABLES
    now,            \* Date.now()
    currentEpochId,
    open,           \* keys of the manager's epochs Map
    chunks          \* at most one chunk: when and in which epoch it was written

weekVars == <<now, currentEpochId, open, chunks>>

Years == FirstYear .. LastYear
Leap(y) == y % 4 = 0 /\ (y % 100 # 0 \/ y % 400 = 0)

YearStart[y \in FirstYear .. LastYear + 1] ==
    IF y = FirstYear THEN 0
    ELSE YearStart[y - 1] + IF Leap(y - 1) THEN 366 ELSE 365

YearOf(d) == CHOOSE y \in Years : YearStart[y] <= d /\ d < YearStart[y + 1]

Monday(d) == d - (d % 7)
Moment(d) == 2 * d
Week      == Moment(7)

\* Math.ceil(n / d) of integers.
Ceiling(n, d) == -((-n) \div d)

\* computeEpochId: the Thursday of the week keeps the time of the day, so the
\* number of days since January 1 has a fraction except at midnight.
EpochId(t) ==
    LET thursday == Monday(t \div 2) + 3
        year     == YearOf(thursday)
        since    == Moment(thursday - YearStart[year]) + (t % 2)
    IN  <<year, Ceiling(since + Moment(1), Week)>>

\* epochStartMs: weeks are counted from the one January 4 lies in.
StartOf(id) == Moment(Monday(YearStart[id[1]] + 3) + 7 * (id[2] - 1))

\* Mutant of Cutoff: the current epoch counts as one of the retained ones.
CutoffCounted(t) == t - Retain * Week

Cutoff(t) == t - (Retain + 1) * Week

\* create: the epochs of this moment and of Retain weeks before it.
Window(t) == {EpochId(t - i * Week) : i \in 0 .. Retain}

Days     == FirstDay .. LastDay
Moments  == {Moment(d) + h : d \in Days, h \in Halves}
EpochIds == Years \X (1 .. 54)

\* The week of the last day is one of LastYear.
ASSUME DaysAssumption ==
    /\ FirstDay <= LastDay
    /\ Monday(LastDay) + 3 < YearStart[LastYear + 1]

WeekTypeOK ==
    /\ now \in Moments
    /\ currentEpochId \in EpochIds
    /\ open \subseteq EpochIds
    /\ chunks \subseteq [at : Moments, epoch : EpochIds]

WeekInit ==
    /\ now \in {Moment(FirstDay) + h : h \in Halves}
    /\ currentEpochId = EpochId(now)
    /\ open = Window(now)
    /\ chunks = {}

\* put: a chunk goes to the current epoch.
PutChunk ==
    /\ chunks = {}
    /\ chunks' = {[at |-> now, epoch |-> currentEpochId]}
    /\ UNCHANGED <<now, currentEpochId, open>>

Later(t) == t \in Moments /\ now < t /\ t <= now + MaxPause

\* A chunk that has outlived its retention is migrated when its epoch leaves.
Lapse(t) == chunks' = {c \in chunks : c.at >= t - Retain * Week}

\* The next run of the scheduler: maybeRotateEpoch, rotateEpoch and
\* dropExpiredEpochs.
RunAll ==
    \E t \in now + 1 .. now + MaxPause :
        /\ Later(t)
        /\ now' = t
        /\ Lapse(t)
        /\ currentEpochId' = EpochId(t)
        /\ open' = IF EpochId(t) = currentEpochId THEN open
                   ELSE {EpochId(t)} \cup {e \in open : StartOf(e) >= Cutoff(t)}

\* The daemon stops and starts again later.
Create ==
    \E t \in now + 1 .. now + MaxPause :
        /\ Later(t)
        /\ now' = t
        /\ Lapse(t)
        /\ currentEpochId' = EpochId(t)
        /\ open' = Window(t)

WeekNext == PutChunk \/ RunAll \/ Create

WeekSpec == WeekInit /\ [][WeekNext]_weekVars

-----------------------------------------------------------------------------
(***************************************************************************)
(* Properties.                                                             *)
(***************************************************************************)

\* The epoch of a chunk stays open for the retention it was promised, through
\* rotations and restarts and across the ends of years of 52 and 53 weeks.
RetainedStaysOpen ==
    \A c \in chunks : now - c.at <= Retain * Week => c.epoch \in open

\* The week of a day as ISO 8601 defines it: week 1 is the one January 4 lies
\* in, and a week belongs to the year it is counted in.
IsoWeek(d) ==
    LET year == CHOOSE y \in Years :
                  /\ Monday(YearStart[y] + 3) <= d
                  /\ d < Monday(YearStart[y + 1] + 3)
    IN  <<year, (d - Monday(YearStart[year] + 3)) \div 7 + 1>>

\* The comment on computeEpochId: epochs are aligned to the weeks of ISO 8601,
\* and carry their numbers.
EpochsAreIsoWeeks == currentEpochId = IsoWeek(now \div 2)

=============================================================================
