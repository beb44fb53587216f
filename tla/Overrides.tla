------------------------------ MODULE Overrides ------------------------------
(***************************************************************************)
(* Which profile applies to a device or a person right now (overrides.py).  *)
(* Pure functions of the tables and the clock, used by every reconciler     *)
(* pass and by the overview page alike.                                     *)
(*                                                                          *)
(* A table is a sequence in the order of its row ids.  Time is counted in   *)
(* minutes from midnight before the first day of some week; the length of   *)
(* a day and of a week are parameters.                                      *)
(***************************************************************************)
EXTENDS Integers, Sequences, FiniteSets

CONSTANTS
    DaysPerWeek, MinutesPerDay,
    None,           \* NULL
    All             \* the target of a household-wide schedule

ASSUME OverridesAssumption ==
    /\ DaysPerWeek \in Nat \ {0} /\ MinutesPerDay \in Nat \ {0}

\* From the most restrictive profile to the least.
RestrictionOrder ==
    <<"internet-off", "kids", "no-streaming", "no-gaming", "no-youtube",
      "default", "unrestricted">>

Profiles == {RestrictionOrder[i] : i \in DOMAIN RestrictionOrder}

Day(t)     == t \div MinutesPerDay
Minute(t)  == t % MinutesPerDay
Weekday(d) == d % DaysPerWeek

\* A window as the editor stores it: both bounds are minutes 0..24:00.
Window == [days : SUBSET (0..DaysPerWeek - 1),
           start : 0..MinutesPerDay, end : 0..MinutesPerDay]

\* Wrong: after midnight, today has to be a day of the window.
WindowActiveToday(w, t) ==
    /\ Weekday(Day(t)) \in w.days
    /\ \/ w.start < w.end /\ w.start <= Minute(t) /\ Minute(t) < w.end
       \/ w.start > w.end /\ (Minute(t) >= w.start \/ Minute(t) < w.end)

\* Wrong: the minute a window ends still belongs to it.
WindowActiveAtEnd(w, t) ==
    LET today     == Weekday(Day(t))
        yesterday == (today - 1) % DaysPerWeek
    IN  \/ /\ w.start < w.end
           /\ today \in w.days
           /\ w.start <= Minute(t) /\ Minute(t) <= w.end
        \/ /\ w.start > w.end
           /\ \/ today \in w.days /\ Minute(t) >= w.start
              \/ yesterday \in w.days /\ Minute(t) < w.end

\* schedule_window_active: the day that opens the window must be enabled.
WindowActive(w, t) ==
    LET today     == Weekday(Day(t))
        yesterday == (today - 1) % DaysPerWeek
    IN  \/ /\ w.start < w.end
           /\ today \in w.days
           /\ w.start <= Minute(t) /\ Minute(t) < w.end
        \/ /\ w.start > w.end
           /\ \/ today \in w.days /\ Minute(t) >= w.start
              \/ yesterday \in w.days /\ Minute(t) < w.end

-----------------------------------------------------------------------------
(* Tables. *)

\* Where row i comes among the rows in ids.
Place(ids, i) == Cardinality({j \in ids : j <= i})

\* What a DELETE leaves: the rows in ids, in the order they had.
Only(table, ids) ==
    [n \in 1..Cardinality(ids) |-> table[CHOOSE i \in ids : Place(ids, i) = n]]

-----------------------------------------------------------------------------
(* Resolving one target. *)

\* NULL is stored for "internet off".
Chosen(p) == IF p = None THEN "internet-off" ELSE p

Priority(source) == CASE source = "manual"       -> 100
                      [] source = "family-pause" -> 80
                      [] source = "quota"        -> 60
                      [] source = "schedule"     -> 40

LiveOverrides(overrides, target, t) ==
    {i \in DOMAIN overrides : overrides[i].target = target /\ overrides[i].expires > t}

OpenSchedules(schedules, target, t) ==
    {i \in DOMAIN schedules : /\ schedules[i].target \in {target, All}
                              /\ schedules[i].enabled
                              /\ WindowActive(schedules[i].window, t)}

SpentQuotas(quotas, target, minutes, t) ==
    {i \in DOMAIN quotas : /\ quotas[i].target = target
                           /\ quotas[i].enabled
                           /\ Weekday(Day(t)) \in quotas[i].days
                           /\ minutes >= quotas[i].max}

Earliest(ids) == CHOOSE i \in ids : \A j \in ids : i <= j
Latest(ids)   == CHOOSE i \in ids : \A j \in ids : i >= j

\* The highest source priority wins, then the row added last.
Strongest(overrides, ids) ==
    LET prio(i) == Priority(overrides[i].source)
    IN  Latest({i \in ids : \A j \in ids : prio(i) >= prio(j)})

Trace(p, s) == [profile |-> p, source |-> s]

\* resolve_target: an override in force, else an open schedule, else a spent
\* quota, else the baseline.
Resolve(target, base, minutes, overrides, schedules, quotas, t) ==
    LET live  == LiveOverrides(overrides, target, t)
        open  == OpenSchedules(schedules, target, t)
        spent == SpentQuotas(quotas, target, minutes, t)
        top   == overrides[Strongest(overrides, live)]
    IN  IF live # {}
        THEN Trace(Chosen(top.profile), top.source)
        ELSE IF open # {}
        THEN Trace(Chosen(schedules[Latest(open)].profile), "schedule")
        ELSE IF spent # {}
        THEN Trace(Chosen(quotas[Earliest(spent)].profile), "quota")
        ELSE Trace(base, IF base = None THEN "no-profile" ELSE "base")

-----------------------------------------------------------------------------
(* A device that belongs to a person. *)

\* No profile at all is the least restrictive.
RestrictionRank(p) ==
    IF p = None THEN Len(RestrictionOrder) + 1
                ELSE CHOOSE i \in DOMAIN RestrictionOrder : RestrictionOrder[i] = p

MoreRestrictive(a, b) ==
    IF RestrictionRank(a.profile) <= RestrictionRank(b.profile) THEN a ELSE b

Baseline(trace) == trace.source \in {"base", "no-profile"}

\* merge_person_into_device: whatever is in force for the person wins
\* outright; against a mere baseline the more restrictive of the two wins.
MergePersonIntoDevice(device, person) ==
    IF Baseline(person) THEN MoreRestrictive(device, person) ELSE person

-----------------------------------------------------------------------------
(* What a window means, told without weekday arithmetic. *)

Duration(w) == IF w.start <= w.end THEN w.end - w.start
                                   ELSE MinutesPerDay - w.start + w.end

\* On day d the window opens, and it stays open for its duration.
OpenFromDay(w, d, t) ==
    /\ Weekday(d) \in w.days
    /\ d * MinutesPerDay + w.start <= t
    /\ t < d * MinutesPerDay + w.start + Duration(w)

\* The minutes at which a schedule can start or stop to apply.
Opens(w, t)  == \E d \in {Day(t) - 1, Day(t)} :
                    ~OpenFromDay(w, d, t - 1) /\ OpenFromDay(w, d, t)
Closes(w, t) == \E d \in {Day(t) - 1, Day(t)} :
                    OpenFromDay(w, d, t - 1) /\ ~OpenFromDay(w, d, t)
=============================================================================
