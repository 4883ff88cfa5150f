------------------------------ MODULE Temporal ------------------------------
(***************************************************************************)
(* The timing of a plan (taskweft_nif/standalone/tw_temporal.hpp):         *)
(* tw_check_temporal and tw_check_temporal_civil lay the actions end to    *)
(* end, put them into a simple temporal network, and check that it is      *)
(* consistent.  With a reference date, years and months are measured on    *)
(* the calendar, from a cursor that moves through the plan.                *)
(*                                                                         *)
(* The network's distances are kept as times; the code has them in double  *)
(* seconds.  Nil is an infinite distance, an absent date, no duration.     *)
(***************************************************************************)
EXTENDS Iso8601

LOCAL INSTANCE SequencesExt

CONSTANTS Durations,     \* durations an action may have in the domain, or Nil
          Origins,       \* origin_iso
          References,    \* reference dates, or Nil
          MaxActions,    \* bound: actions of a plan
          Nil

VARIABLES
    origin, reference,    \* the arguments
    cursor,               \* civil_cursor
    current, total,       \* the running sums
    steps,                \* TwTemporalResult.steps
    dist                  \* STN: distances between points; 0 is t0

temporalVars == <<origin, reference, cursor, current, total, steps, dist>>

-----------------------------------------------------------------------------
(* The calendar (thirdparty/date/date.h)                                   *)

Date(y, m, d) == [y |-> y, m |-> m, d |-> d]

Leap(y) == y % 4 = 0 /\ (y % 100 # 0 \/ y % 400 = 0)

LastDay(y, m) ==
    CASE m = 2 -> IF Leap(y) THEN 29 ELSE 28
      [] m \in {4, 6, 9, 11} -> 30
      [] OTHER -> 31

\* sys_days: days since a fixed day.
SysDays(c) ==
    LET before == <<0, 31, 59, 90, 120, 151, 181, 212, 243, 273, 304, 334>>
        leaps(y) == y \div 4 - y \div 100 + y \div 400
    IN  365 * c.y + leaps(c.y - 1) + before[c.m] + c.d
        + IF c.m > 2 /\ Leap(c.y) THEN 1 ELSE 0

\* month + months wraps around within the year.
MonthPlus(m, n) == ((m - 1 + n) % 12) + 1

\* A day past the end of its month becomes the last one.
Clamped(c) == IF c.d > LastDay(c.y, c.m) THEN [c EXCEPT !.d = LastDay(c.y, c.m)] ELSE c

\* Faulty cursor: the day is not clamped to its month.
AdvancedUnclamped(c, unit, n) ==
    IF unit = "Y" THEN [c EXCEPT !.y = @ + n] ELSE [c EXCEPT !.m = MonthPlus(@, n)]

\* The cursor after n years or months.
Advanced(c, unit, n) ==
    Clamped(IF unit = "Y" THEN [c EXCEPT !.y = @ + n] ELSE [c EXCEPT !.m = MonthPlus(@, n)])

-----------------------------------------------------------------------------
(* tw_civil_duration_ms                                                    *)

\* The cursor moves with each number, also when a later token is an error.
CivilToken(p, t, atEnd) ==
    IF ~p.ok \/ Refuses(p, t, atEnd) THEN [p EXCEPT !.ok = FALSE]
    ELSE IF t.unit = "T" THEN Taken(p, t)
    ELSE LET unit == UnitMs(p.inTime, t.unit)
             milli == Milli(t.frac)
         IN  IF ~p.inTime /\ t.unit \in {"Y", "M"}
             THEN LET c == Advanced(p.cursor, t.unit, t.whole)
                      days == SysDays(c) - SysDays(p.cursor)
                  IN  [Taken(p, t) EXCEPT
                          !.cursor = c, !.total = Plus(@, Plus(Time(days, 0), Amount(0, milli, unit)))]
             ELSE [Taken(p, t) EXCEPT !.total = Plus(@, Amount(t.whole, milli, unit))]

CivilFresh(c) ==
    [ok |-> TRUE, total |-> Zero, inTime |-> FALSE, frac |-> FALSE,
     week |-> FALSE, any |-> FALSE, rank |-> -1, cursor |-> c]

tw_civil_duration_ms(d, c) ==
    FoldLeftDomain(LAMBDA q, i : CivilToken(q, d[i], i = Len(d)), CivilFresh(c), d)

-----------------------------------------------------------------------------
(* The network                                                             *)

Nearer(a, b) == IF b = Nil \/ (a # Nil /\ Less(a, b)) THEN a ELSE b
Via(a, b) == IF a = Nil \/ b = Nil THEN Nil ELSE Plus(a, b)

\* add_point for the new point n.
AddPoint(net, n) ==
    [p \in (0 .. n) \X (0 .. n) |->
        IF p \in DOMAIN net THEN net[p] ELSE IF p = <<n, n>> THEN Zero ELSE Nil]

\* Faulty constraint: the lower bound is not entered.
AddConstraintUpper(net, from, to, lo, hi) ==
    [AddPoint(net, to) EXCEPT ![<<from, to>>] = Nearer(hi, @)]

\* add_constraint from a point of the network to a new one.
AddConstraint(net, from, to, lo, hi) ==
    [AddPoint(net, to) EXCEPT ![<<from, to>>] = Nearer(hi, @),
                              ![<<to, from>>] = Nearer(Minus(Zero, lo), @)]

\* The distances after the loops of consistent().
Relax(net, k) == [p \in DOMAIN net |-> Nearer(Via(net[<<p[1], k>>], net[<<k, p[2]>>]), net[p])]
Closure(net, n) == FoldLeft(LAMBDA d, k : Relax(d, k - 1), net, [k \in 1 .. n + 1 |-> k])

Consistent(net, n) ==
    LET closed == Closure(net, n) IN \A i \in 0 .. n : ~Less(closed[<<i, i>>], Zero)

-----------------------------------------------------------------------------
\* The time a duration parses to, zero if it does not.
OrZero(time) == IF time = Invalid THEN Zero ELSE IF time.day < 0 THEN Zero ELSE time

TemporalInit ==
    /\ origin \in Origins /\ reference \in References
    /\ cursor = reference
    /\ current = OrZero(tw_parse_duration_ms(origin)) /\ total = Zero
    /\ steps = <<>>
    /\ dist = [p \in {<<0, 0>>} |-> Zero]

TemporalStep(d, span) ==
    [duration |-> d, start |-> tw_format_duration_ms(current),
     end |-> tw_format_duration_ms(Plus(current, span))]

\* One action of the plan whose duration in the domain is d.
Place(d) ==
    LET civil == tw_civil_duration_ms(d, cursor)
        span == IF d = Nil THEN Zero
                ELSE IF cursor = Nil THEN OrZero(tw_parse_duration_ms(d))
                ELSE OrZero(IF civil.ok THEN civil.total ELSE Invalid)
        n == 2 * Len(steps)
    IN  /\ Len(steps) < MaxActions
        /\ cursor' = IF d = Nil \/ cursor = Nil THEN cursor ELSE civil.cursor
        /\ steps' = Append(steps, TemporalStep(d, span))
        /\ current' = Plus(current, span) /\ total' = Plus(total, span)
        /\ dist' = AddConstraint(AddConstraint(dist, n, n + 1, Zero, Zero), n + 1, n + 2, span, span)
        /\ UNCHANGED <<origin, reference>>

TemporalNext == \E d \in Durations : Place(d)

-----------------------------------------------------------------------------
(* Properties                                                              *)

Shown(iso) == tw_parse_duration_ms(iso)
OriginTime == OrZero(tw_parse_duration_ms(origin))

\* "each action starts exactly when the previous ends": so the printed times
\* say, beginning with the origin and ending total later.  The network of the
\* plan is consistent, and the time from its start to the end of each action
\* can be nothing but the printed one.
ScheduleExact ==
    LET n == 2 * Len(steps)
        closed == Closure(dist, n)
    IN  /\ Consistent(dist, n)
        /\ steps # <<>> => Shown(steps[Len(steps)].end) = Plus(OriginTime, total)
        /\ \A i \in DOMAIN steps :
              LET elapsed == Minus(Shown(steps[i].end), OriginTime)
              IN  /\ Shown(steps[i].start) = IF i = 1 THEN OriginTime ELSE Shown(steps[i - 1].end)
                  /\ closed[<<0, 2 * i>>] = elapsed
                  /\ closed[<<2 * i, 0>>] = Minus(Zero, elapsed)

\* The whole years or months of a duration, and all the rest of it.
InDate(d, i) == \A j \in 1 .. i : d[j].unit # "T"
WholeOf(d, u) ==
    FoldLeftDomain(LAMBDA sum, i : sum + IF InDate(d, i) /\ d[i].unit = u THEN d[i].whole ELSE 0, 0, d)
FixedOf(d) ==
    FoldLeftDomain(LAMBDA sum, i :
        IF d[i].unit = "T" THEN sum
        ELSE LET calendar == InDate(d, i) /\ d[i].unit \in {"Y", "M"}
             IN  Plus(sum, Amount(IF calendar THEN 0 ELSE d[i].whole, Milli(d[i].frac),
                                  UnitMs(~InDate(d, i), d[i].unit))),
        Zero, d)
Whole(u) == FoldLeft(LAMBDA sum, s : sum + IF s.duration = Nil THEN 0 ELSE WholeOf(s.duration, u), 0, steps)

Civil(i) ==
    /\ reference # Nil
    /\ \A j \in 1 .. i : steps[j].duration = Nil \/ tw_parse_duration_ms(steps[j].duration) # Invalid

\* The day of a calendar that goes on after December, n months after c.
MonthsAfter(c, n) ==
    LET index == 12 * c.y + c.m - 1 + n
        last == LastDay(index \div 12, (index % 12) + 1)
    IN  Date(index \div 12, (index % 12) + 1, IF c.d > last THEN last ELSE c.d)
CalendarAfter(c, d) == MonthsAfter(MonthsAfter(c, 12 * WholeOf(d, "Y")), WholeOf(d, "M"))

\* The civil date on which the action at place i starts, by the printed times.
StartsOn(i) ==
    LET day == SysDays(reference) + Minus(Shown(steps[i].start), OriginTime).day
        first == CHOOSE c \in {Date(y, m, 1) : y \in reference.y .. reference.y + 3, m \in 1 .. 12} :
                    day - SysDays(c) \in 0 .. LastDay(c.y, c.m) - 1
    IN  [first EXCEPT !.d = 1 + day - SysDays(first)]

\* What is left out: years and months after a month sum past December, which
\* MonthsTakeDays is about, and after weeks, days, times or fractions of an
\* earlier action, for which the cursor does not move.
OnCalendar(i) ==
    \/ \A u \in {"Y", "M"} : WholeOf(steps[i].duration, u) = 0
    \/ \A j \in 1 .. i : steps[j].duration # Nil =>
          /\ StartsOn(j).m + WholeOf(steps[j].duration, "M") <= 12
          /\ j < i => FixedOf(steps[j].duration) = Zero

\* "each action's Y/Mo duration is measured from the civil date at which that
\* action starts": an action ends as many days after its start as there are on
\* the calendar up to the day its years and months lead to, plus what its
\* weeks, days and times add.  Month ends and leap days of earlier actions
\* count, too.
CivilExact ==
    \A i \in DOMAIN steps :
        steps[i].duration # Nil /\ Civil(i) /\ OnCalendar(i) =>
            LET from == StartsOn(i)
                days == SysDays(CalendarAfter(from, steps[i].duration)) - SysDays(from)
            IN  Minus(Shown(steps[i].end), Shown(steps[i].start))
                    = Plus(Time(days, 0), FixedOf(steps[i].duration))

\* "Y and Mo durations use calendar arithmetic": with a reference date, n
\* months take at least 28 * n days.
MonthsTakeDays == Civil(Len(steps)) => total.day >= 28 * Whole("M")
=============================================================================
