------------------------------ MODULE Iso8601 ------------------------------
(***************************************************************************)
(* ISO 8601 durations, parsed by the NIF                                   *)
(* (taskweft_nif/standalone/tw_temporal.hpp) and by the Elixir loader      *)
(* (taskweft/lib/taskweft/iso8601_duration.ex), and formatted by the NIF.  *)
(*                                                                         *)
(* What follows the "P" is a sequence of tokens: a number (its whole part, *)
(* the digits of its fraction, and the unit letter after it) or the letter *)
(* T.  A unit "?" stands for everything no parser takes: a letter that is  *)
(* no unit, a number without one, a point without digits.                  *)
(*                                                                         *)
(* An int64 of milliseconds is kept as days and milliseconds of a day.     *)
(* Its overflow is not modelled.                                           *)
(***************************************************************************)
EXTENDS Integers, Sequences

LOCAL INSTANCE SequencesExt

CONSTANTS Wholes,       \* whole parts
          Fractions,    \* fractions, as sequences of digits; <<>> is none
          MaxTokens,    \* bound: tokens of a duration
          Invalid       \* what a parser returns on an error (-1)

VARIABLE dur    \* the duration

MsPerDay == 86400000

Time(day, ms) == [day |-> day + ms \div MsPerDay, ms |-> ms % MsPerDay]
Zero == Time(0, 0)
Plus(a, b) == Time(a.day + b.day, a.ms + b.ms)
Minus(a, b) == Time(a.day - b.day, a.ms - b.ms)

\* n units, each of whole days or an even part of a day.
Times(n, unit) ==
    IF unit.ms = 0 THEN Time(n * unit.day, 0)
    ELSE LET perDay == MsPerDay \div unit.ms
         IN  Time(n \div perDay, (n % perDay) * unit.ms)

Less(a, b) == a.day < b.day \/ (a.day = b.day /\ a.ms < b.ms)

Letter == {"Y", "M", "W", "D", "H", "S", "T", "?"}

\* The units that may follow, before and after T, in canonical order.
Units(inTime) == IF inTime THEN <<"H", "M", "S">> ELSE <<"Y", "M", "D", "W">>
Rank(inTime, u) ==
    (IF inTime THEN 3 ELSE 0) + (CHOOSE i \in 1 .. 4 : i \in DOMAIN Units(inTime) /\ Units(inTime)[i] = u)
Known(inTime, u) == \E i \in DOMAIN Units(inTime) : Units(inTime)[i] = u

UnitMs(inTime, u) ==
    CASE u = "Y" -> Time(365, 0)
      [] u = "M" -> IF inTime THEN Time(0, 60000) ELSE Time(30, 0)
      [] u = "W" -> Time(7, 0)
      [] u = "D" -> Time(1, 0)
      [] u = "H" -> Time(0, 3600000)
      [] u = "S" -> Time(0, 1000)

\* The first three digits of a fraction, in thousandths.
Milli(digits) ==
    LET d(i) == IF i \in DOMAIN digits THEN digits[i] ELSE 0
    IN  100 * d(1) + 10 * d(2) + d(3)

\* whole * unit + milli * (unit / 1000)
Amount(whole, milli, unit) ==
    Plus(Times(whole, unit),
         Plus(Time((milli * unit.day) \div 1000, ((milli * unit.day) % 1000) * 86400),
              Time(0, milli * (unit.ms \div 1000))))

-----------------------------------------------------------------------------
(* tw_parse_duration_ms                                                    *)

Fresh == [ok |-> TRUE, total |-> Zero, inTime |-> FALSE, frac |-> FALSE,
          week |-> FALSE, any |-> FALSE, rank |-> -1]

\* Faulty order: a unit may be repeated.
RefusesLower(p, t, atEnd) ==
    \/ p.frac
    \/ t.unit = "T" /\ (p.inTime \/ atEnd)
    \/ /\ t.unit # "T"
       /\ \/ ~Known(p.inTime, t.unit)
          \/ t.unit = "W" /\ (p.any \/ p.inTime)
          \/ p.week
          \/ t.unit # "W" /\ Rank(p.inTime, t.unit) < p.rank

\* The next token is an error.
Refuses(p, t, atEnd) ==
    \/ p.frac
    \/ t.unit = "T" /\ (p.inTime \/ atEnd)
    \/ /\ t.unit # "T"
       /\ \/ ~Known(p.inTime, t.unit)
          \/ t.unit = "W" /\ (p.any \/ p.inTime)
          \/ p.week
          \/ t.unit # "W" /\ Rank(p.inTime, t.unit) <= p.rank

\* A token that is none; what a number adds is left to the caller.
Taken(p, t) ==
    IF t.unit = "T" THEN [p EXCEPT !.inTime = TRUE]
    ELSE [p EXCEPT !.frac = t.frac # <<>>, !.week = t.unit = "W", !.any = TRUE,
                   !.rank = IF t.unit = "W" THEN @ ELSE Rank(p.inTime, t.unit)]

ParseToken(p, t, atEnd) ==
    IF ~p.ok \/ Refuses(p, t, atEnd) THEN [p EXCEPT !.ok = FALSE]
    ELSE IF t.unit = "T" THEN Taken(p, t)
    ELSE [Taken(p, t) EXCEPT
             !.total = Plus(@, Amount(t.whole, Milli(t.frac), UnitMs(p.inTime, t.unit)))]

tw_parse_duration_ms(d) ==
    LET p == FoldLeftDomain(LAMBDA q, i : ParseToken(q, d[i], i = Len(d)), Fresh, d)
    IN  IF p.ok THEN p.total ELSE Invalid

-----------------------------------------------------------------------------
(* Taskweft.Iso8601Duration                                                *)

\* parse/1 collects components.  A fourth digit of a fraction is left in the
\* input, where the unit letter should be.  Crossing T resets the rank, and a
\* week's rank is above every other's.
ExRank(inTime, u) == IF u = "W" THEN 99 ELSE Rank(inTime, u)

ExFresh == [ok |-> TRUE, acc |-> <<>>, inTime |-> FALSE, frac |-> FALSE, rank |-> -1]

ExRefuses(p, t, atEnd) ==
    \/ p.frac
    \/ t.unit = "T" /\ (p.inTime \/ atEnd)
    \/ /\ t.unit # "T"
       /\ \/ t.unit = "W" /\ (p.acc # <<>> \/ p.inTime)
          \/ \E i \in DOMAIN p.acc : p.acc[i].unit = "W"
          \/ ~Known(p.inTime, t.unit) \/ Len(t.frac) > 3
          \/ ExRank(p.inTime, t.unit) <= p.rank

ExToken(p, t, atEnd) ==
    IF ~p.ok \/ ExRefuses(p, t, atEnd) THEN [p EXCEPT !.ok = FALSE]
    ELSE IF t.unit = "T" THEN [p EXCEPT !.inTime = TRUE, !.rank = -1]
    ELSE [p EXCEPT !.acc = Append(@, [unit |-> t.unit, inTime |-> p.inTime,
                                      whole |-> t.whole, milli |-> Milli(t.frac)]),
                   !.frac = t.frac # <<>>, !.rank = ExRank(p.inTime, t.unit)]

total_milliseconds(acc) ==
    FoldLeft(LAMBDA sum, c : Plus(sum, Amount(c.whole, c.milli, UnitMs(c.inTime, c.unit))), Zero, acc)

ExDuration(d) ==
    LET p == FoldLeftDomain(LAMBDA q, i : ExToken(q, d[i], i = Len(d)), ExFresh, d)
    IN  IF p.ok THEN total_milliseconds(p.acc) ELSE Invalid

-----------------------------------------------------------------------------
(* tw_format_duration_ms                                                   *)

Number(whole, frac, unit) == [whole |-> whole, frac |-> frac, unit |-> unit]

\* %03d without the zeros at its end.
Digits(milli) ==
    LET all == <<milli \div 100, (milli \div 10) % 10, milli % 10>>
        kept == {i \in 1 .. 3 : all[i] # 0}
    IN  SubSeq(all, 1, IF kept = {} THEN 0 ELSE Max(kept))

tw_format_duration_ms(time) ==
    LET h == 24 * time.day + time.ms \div 3600000
        m == (time.ms % 3600000) \div 60000
        s == (time.ms % 60000) \div 1000
        milli == time.ms % 1000
    IN  IF time.day < 0 THEN <<Number(0, <<>>, "T"), Number(0, <<>>, "S")>>
        ELSE <<Number(0, <<>>, "T")>>
             \o (IF h > 0 THEN <<Number(h, <<>>, "H")>> ELSE <<>>)
             \o (IF m > 0 THEN <<Number(m, <<>>, "M")>> ELSE <<>>)
             \o (IF s > 0 \/ milli > 0 \/ (h = 0 /\ m = 0)
                 THEN <<Number(s, Digits(milli), "S")>> ELSE <<>>)

-----------------------------------------------------------------------------
(* A duration is typed one token at a time.                                *)

DurationInit == dur = <<>>

Type ==
    /\ Len(dur) < MaxTokens
    /\ \/ \E u \in Letter \ {"T"}, w \in Wholes, f \in Fractions : dur' = Append(dur, Number(w, f, u))
       \/ dur' = Append(dur, Number(0, <<>>, "T"))

-----------------------------------------------------------------------------
(* Properties                                                              *)

\* What ISO 8601 allows: nothing, weeks alone, or years, months and days in
\* this order, then after T, if there is one, at least one of hours, minutes
\* and seconds in this order; a fraction on the last number only.
Canonical(d) ==
    LET tees == {i \in DOMAIN d : d[i].unit = "T"}
        Late(i) == \E t \in tees : t < i
        numbers == DOMAIN d \ tees
    IN  \/ Len(d) = 1 /\ d[1].unit = "W"
        \/ /\ \A i \in tees : tees = {i} /\ i < Len(d)
           /\ \A i \in numbers : d[i].unit \in IF Late(i) THEN {"H", "M", "S"} ELSE {"Y", "M", "D"}
           /\ \A i, j \in numbers : i < j /\ Late(i) = Late(j) =>
                 Rank(Late(i), d[i].unit) < Rank(Late(j), d[j].unit)
           /\ \A i \in numbers : d[i].frac # <<>> => i = Len(d)

\* "Canonical order Y, Mo, D, H, Mi, S, fractions on lowest-order unit only":
\* tw_parse_duration_ms takes exactly the canonical durations.  It "must match
\* this module's behaviour": it and the Elixir parser reject the same durations
\* and measure the others alike, as long as no fraction has more than three
\* digits.  What tw_format_duration_ms prints, both read back as the time it was
\* given.
DurationsAgree ==
    LET time == tw_parse_duration_ms(dur)
    IN  /\ time # Invalid <=> Canonical(dur)
        /\ (\A i \in DOMAIN dur : Len(dur[i].frac) <= 3) => ExDuration(dur) = time
        /\ time # Invalid => /\ tw_parse_duration_ms(tw_format_duration_ms(time)) = time
                             /\ ExDuration(tw_format_duration_ms(time)) = time
=============================================================================
