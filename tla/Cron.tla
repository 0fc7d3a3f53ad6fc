-------------------------------- MODULE Cron --------------------------------
(***************************************************************************)
(* Cron expressions: parsing one into the sets of its values, and the      *)
(* search for the next minute at which it fires.                           *)
(*                                                                         *)
(* An expression is a sequence of fields, a field a sequence of list       *)
(* elements, and an element a record: its kind ("star", "range", "value"   *)
(* or "junk"), its values a and b (month and weekday names are the numbers *)
(* they stand for) and its step, 1 when it has none (stepped is FALSE).    *)
(* The calendar is a sequence of days with their month, day of month and   *)
(* day of week; all times are wall-clock times of one zone.                *)
(***************************************************************************)
EXTENDS Naturals, Sequences, FiniteSets, FiniteSetsExt

CONSTANTS
    Calendar,  \* the days of the search, each [month, dom, dow]
    MaxSearch  \* _MAX_SEARCH_DAYS

ASSUME CalendarAssumption ==
    /\ Calendar \in Seq([month : 1 .. 12, dom : 1 .. 31, dow : 0 .. 6])
    /\ MaxSearch \in Nat

Bounds == << <<0, 59>>, <<0, 23>>, <<1, 31>>, <<1, 12>>, <<0, 7>> >>
Error  == {}
Never  == <<>>

Element ==
    {e \in [kind : {"star", "range", "value", "junk"}, a : Nat, b : Nat, step : Nat,
            stepped : BOOLEAN] : ~e.stepped => e.step = 1}
Moment == Nat \X (0 .. 23) \X (0 .. 59)

Star        == [kind |-> "star", a |-> 0, b |-> 0, step |-> 1, stepped |-> FALSE]
Every(n)    == [Star EXCEPT !.step = n, !.stepped = TRUE]
Value(v)    == [Star EXCEPT !.kind = "value", !.a = v]
FromTo(a, b) == [Star EXCEPT !.kind = "range", !.a = a, !.b = b]
Stepped(e, n) == [e EXCEPT !.step = n, !.stepped = TRUE]
Junk        == [Star EXCEPT !.kind = "junk"]

-----------------------------------------------------------------------------
(* parse_cron                                                               *)

InBounds(v, lo, hi) == lo <= v /\ v <= hi

Stride(start, end, step) == {v \in start .. end : (v - start) % step = 0}

\* _expand_part: the values of one element; a syntax error has none.
Expand(e, lo, hi) ==
    IF e.stepped /\ e.step < 1 THEN Error
    ELSE CASE e.kind = "star" -> Stride(lo, hi, e.step)
           [] e.kind = "range" /\ InBounds(e.a, lo, hi) /\ InBounds(e.b, lo, hi) /\ e.a <= e.b ->
                Stride(e.a, e.b, e.step)
           [] e.kind = "value" /\ InBounds(e.a, lo, hi) /\ ~e.stepped -> {e.a}
           [] OTHER -> Error

\* _parse_field_values: one bad element, or none at all, spoils the field.
ParseField(field, lo, hi) ==
    LET parts == [i \in DOMAIN field |-> Expand(field[i], lo, hi)]
    IN  IF \E i \in DOMAIN field : parts[i] = Error THEN Error
        ELSE UNION {parts[i] : i \in DOMAIN field}

Literal(field) == field = <<Star>>

\* parse_cron: 7 is Sunday, as is 0; only a bare * leaves a day field open.
ParseCron(expr) ==
    LET values == [i \in DOMAIN expr |-> ParseField(expr[i], Bounds[i][1], Bounds[i][2])]
    IN  IF Len(expr) # 5 THEN [ok |-> FALSE]
        ELSE IF \E i \in 1 .. 5 : values[i] = Error THEN [ok |-> FALSE]
        ELSE [ok |-> TRUE, minutes |-> values[1], hours |-> values[2],
              days |-> values[3], months |-> values[4],
              weekdays |-> {v % 7 : v \in values[5]},
              domStar |-> Literal(expr[3]), dowStar |-> Literal(expr[5])]

-----------------------------------------------------------------------------
(* CronSpec.next_fire                                                       *)

\* Mutant: both day fields must match, whatever is left open.
DayMatchesBoth(spec, day) == day.dom \in spec.days /\ day.dow \in spec.weekdays

\* _day_matches: two restricted fields match as an or, an open one gives way.
DayMatches(spec, day) ==
    LET domOk == day.dom \in spec.days
        dowOk == day.dow \in spec.weekdays
    IN  CASE spec.domStar /\ spec.dowStar -> TRUE
          [] spec.domStar /\ ~spec.dowStar -> dowOk
          [] ~spec.domStar /\ spec.dowStar -> domOk
          [] OTHER -> domOk \/ dowOk

\* A moment is <<index of its day, hour, minute>>.
Later(s, t) == \/ s[1] > t[1]
               \/ s[1] = t[1] /\ (s[2] > t[2] \/ (s[2] = t[2] /\ s[3] > t[3]))

Searched(after) == {d \in DOMAIN Calendar : after[1] <= d /\ d < after[1] + MaxSearch}

\* The hours of a day that still have a matching minute after the given moment.
HoursLeft(spec, d, after) ==
    {h \in spec.hours : \E mi \in spec.minutes : Later(<<d, h, mi>>, after)}

\* The first day, its first hour, its first minute; bounded by the window.
NextFire(spec, after) ==
    LET days == {d \in Searched(after) :
                   /\ Calendar[d].month \in spec.months
                   /\ DayMatches(spec, Calendar[d])
                   /\ HoursLeft(spec, d, after) # {}}
    IN  IF days = {} THEN Never
        ELSE LET d == Min(days)
                 h == Min(HoursLeft(spec, d, after))
             IN  <<d, h, Min({mi \in spec.minutes : Later(<<d, h, mi>>, after)})>>

-----------------------------------------------------------------------------
(* What an expression means, read off its text                              *)

Legal(e, lo, hi) ==
    /\ e.kind # "junk"
    /\ e.kind # "star" => lo <= e.a /\ e.a <= hi
    /\ e.kind = "range" => e.a <= e.b /\ e.b <= hi
    /\ e.kind = "value" => ~e.stepped
    /\ e.step # 0

LegalCron(expr) ==
    Len(expr) = 5 /\
    \A i \in 1 .. 5 : expr[i] # <<>> /\
        \A j \in DOMAIN expr[i] : Legal(expr[i][j], Bounds[i][1], Bounds[i][2])

NamedBy(e, lo, v) ==
    CASE e.kind = "star"  -> (v - lo) % e.step = 0
      [] e.kind = "range" -> e.a <= v /\ v <= e.b /\ (v - e.a) % e.step = 0
      [] OTHER            -> v = e.a

Names(field, lo, v) == \E j \in DOMAIN field : NamedBy(field[j], lo, v)

\* The day fields: an open one does not count; of two restricted ones either does.
MeansDay(expr, day) ==
    LET dom == Names(expr[3], 1, day.dom)
        dow == Names(expr[5], 0, day.dow) \/ (day.dow = 0 /\ Names(expr[5], 0, 7))
    IN  IF Literal(expr[3]) \/ Literal(expr[5]) THEN dom /\ dow ELSE dom \/ dow

Means(expr, t) ==
    /\ Names(expr[4], 1, Calendar[t[1]].month) /\ MeansDay(expr, Calendar[t[1]])
    /\ Names(expr[2], 0, t[2]) /\ Names(expr[1], 0, t[3])

\* fire is the first moment after the given one that the expression means.
FirstMeant(expr, after, fire) ==
    /\ fire # Never => Means(expr, fire) /\ Later(fire, after)
    /\ \A d \in Searched(after) :
         (fire # Never => d <= fire[1]) /\ Names(expr[4], 1, Calendar[d].month)
           /\ MeansDay(expr, Calendar[d]) =>
         \A h \in 0 .. 23 : Names(expr[2], 0, h) =>
           \A mi \in 0 .. 59 : Names(expr[1], 0, mi) =>
             ~Later(<<d, h, mi>>, after) \/ (fire # Never /\ ~Later(fire, <<d, h, mi>>))
=============================================================================
