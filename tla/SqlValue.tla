------------------------------ MODULE SqlValue ------------------------------
(***************************************************************************)
(* class Value of sql/parser/value.cpp: typed values, their comparison,    *)
(* their casts and the arithmetic the aggregates use.                      *)
(*                                                                         *)
(* A value is [t |-> its AttrType, n |-> a number].  The number of INTS,   *)
(* BOOLEANS and DATES is the stored integer; of FLOATS it is the number of *)
(* halves; of CHARS and TEXTS it is the rank of the text in byte order,    *)
(* and Texts says what each text looks like to the conversions.            *)
(***************************************************************************)
EXTENDS Integers, Sequences, FiniteSetsExt

CONSTANTS
  Texts,  \* [rank -> [num |-> halves it starts with, plain |-> it is exactly
          \*           that number, date |-> <<year, month, day>> or <<>>]]
  Likes   \* the pairs <<text, pattern>> string_match accepts

VARIABLE junk  \* what reading an uninitialized number gives in this run

\* The text of rank 0 is the empty one: it parses as nothing, like any other.
ASSUME TextsAssumption ==
  /\ 0 \in DOMAIN Texts
  /\ \A s \in DOMAIN Texts : Texts[s].num \in Int /\ Texts[s].plain \in BOOLEAN
  /\ Texts[0].num = 0 /\ ~Texts[0].plain
  /\ Likes \subseteq (DOMAIN Texts) \X (DOMAIN Texts)

Null     == [t |-> "NULLS", n |-> 0]
IntV(i)  == [t |-> "INTS", n |-> i]
FloatV(h) == [t |-> "FLOATS", n |-> h]
CharsV(s) == [t |-> "CHARS", n |-> s]
DateV(d) == [t |-> "DATES", n |-> d]
BoolV(b) == [t |-> "BOOLEANS", n |-> IF b THEN 1 ELSE 0]
IsNull(v) == v.t = "NULLS"
IsText(v) == v.t \in {"CHARS", "TEXTS"}
Numeric == {"INTS", "FLOATS"}

-----------------------------------------------------------------------------
LeapYear(y) == y % 400 = 0 \/ (y % 4 = 0 /\ y % 100 # 0)
MonthDays == <<31, 28, 31, 30, 31, 30, 31, 31, 30, 31, 30, 31>>

\* check_date: day 0 is let through.
CheckDate(y, m, d) ==
  /\ y \in 0..3999 /\ m \in 1..12 /\ d \in 0..31
  /\ d <= MonthDays[m] \/ (LeapYear(y) /\ m = 2 /\ d = 29)

\* convert_string_to_date: sscanf leaves year, month and day uninitialized
\* when the text is not of the form it asks for.
ConvertStringToDate(s) ==
  LET f == Texts[s].date IN
  IF f = <<>> THEN IF junk = 0 THEN 10101 ELSE -1
  ELSE IF CheckDate(f[1], f[2], f[3]) THEN f[1] * 10000 + f[2] * 100 + f[3] ELSE -1

\* round(): halves away from zero.
Round(h) == IF h >= 0 THEN (h + 1) \div 2 ELSE -((1 - h) \div 2)

\* get_float, in halves.
GetFloat(v) ==
  CASE IsText(v) -> Texts[v.n].num
    [] v.t = "FLOATS" -> v.n
    [] OTHER -> 2 * v.n

\* get_int truncates.
GetInt(v) ==
  LET h == GetFloat(v) IN IF h >= 0 THEN h \div 2 ELSE -((-h) \div 2)

\* get_boolean: a text that is not a number, and the text "0", are true.
GetBoolean(v) ==
  CASE IsText(v) -> v.n # 0
    [] v.t \in {"NULLS", "DATES"} -> FALSE
    [] OTHER -> v.n # 0

\* type_cast: [ok, v].  A text that does not parse becomes 0; a date cast to
\* CHARS reads its empty str_value_ as a date.
TypeCast(v, target) ==
  LET done(w) == [ok |-> TRUE, v |-> w]
      decimal(h) == CHOOSE s \in DOMAIN Texts : Texts[s].plain /\ Texts[s].num = h
  IN CASE v.t = target -> done(v)
       [] target = "INTS" /\ v.t = "FLOATS" -> done(IntV(Round(v.n)))
       [] target = "INTS" /\ IsText(v) -> done(IntV(GetInt(v)))
       [] target = "FLOATS" /\ (v.t = "INTS" \/ IsText(v)) -> done(FloatV(GetFloat(v)))
       [] target = "CHARS" /\ v.t \in Numeric -> done(CharsV(decimal(GetFloat(v))))
       [] target = "CHARS" /\ v.t = "DATES" ->
            LET d == ConvertStringToDate(0) IN
            IF d = -1 THEN [ok |-> FALSE, v |-> v] ELSE done(DateV(d))
       [] target = "TEXTS" /\ v.t = "CHARS" -> done([v EXCEPT !.t = "TEXTS"])
       [] OTHER -> [ok |-> FALSE, v |-> v]

-----------------------------------------------------------------------------
Sign(d) == IF d < 0 THEN -1 ELSE IF d > 0 THEN 1 ELSE 0

\* The cmp_result of Value::compare for two values that are not null, {} when
\* the types cannot be compared.  A number on the left of a text is compared
\* with a fresh Value whose number nobody set, and on the wrong side:
\* "Value self, oppsite = *this, *other" makes oppsite the left operand.
CmpResult(l, op, r) ==
  CASE l.t = r.t /\ IsText(l) /\ op \in {"LIKE", "NOT_LIKE"} ->
         {IF <<l.n, r.n>> \in Likes THEN 0 ELSE 1}
    [] l.t = r.t -> {Sign(l.n - r.n)}
    [] l.t \in Numeric /\ r.t \in Numeric -> {Sign(GetFloat(l) - GetFloat(r))}
    [] l.t = "DATES" /\ r.t = "CHARS" -> {Sign(l.n - ConvertStringToDate(r.n))}
    [] l.t \in Numeric /\ r.t = "CHARS" -> {Sign(junk - GetFloat(l))}
    [] l.t = "CHARS" /\ r.t \in Numeric -> {Sign(GetFloat(l) - GetFloat(r))}
    [] OTHER -> {}

Accepts(op, c) ==
  CASE op \in {"EQUAL_TO", "LIKE"} -> c = 0
    [] op \in {"NOT_EQUAL", "NOT_LIKE"} -> c # 0
    [] op = "LESS_THAN" -> c < 0
    [] op = "LESS_EQUAL" -> c <= 0
    [] op = "GREAT_THAN" -> c > 0
    [] op = "GREAT_EQUAL" -> c >= 0
    [] OTHER -> FALSE

\* Value::compare.
Compare(l, op, r) ==
  CASE op = "IS" -> IsNull(l) /\ IsNull(r)
    [] op = "IS_NOT" -> l.t # r.t /\ IsNull(r)
    [] OTHER -> /\ ~IsNull(l) /\ ~IsNull(r)
                /\ \E c \in CmpResult(l, op, r) : Accepts(op, c)

\* Value::compare_value, the order of ORDER BY, IN, MAX and MIN: null is the
\* least value, values of different types are not ordered.
CompareValue(l, r) ==
  CASE l.t = r.t -> Sign(l.n - r.n)
    [] IsNull(l) -> -1
    [] IsNull(r) -> 1
    [] OTHER -> 2  \* NO_OP

\* operator+, and what it asserts of two values that are not null: the default
\* build has assert, and stops.
Addable(l, r) == IsNull(l) \/ IsNull(r) \/ {l.t, r.t} \subseteq Numeric
Add(l, r) ==
  CASE IsNull(l) \/ IsNull(r) -> Null
    [] l.t = "INTS" /\ r.t = "INTS" -> IntV(l.n + r.n)
    [] OTHER -> FloatV(GetFloat(l) + GetFloat(r))
=============================================================================
