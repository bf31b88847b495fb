---------------------------- MODULE SqlReference ----------------------------
(***************************************************************************)
(* What a statement should answer and change, computed from the parsed     *)
(* statement and the tables alone, and the properties that hold the stages *)
(* of SqlStatement against it.  Where the code departs from it, the        *)
(* departure has a name here and the properties say exactly when it may    *)
(* happen.                                                                 *)
(***************************************************************************)
EXTENDS SqlStatement

-----------------------------------------------------------------------------
(* The meaning of a statement.                                             *)

NameOf(item) == IF item.alias = "" THEN item.rel ELSE item.alias

\* The tables of a statement, in order, under the names its columns use.
Items(q) == q.from \o [i \in DOMAIN q.joins |-> [rel |-> q.joins[i].rel, alias |-> ""]]

\* A tuple for each choice of one row per table: a function of <<name, column>>.
RowOf(item, row) ==
  [x \in {<<NameOf(item), m.f>> : m \in Range(Schema[item.rel])} |-> row[x[2]]]
Product(q) ==
  FoldLeft(LAMBDA acc, item :
             FlattenSeq([i \in DOMAIN acc |->
               [j \in DOMAIN db0[item.rel] |-> RowOf(item, db0[item.rel][j]) @@ acc[i]]]),
           <<<<>>>>, Items(q))

\* A column of the statement, or else of the one around it.
Column(q, tuple, outer, t, f) ==
  LET own == {NameOf(x) : x \in Range(Items(q))}
      name == IF t # "" THEN t ELSE CHOOSE n \in own : <<n, f>> \in DOMAIN tuple
  IN IF name \in own THEN tuple[<<name, f>>] ELSE outer[<<name, f>>]

\* Two values are compared as numbers, dates or texts; nothing compares with
\* null.
Holds(l, op, r) ==
  LET number(v) == v.t \in Numeric
      date(v) == IF v.t = "DATES" THEN v.n ELSE ConvertStringToDate(v.n)
      by(x, y) == Accepts(op, Sign(x - y))
  IN CASE op = "IS" -> IsNull(l)
       [] op = "IS_NOT" -> ~IsNull(l)
       [] IsNull(l) \/ IsNull(r) -> FALSE
       [] op \in {"LIKE", "NOT_LIKE"} -> (<<l.n, r.n>> \in Likes) = (op = "LIKE")
       [] number(l) \/ number(r) -> by(GetFloat(l), GetFloat(r))
       [] l.t = "DATES" \/ r.t = "DATES" -> by(date(l), date(r))
       [] OTHER -> by(l.n, r.n)

RECURSIVE Selected(_, _)
FirstCells(rows) == [i \in DOMAIN rows |-> rows[i][1]]

\* The values an operand stands for.
Values(q, o, tuple, outer) ==
  CASE o.k = "FIELD" -> <<Column(q, tuple, outer, o.t, o.f)>>
    [] o.k = "VALUE" -> <<o.v>>
    [] o.k = "VALUELIST" -> o.vals
    [] OTHER -> FirstCells(Selected(o.q, tuple @@ outer))

\* An operator between the values of its two sides.
Relates(op, ls, rs) ==
  CASE op = "EXISTS" -> rs # <<>>
    [] op = "NOT_EXISTS" -> rs = <<>>
    [] op = "IN" -> \E r \in Range(rs) : Holds(ls[1], "EQUAL_TO", r)
    [] op = "NOT_IN" -> \A r \in Range(rs) : Holds(ls[1], "NOT_EQUAL", r)
    [] OTHER -> Len(ls) = 1 /\ Len(rs) = 1 /\ Holds(ls[1], op, rs[1])
Condition(q, c, tuple, outer) ==
  Relates(c.op, Values(q, c.l, tuple, outer), Values(q, c.r, tuple, outer))

Conditions(q) == q.conds \o FlattenSeq([i \in DOMAIN q.joins |-> q.joins[i].conds])
\* AND binds closer than OR.
Where(q, tuple, outer) ==
  LET cs == Conditions(q)
      starts == {1} \cup {i \in DOMAIN cs : cs[i].or}
  IN \E s \in starts : \A i \in DOMAIN cs :
       (i >= s /\ ~\E z \in starts : s < z /\ z <= i) => Condition(q, cs[i], tuple, outer)

\* One aggregate over the values of a column.
Summary(agg, vals, rows) ==
  LET known == {i \in DOMAIN vals : ~IsNull(vals[i])}
      sum == SumFunction([i \in known |-> GetFloat(vals[i])])
      extreme(c) == CHOOSE v \in {vals[i] : i \in known} :
                      \A i \in known : CompareValue(v, vals[i]) \in {0, c}
      exact == \A i \in known : vals[i].t = "INTS"
  IN CASE agg = "COUNT" -> IntV(Cardinality(known))
       [] agg = "COUNT_ALL" -> IntV(rows)
       [] known = {} -> Null
       [] agg = "MAX" -> extreme(1)
       [] agg = "MIN" -> extreme(-1)
       [] agg = "SUM" -> IF exact THEN IntV(sum \div 2) ELSE FloatV(sum)
       [] agg = "AVG" -> FloatV(sum \div Cardinality(known))

\* The rows a SELECT answers, for one tuple of the statement around it: made of
\* the tuples its conditions keep.
Answered(q, outer, kept) ==
  LET cells(t) ==
        IF q.attrs[1].f = "*"
        THEN FlattenSeq([i \in DOMAIN Items(q) |->
               LET item == Items(q)[i] IN
               [j \in DOMAIN Schema[item.rel] |-> t[<<NameOf(item), Schema[item.rel][j].f>>]]])
        ELSE [i \in DOMAIN q.attrs |-> Column(q, t, outer, q.attrs[i].t, q.attrs[i].f)]
      summary(a) ==
        Summary(IF a.f = "*" THEN "COUNT_ALL" ELSE a.agg,
                [i \in DOMAIN kept |-> IF a.f = "*" THEN Null
                                       ELSE Column(q, kept[i], outer, a.t, a.f)],
                Len(kept))
  IN IF q.attrs # <<>> THEN [i \in DOMAIN kept |-> cells(kept[i])]
     ELSE <<[i \in DOMAIN q.aggs |-> summary(q.aggs[i])]>>
Selected(q, outer) ==
  Answered(q, outer, SelectSeq(Product(q), LAMBDA t : Where(q, t, outer)))

\* The rows of the statement's table that its conditions pick.
Picked(q) ==
  LET item == q.from[1] IN
  {i \in DOMAIN db0[item.rel] : Where(q, RowOf(item, db0[item.rel][i]), <<>>)}

\* The values an UPDATE assigns, by column; the last assignment counts.
Assignments(q) ==
  LET value(t, f, vs) == IF vs = <<>> THEN Null ELSE Assigned(Meta(t, f), vs[1]).v
      last(f) == q.set[Max({i \in DOMAIN q.set : q.set[i].f = f})]
  IN [f \in {a.f : a \in Range(q.set)} |->
        value(q.from[1].rel, f, Values(q, last(f).e, <<>>, <<>>))]

\* The changes a statement should make, in order.
ChangesTo(q, t, picked, set) ==
  LET rids == SelectSeq([i \in DOMAIN db0[t] |-> i], LAMBDA i : i \in picked)
  IN CASE q.cmd = "INSERT" -> [i \in DOMAIN q.rows |->
                                 [rid |-> 0, row |-> MakeRecord(t, CreateInsert(q).x.rows[i])]]
       [] q.cmd = "UPDATE" /\ (\E f \in DOMAIN set : set[f] = DateV(-1)) -> <<>>
       [] q.cmd = "UPDATE" -> [i \in DOMAIN rids |-> [rid |-> rids[i], row |-> set @@ db0[t][rids[i]]]]
       [] OTHER -> [i \in DOMAIN rids |-> [rid |-> rids[i], row |-> <<>>]]
Changes(q) == ChangesTo(q, q.from[1].rel, Picked(q), Assignments(q))

\* The tables after these changes.
AfterChanges(t, cs) ==
  LET kept(i) == LET c == {j \in DOMAIN cs : cs[j].rid = i} IN
                 IF c = {} THEN db0[t][i] ELSE cs[CHOOSE j \in c : TRUE].row
      added == SelectSeq(cs, LAMBDA c : c.rid = 0)
  IN [db0 EXCEPT ![t] = SelectSeq([i \in DOMAIN db0[t] |-> kept(i)], LAMBDA r : r # <<>>)
                          \o [i \in DOMAIN added |-> added[i].row]]

-----------------------------------------------------------------------------
(* Where the code is known to depart from it.                              *)

Subqueries(q) ==
  {o.q : o \in {x \in {c.l : c \in Range(Conditions(q))} \cup {c.r : c \in Range(Conditions(q))}
                     \cup {a.e : a \in Range(q.set)} : x.k = "SUBQUERY"}}

Constant(u, b) == u.l.k = "VALUE" /\ u.r.k = "VALUE" /\ Compare(u.l.v, u.op, u.r.v) = b

\* A constant condition decides the conjunction, but one that is no constant
\* stands before it and takes its place.
DecidedByAnother(s) ==
  \E i, j \in DOMAIN s.units :
    /\ j < i /\ Constant(s.units[i], s.has_or)
    /\ ~\E b \in BOOLEAN : Constant(s.units[j], b)

\* A disjunction of false constants is emptied, and then true.
EmptiedOr(s) == s.has_or /\ \A u \in Range(s.units) : Constant(u, FALSE)

\* "column = subquery" is pushed down to the scan, which runs a subquery only
\* once and without a tuple.
PushedCorrelated(s) ==
  /\ Len(s.tables) = 1 /\ ~s.has_or
  /\ \E u \in Range(s.units) :
       /\ u.op = "EQUAL_TO" /\ {u.l.k, u.r.k} = {"FIELD", "SUBQUERY"}
       /\ \E o \in {u.l, u.r} : o.k = "SUBQUERY" /\ o.need

\* Value::compare and the casts before it know a text only on the right of a
\* date and on the left of a number.
WrongSide(s) ==
  \E u \in Range(s.units) :
    LET lt == OperandType(u.l) rt == OperandType(u.r) IN
    /\ u.op \notin {"EXISTS", "NOT_EXISTS"}
    /\ (lt \in Numeric /\ rt = "CHARS") \/ (lt = "CHARS" /\ rt = "DATES")

\* IN compares types as well as values, and null equals null.
NullOrMixedIn(q, s) ==
  \E i \in DOMAIN s.units :
    LET u == s.units[i]
        vals == IF u.r.k = "VALUELIST" THEN {v.t : v \in Range(u.r.vals)} ELSE {OperandType(u.r)}
    IN /\ u.op \in {"IN", "NOT_IN"}
       /\ \/ vals # {OperandType(u.l)}
          \/ u.l.k = "FIELD" /\ Meta(u.l.t, u.l.f).nullable
          \/ u.r.k = "SUBQUERY" /\ u.r.plan.arg[1].agg # "COUNT"

\* A table that a statement, or a subquery and the statement around it, names
\* twice is one table to the resolver.
SameTableTwice(q) ==
  LET rels(x) == {item.rel : item \in Range(Items(x))} IN
  \/ Cardinality(rels(q)) < Len(Items(q))
  \/ \E x \in Subqueries(q) :
       /\ rels(x) \cap rels(q) # {}
       /\ \E c \in Range(Conditions(x)) : \E o \in {c.l, c.r} :
            o.k = "FIELD" /\ o.t # "" /\ o.t \notin {NameOf(item) : item \in Range(Items(x))}

\* Only the second condition's connective is looked at.
MixedConnectives(q) ==
  \E i, j \in 2..Len(Conditions(q)) : Conditions(q)[i].or # Conditions(q)[j].or

\* The key's bytes are those of the literal, whatever the type of the column.
RECURSIVE OtherKey(_)
OtherKey(n) ==
  \/ n.op = "INDEX_SCAN" /\ \E p \in Range(n.key) : p.v.t # Meta(n.t, p.f).type
  \/ \E k \in Range(n.kids) : OtherKey(k)

\* The resolver takes a subquery for independent that compares a column of the
\* statement around it with a value; the failure to run it is lost when
\* another condition follows.
HiddenCorrelation(q) ==
  \E r \in {CreateSelect(x) : x \in Subqueries(q)} :
    r.rc = "SUCCESS" /\ ~NeedParentTuple(r.x.units)
      /\ \E u \in Range(r.x.units) : \E o \in {u.l, u.r} : o.k = "FIELD" /\ o.t \notin Range(r.x.tables)

StatementDeparts(q, s) ==
  \/ DecidedByAnother(s) \/ EmptiedOr(s) \/ PushedCorrelated(s) \/ WrongSide(s)
  \/ NullOrMixedIn(q, s) \/ HiddenCorrelation(q) \/ SameTableTwice(q) \/ MixedConnectives(q)
RECURSIVE Departs(_)
Departs(q) == StatementDeparts(q, CreateStmt(q).x) \/ \E x \in Subqueries(q) : Departs(x)

RECURSIVE Uses(_, _)
Uses(n, op) == n.op = op \/ \E k \in Range(n.kids) : Uses(k, op)

\* UPDATE through an index that moves the entries it is scanning.
MovesKey(q) ==
  Uses(plan, "INDEX_SCAN") /\ \E x \in indexes : Range(x.fields) \cap {a.f : a \in Range(q.set)} # {}
\* UPDATE that sets a column of a unique index to null.
NullsUnique(q, cs) ==
  \E x \in indexes : /\ x.unique /\ x.t = q.from[1].rel
                     /\ \E c \in Range(cs) : c.row # <<>> /\ \E f \in Range(x.fields) : IsNull(c.row[f])
\* UPDATE stores what convert_string_to_date returns for a text that is no date.
StoresBadDate(q) ==
  \E a \in Range(q.set) : /\ a.e.k = "VALUE" /\ IsText(a.e.v)
                          /\ Meta(q.from[1].rel, a.f).type = "DATES"
                          /\ Texts[a.e.v.n].date = <<>> \/ ConvertStringToDate(a.e.v.n) = -1

-----------------------------------------------------------------------------
(* Properties                                                              *)

\* A logical plan's rows, every table scanned from end to end.
RECURSIVE Scanning(_)
Scanning(n) ==
  IF n.op = "TABLE_SCAN" \/ n.op = "INDEX_SCAN" THEN [n EXCEPT !.op = "TABLE_SCAN", !.key = <<>>]
  ELSE [n EXCEPT !.kids = [i \in DOMAIN n.kids |-> Scanning(n.kids[i])]]
PlanRows(n) ==
  LET rows(o) == IF o.rc # "SUCCESS" THEN <<>> ELSE Drain(o.n).tuples
  IN rows(Open(Scanning(PhysicalPlan([n EXCEPT !.op = "PROJECTION"]))))

\* No round of the rewriter changes what the plan yields: simplifying
\* comparisons and conjunctions, dropping constant predicates and pushing
\* conditions down (rewriter.cpp and its rules) keep exactly the same tuples,
\* except for the departures named above.
RewriteKeepsMeaning ==
  (phase \in {"rewriting", "optimized"} /\ stmt.cmd # "INSERT"
     /\ ~DecidedByAnother(stmt) /\ ~EmptiedOr(stmt) /\ ~PushedCorrelated(stmt))
  => PlanRows(plan) = PlanRows(first)

SameRows(s1, s2) ==
  LET shown(v) == IF v.t = "INTS" THEN FloatV(2 * v.n) ELSE v
      row(r) == [i \in DOMAIN r |-> shown(r[i])]
      count(s, r) == Cardinality({i \in DOMAIN s : row(s[i]) = r})
  IN \A r \in {row(x) : x \in Range(s1) \cup Range(s2)} : count(s1, r) = count(s2, r)

Sorted(q) ==
  LET t == q.from[1].rel
      tuple(r) == [x \in {<<t, m.f>> : m \in Range(Schema[t])} |->
                     r[CHOOSE i \in DOMAIN Schema[t] : Schema[t][i].f = x[2]]]
      units == [i \in DOMAIN q.order |-> [q.order[i] EXCEPT !.t = t]]
  IN \A i \in 1..(Len(out) - 1) : ~OrderBefore(units, tuple(out[i + 1]), tuple(out[i]))

\* The rows written, against those the statement means.
AnswerIs(rows) ==
  /\ rc = "SUCCESS" => SameRows(out, rows) /\ (query.order # <<>> => Sorted(query))
  /\ disconnect => query.order # <<>> /\ rows = <<>>

\* A SELECT that succeeds answers the rows the statement means, as often as it
\* means them and in its order: through casts, rewriting, index or table scan,
\* joins, aggregates and subqueries, except for the named departures.  One that
\* loses its connection had an empty sorted result.
AnswerMatches ==
  (phase = "done" /\ stmt # <<>> /\ query.cmd = "SELECT" /\ ~Departs(query) /\ ~OtherKey(plan))
  => AnswerIs(Selected(query, <<>>))

\* The tables, against the changes the statement means.
ChangesAre(cs) ==
  \/ query.cmd = "UPDATE" /\ NullsUnique(query, cs)
  \/ \E k \in IF rc = "SUCCESS" THEN {Len(cs)} ELSE 0..Len(cs) :
       db = AfterChanges(query.from[1].rel, SubSeq(cs, 1, k))

\* INSERT, UPDATE and DELETE change exactly the rows the statement means, all
\* of them when they succeed and the first few when they fail: nothing takes
\* back what a failing statement has done.
ChangesMatch ==
  (phase = "done" /\ stmt # <<>> /\ query.cmd # "SELECT" /\ ~Departs(query) /\ ~OtherKey(plan)
     /\ ~MovesKey(query) /\ ~StoresBadDate(query))
  => ChangesAre(Changes(query))

\* SUM or AVG over a column of texts or dates, which the resolver lets through.
RECURSIVE SumsNoNumber(_)
SumsNoNumber(n) ==
  \/ n.op = "AGGREGATION" /\ \E e \in Range(n.arg) :
       e.agg \in {"SUM", "AVG"} /\ Meta(e.t, e.f).type \notin Numeric
  \/ \E k \in Range(n.kids) : SumsNoNumber(k)
  \/ \E s \in PlanSubs(n) : SumsNoNumber(s.plan)

\* A statement costs the process in two ways only: it sums a column that holds
\* no numbers (the assert of Value::operator+), or it has a subquery that scans
\* an index (its plan is closed once by the executor and again by
\* ~SubQueryExpr) or is run for each tuple and sorts (OrderPhysicalOperator is
\* never reset) or had its plan optimized away below the projection.
CrashesNamed ==
  phase = "crashed" =>
    \/ SumsNoNumber(plan)
    \/ \E s \in PlanSubs(plan) :
         \/ Uses(s.plan, "INDEX_SCAN")
         \/ s.need /\ (Uses(s.plan, "ORDER_BY") \/ s.plan.kids = <<>>)

\* What a round of rewriting can still take away.
RECURSIVE Weight(_)
Weight(e) ==
  CASE e.k = "VALUE" -> 1
    [] e.k = "CONJUNCTION" -> 1 + FoldLeft(LAMBDA x, k : x + Weight(k), 0, e.kids)
    [] OTHER -> 2
RECURSIVE PlanWeight(_)
PlanWeight(n) ==
  (IF n.op = "PREDICATE" THEN 1 + Weight(n.expr) ELSE 0)
    + FoldLeft(LAMBDA x, k : x + PlanWeight(k), 0, n.kids)

\* OptimizeStage::rewrite repeats as long as a rule reports a change: every such
\* round makes the conditions smaller, so that the loop comes to its end.
RewritingEnds ==
  phase \in {"rewriting", "optimized"} => rounds + PlanWeight(plan) <= PlanWeight(first) + 1

\* The rewriter as a whole: rounds that keep the plan's meaning, and an end.
RewriteSound == RewriteKeepsMeaning /\ RewritingEnds

\* Every statement does what it means: SELECT by its answer, the others by
\* what they leave in the tables.
StatementsMatch == AnswerMatches /\ ChangesMatch
=============================================================================
