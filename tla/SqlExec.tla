------------------------------ MODULE SqlExec -------------------------------
(***************************************************************************)
(* The physical operators: open, next, close of each, the expressions they *)
(* evaluate, and the subqueries these run.  An operator is a plan node of  *)
(* SqlPlan with its own state in it; each call gives [n, rc], the node it  *)
(* leaves behind and its return code.  "CRASH" is undefined behaviour, or  *)
(* a failing assert, that ends the process.                                *)
(*                                                                         *)
(* A tuple is a function from <<table, column>> to values; an aggregate's  *)
(* result is under <<function, table, column>>.  Looking up what is not in *)
(* its domain is NOTFOUND.                                                 *)
(***************************************************************************)
EXTENDS SqlPlan, TLC

RidField == "rid"

\* RowTuple over row i of table t, with the row's place.
RowTuple(t, i) ==
  [x \in {<<t, m.f>> : m \in Range(Schema[t])} |-> db[t][i][x[2]]]
    @@ (<<t, RidField>> :> IntV(i))

\* JoinedTuple::find_cell and CompoundTuple::find_cell: the left one first.
JoinedTuple(l, r) == l @@ r

\* TupleCellSpec
Spec(e) == IF e.agg = "" THEN <<e.t, e.f>> ELSE <<e.agg, e.t, e.f>>

-----------------------------------------------------------------------------
(* get_value of expressions: [rc, v].                                      *)

Got(v) == [rc |-> "SUCCESS", v |-> v]
Missed(rc) == [rc |-> rc, v |-> Null]

\* FieldExpr, ValueExpr, ValueListExpr::get_value
OperandValue(o, tuple) ==
  CASE o.k = "FIELD" -> IF <<o.t, o.f>> \in DOMAIN tuple THEN Got(tuple[<<o.t, o.f>>])
                        ELSE Missed("NOTFOUND")
    [] o.k = "VALUE" -> Got(o.v)
    [] OTHER -> CASE o.vals = <<>> -> Got(Null)
                  [] Len(o.vals) = 1 -> Got(o.vals[1])
                  [] OTHER -> Missed("INTERNAL")

\* ComparisonExpr::get_value
ComparisonValue(e, tuple) ==
  LET l == OperandValue(e.l, tuple)
      r == OperandValue(e.r, tuple)
  IN CASE l.rc # "SUCCESS" -> l
       [] r.rc # "SUCCESS" -> r
       [] OTHER -> Got(BoolV(Compare(l.v, e.op, r.v)))

\* InExpr::get_value: ValueListExpr::contains uses Value's operator==.
ContainsValue(vals, v) == \E i \in DOMAIN vals : CompareValue(vals[i], v) = 0

InValue(e, tuple) ==
  LET l == OperandValue(e.l, tuple)
  IN IF l.rc # "SUCCESS" THEN l
     ELSE Got(BoolV(ContainsValue(e.r.vals, l.v) # (e.op = "NOT_IN")))

\* ExistsExpr::try_get_value
ExistsValue(e) == Got(BoolV((e.r.vals # <<>>) # (e.op = "NOT_EXISTS")))

\* ConjunctionExpr::get_value, and the loop of filter(): the first child that
\* fails or decides.
RECURSIVE ExprValue(_, _)
ExprValue(e, tuple) ==
  CASE e.k = "COMPARISON" -> ComparisonValue(e, tuple)
    [] e.k = "IN" -> InValue(e, tuple)
    [] e.k = "EXISTS" -> ExistsValue(e)
    [] e.k = "CONJUNCTION" ->
         LET value(i) == ExprValue(e.kids[i], tuple)
             decides == {i \in DOMAIN e.kids :
                           \/ value(i).rc # "SUCCESS"
                           \/ GetBoolean(value(i).v) # e.and}
         IN CASE e.kids = <<>> -> Got(BoolV(TRUE))
              [] decides = {} -> Got(BoolV(e.and))
              [] value(Min(decides)).rc # "SUCCESS" -> value(Min(decides))
              [] OTHER -> Got(BoolV(~e.and))
    [] OTHER -> OperandValue(e, tuple)

\* filter() of the two scans
FilterValue(preds, tuple) ==
  ExprValue([k |-> "CONJUNCTION", and |-> TRUE, kids |-> preds], tuple)

-----------------------------------------------------------------------------
(* AggregationTuple                                                        *)

AddAll(vals, zero) == FoldLeft(Add, zero, vals)
Better(op, x, y) == IF op = "MAX" THEN IF CompareValue(x, y) = -1 THEN y ELSE x
                    ELSE IF CompareValue(y, x) = -1 THEN y ELSE x

\* do_aggregation_begin, do_aggregation over every tuple, do_aggregation_end.
Aggregate(e, tuples) ==
  LET all == [i \in DOMAIN tuples |-> tuples[i][<<e.t, e.f>>]]
      vals == SelectSeq(all, LAMBDA v : ~IsNull(v))
      sum == AddAll(vals, IF vals[1].t = "INTS" THEN IntV(0) ELSE FloatV(0))
      n == Len(vals)
  IN CASE e.agg = "COUNT_ALL" -> IntV(Len(tuples))
       [] e.agg = "COUNT" -> IntV(n)
       [] vals = <<>> -> Null
       [] e.agg \in {"MAX", "MIN"} ->
            FoldLeft(LAMBDA x, y : Better(e.agg, x, y), vals[1], vals)
       [] e.agg = "SUM" -> sum
       [] e.agg = "AVG" ->
            IF sum.t = "INTS"
            THEN IF sum.n % n = 0 THEN IntV(sum.n \div n) ELSE FloatV((2 * sum.n) \div n)
            ELSE FloatV(sum.n \div n)

AggregationTuple(exprs, tuples) ==
  [x \in {Spec(exprs[i]) : i \in DOMAIN exprs} |->
     Aggregate(exprs[CHOOSE i \in DOMAIN exprs : Spec(exprs[i]) = x], tuples)]

\* The sum of SUM and AVG starts as a number; the assert of operator+ fails at
\* the first value added to it that is none.
SumAsserts(exprs, tuples) ==
  \A e \in Range(exprs), tuple \in Range(tuples) :
    e.agg \in {"SUM", "AVG"} => Addable(FloatV(0), tuple[<<e.t, e.f>>])

-----------------------------------------------------------------------------
(* Helpers of the operators.                                               *)

Answer(n, rc) == [n |-> n, rc |-> rc]
WithKid(n, k) == [n EXCEPT !.kids[1] = k]

\* The bytes of a key: values of different types are the same bytes only when
\* they are all zero.
KeyEqual(v, w) == v.n = w.n /\ (v.t = w.t \/ v.n = 0)

\* The rows an operator's scanner walks: all of them, or those whose key is
\* the one in ukey, where a column named twice keeps its last value.
ScannedRows(n) ==
  LET last(f) == n.key[Max({i \in DOMAIN n.key : n.key[i].f = f})].v
      hit(i) == \A j \in DOMAIN n.key : KeyEqual(db[n.t][i][n.key[j].f], last(n.key[j].f))
  IN SelectSeq([i \in DOMAIN db[n.t] |-> i], hit)

\* Tuples that are compared by OrderPhysicalOperator's comprule.
OrderBefore(units, x, y) ==
  LET c(i) == CompareValue(x[<<units[i].t, units[i].f>>], y[<<units[i].t, units[i].f>>])
      decides == {i \in DOMAIN units : c(i) \in {-1, 1}}
  IN decides # {} /\ (c(Min(decides)) = -1) = units[Min(decides)].asc

\* PhysicalOperator::set_parent_tuple along the first children; a projection
\* that lost its child has none to pass the tuple to.
RECURSIVE SetParentTuple(_, _)
SetParentTuple(n, tuple) ==
  CASE n.op \in {"TABLE_SCAN", "INDEX_SCAN"} -> Answer([n EXCEPT !.parent = tuple], "SUCCESS")
    [] n.kids = <<>> -> Answer(n, IF n.op = "PROJECTION" THEN "CRASH" ELSE "SUCCESS")
    [] OTHER ->
         LET r == SetParentTuple(n.kids[1], tuple)
             m == IF n.op = "PREDICATE" THEN [n EXCEPT !.parent = tuple] ELSE n
         IN Answer(WithKid(m, r.n), r.rc)

\* current_tuple of an operator.
RECURSIVE CurrentTuple(_)
CurrentTuple(n) ==
  IF n.op \in {"PREDICATE", "PROJECTION"} THEN CurrentTuple(n.kids[1]) ELSE n.cur

\* PlainCommunicator's and the executor's reading of a projected tuple.
ProjectedRow(n) == [i \in DOMAIN n.arg |-> CurrentTuple(n)[Spec(n.arg[i])]]

\* The calls that lead to one another: an operator opens, reads and closes its
\* children, evaluates expressions, and these run the plans of subqueries.
RECURSIVE Call(_, _, _)
Open(n) == Call("open", n, NoTuple)
NextOf(n) == Call("next", n, NoTuple)
Close(n) == Call("close", n, NoTuple)
Drain(n) == Call("drain", n, <<>>)
DoExpr(e, tuple) == Call("expr", e, tuple)
DoSubquery(o, tuple) == Call("subquery", o, tuple)

-----------------------------------------------------------------------------
(* Subqueries                                                              *)

\* The loop of SubQueryExpr::executor, and of the operators that read all of
\* their child: every tuple until the return code is not SUCCESS.
DrainLoop(n, tuples) ==
  LET r == NextOf(n) IN
  IF r.rc # "SUCCESS" THEN [n |-> r.n, rc |-> r.rc, tuples |-> tuples]
  ELSE IF CurrentTuple(r.n) = NoTuple THEN [n |-> r.n, rc |-> "INTERNAL", tuples |-> tuples]
  ELSE Call("drain", r.n, Append(tuples, CurrentTuple(r.n)))

\* SubQueryExpr::executor.  On an error the plan stays open.
Executor(s, tuple) ==
  LET p == IF s.need /\ tuple # NoTuple THEN SetParentTuple(s.plan, tuple)
           ELSE Answer(s.plan, "SUCCESS")
      o == Open(p.n)
      d == Drain(o.n)
      c == Close(d.n)
      left(n, vals) == [s EXCEPT !.plan = n, !.vals = vals]
      cell == Spec(s.plan.arg[1])
      vals == [i \in DOMAIN d.tuples |-> d.tuples[i][cell]]
  IN CASE ~s.need /\ s.fin -> Answer(s, "SUCCESS")
       [] p.rc # "SUCCESS" -> Answer(s, p.rc)
       [] o.rc # "SUCCESS" -> Answer(left(o.n, <<>>), o.rc)
       [] d.tuples # <<>> /\ Len(s.plan.arg) # 1 -> Answer(left(d.n, <<>>), "INTERNAL")
       [] d.rc # "RECORD_EOF" -> Answer(left(d.n, vals), d.rc)
       [] OTHER -> Answer([left(c.n, vals) EXCEPT !.fin = TRUE], c.rc)

\* do_subquery_expr: one that needs the parent's tuple waits for it.
DoSubqueryExpr(o, tuple) ==
  IF o.k # "SUBQUERY" \/ (o.need /\ tuple = NoTuple) THEN Answer(o, "SUCCESS")
  ELSE Executor(o, tuple)

\* do_comparison_expr, do_in_expr, do_exists_expr: the right side's return code
\* replaces the left's; only a comparison minds how many values there are.
DoSides(e, tuple) ==
  LET l == DoSubquery(e.l, tuple)
      r == DoSubquery(e.r, tuple)
      many(x) == e.k = "COMPARISON" /\ x.n.k = "SUBQUERY" /\ Len(x.n.vals) > 1
  IN CASE e.k # "EXISTS" /\ l.rc = "CRASH" -> Answer(e, "CRASH")
       [] many(l) -> Answer([e EXCEPT !.l = l.n], "INTERNAL")
       [] many(r) -> Answer([e EXCEPT !.l = l.n, !.r = r.n], "INTERNAL")
       [] OTHER -> Answer([e EXCEPT !.l = l.n, !.r = r.n],
                          IF e.r.k = "SUBQUERY" \/ e.k = "EXISTS" THEN r.rc ELSE l.rc)

\* do_expr, do_conjunction_expr: every child runs; the last one's return code
\* is the answer.
DoExpression(e, tuple) ==
  CASE e.k \in {"COMPARISON", "IN", "EXISTS"} -> DoSides(e, tuple)
    [] e.k = "CONJUNCTION" ->
         FoldLeft(LAMBDA acc, c :
                    LET r == DoExpr(c, tuple) IN
                    IF acc.rc = "CRASH" THEN acc
                    ELSE Answer([acc.n EXCEPT !.kids = Append(@, r.n)],
                                IF c.k = "VALUE" THEN acc.rc ELSE r.rc),
                  Answer([e EXCEPT !.kids = <<>>], "SUCCESS"), e.kids)
    [] OTHER -> Answer(e, "SUCCESS")

\* The loop over predicates_ in the open() of both scans.
DoPreds(preds) ==
  LET r == DoExpr([k |-> "CONJUNCTION", and |-> TRUE, kids |-> preds], NoTuple)
  IN Answer(r.n.kids, r.rc)

-----------------------------------------------------------------------------
(* open                                                                    *)

\* Mutant: a subquery's failure ends open() before the scanner is kept.
OpenScanLate(n) ==
  LET r == DoPreds(n.preds) IN
  Answer([n EXCEPT !.buf = ScannedRows(n), !.pos = 0, !.open = r.rc = "SUCCESS", !.preds = r.n], r.rc)

OpenScan(n) ==
  LET r == DoPreds(n.preds) IN
  Answer([n EXCEPT !.buf = ScannedRows(n), !.pos = 0, !.open = TRUE, !.preds = r.n], r.rc)

\* What the child's open() returns is forgotten.
OpenPredicate(n) ==
  LET c == Open(n.kids[1])
      r == DoExpr(n.expr, NoTuple)
  IN IF c.rc = "CRASH" THEN c
     ELSE Answer([WithKid(n, c.n) EXCEPT !.expr = r.n], r.rc)

\* flag is round_done_, open is ~right_closed_.
OpenJoin(n) ==
  LET c == Open(n.kids[1]) IN
  Answer([WithKid(n, c.n) EXCEPT !.flag = TRUE, !.open = FALSE], c.rc)

\* The value an UPDATE assigns to column m: [ok, v].
Assigned(m, v) ==
  CASE IsNull(v) -> [ok |-> m.nullable, v |-> v]
    [] m.type = "DATES" /\ v.t = "CHARS" -> [ok |-> TRUE, v |-> DateV(ConvertStringToDate(v.n))]
    [] OTHER -> TypeCast(v, m.type)

\* UpdatePhysicalOperator::open; pos becomes 1 for invalid_value_list_, flag is
\* has_unique_index_, set when a column of a unique index becomes null.
OpenUpdate(n) ==
  LET c == Open(n.kids[1])
      subs == [i \in DOMAIN n.arg |-> DoSubquery(n.arg[i].e, NoTuple)]
      failed == {i \in DOMAIN n.arg : subs[i].rc # "SUCCESS"}
      given(i) == LET o == subs[i].n IN
                  CASE o.k = "VALUE" -> o.v
                    [] o.vals = <<>> -> Null
                    [] OTHER -> o.vals[1]
      many(i) == subs[i].n.k # "VALUE" /\ Len(subs[i].n.vals) > 1
      a == [i \in DOMAIN n.arg |-> Assigned(Meta(n.t, n.arg[i].f), given(i))]
      bad == \E i \in DOMAIN n.arg : many(i) \/ ~a[i].ok
      nulls == {n.arg[i].f : i \in {j \in DOMAIN n.arg : IsNull(a[j].v)}}
  IN CASE n.kids = <<>> -> Answer(n, "SUCCESS")
       [] c.rc # "SUCCESS" -> Answer(WithKid(n, c.n), c.rc)
       [] failed # {} -> Answer(WithKid(n, c.n), subs[Min(failed)].rc)
       [] OTHER ->
            Answer([WithKid(n, c.n) EXCEPT
                      !.arg = [i \in DOMAIN n.arg |-> [n.arg[i] EXCEPT !.e = subs[i].n]],
                      !.key = [i \in DOMAIN n.arg |-> [f |-> n.arg[i].f, v |-> a[i].v]],
                      !.pos = IF bad THEN 1 ELSE 0,
                      !.flag = \E x \in indexes : x.t = n.t /\ x.unique /\ Range(x.fields) \cap nulls # {}],
                   "SUCCESS")

OpenOperator(n) ==
  CASE n.op \in {"TABLE_SCAN", "INDEX_SCAN"} -> OpenScan(n)
    [] n.op = "PREDICATE" -> OpenPredicate(n)
    [] n.op = "JOIN" -> OpenJoin(n)
    [] n.op = "UPDATE" -> OpenUpdate(n)
    [] n.kids = <<>> -> Answer(n, "SUCCESS")
    [] OTHER -> LET c == Open(n.kids[1]) IN Answer(WithKid(n, c.n), c.rc)

-----------------------------------------------------------------------------
(* next                                                                    *)

\* The two scans: the next row the predicates let through.
NextScan(n) ==
  LET row(j) == RowTuple(n.t, n.buf[j])
      value(j) == FilterValue(n.preds, IF n.parent = NoTuple THEN row(j)
                                       ELSE JoinedTuple(n.parent, row(j)))
      stops == {j \in (n.pos + 1)..Len(n.buf) :
                  value(j).rc # "SUCCESS" \/ GetBoolean(value(j).v)}
      j == Min(stops)
  IN CASE stops = {} -> Answer([n EXCEPT !.pos = Len(n.buf)], "RECORD_EOF")
       [] value(j).rc # "SUCCESS" -> Answer([n EXCEPT !.pos = j], value(j).rc)
       [] OTHER -> Answer([n EXCEPT !.pos = j, !.cur = row(j)], "SUCCESS")

\* PredicatePhysicalOperator::next
RECURSIVE NextPredicate(_)
NextPredicate(n) ==
  LET c == NextOf(n.kids[1])
      cur == CurrentTuple(c.n)
      tuple == IF n.parent = NoTuple THEN cur ELSE JoinedTuple(n.parent, cur)
      d == DoExpr(n.expr, tuple)
      v == ExprValue(d.n, tuple)
      m == [WithKid(n, c.n) EXCEPT !.expr = d.n]
  IN CASE c.rc # "SUCCESS" -> Answer(WithKid(n, c.n), c.rc)
       [] cur = NoTuple -> Answer(WithKid(n, c.n), "INTERNAL")
       [] d.rc # "SUCCESS" -> Answer(m, d.rc)
       [] v.rc # "SUCCESS" -> Answer(m, v.rc)
       [] GetBoolean(v.v) -> Answer(m, "SUCCESS")
       [] OTHER -> NextPredicate(m)

\* right_next of the join
RightNext(n) ==
  LET closed == IF n.flag /\ n.open THEN Close(n.kids[2]) ELSE Answer(n.kids[2], "SUCCESS")
      opened == IF n.flag THEN Open(closed.n) ELSE Answer(n.kids[2], "SUCCESS")
      r == NextOf(opened.n)
      m == [n EXCEPT !.kids[2] = r.n, !.open = TRUE, !.flag = r.rc = "RECORD_EOF",
                     !.cur = IF r.rc = "SUCCESS" THEN JoinedTuple(n.left, CurrentTuple(r.n)) ELSE @]
  IN CASE closed.rc # "SUCCESS" -> Answer(n, closed.rc)
       [] opened.rc # "SUCCESS" -> Answer([n EXCEPT !.kids[2] = opened.n], opened.rc)
       [] OTHER -> Answer(m, r.rc)

\* left_next, then the first tuple of the right side for it: an end of file
\* there is the join's own.
StepJoin(n) ==
  LET l == NextOf(n.kids[1]) IN
  IF l.rc # "SUCCESS" THEN Answer(WithKid(n, l.n), l.rc)
  ELSE RightNext([WithKid(n, l.n) EXCEPT !.left = CurrentTuple(l.n)])

NextJoin(n) ==
  LET r == RightNext(n) IN
  IF n.flag THEN StepJoin(n)
  ELSE IF r.rc # "RECORD_EOF" THEN r ELSE StepJoin(r.n)

\* OrderPhysicalOperator::next: the first call reads and sorts everything and
\* succeeds whatever it found; once the end was reached a further call moves
\* the iterator beyond it.  Nothing is reset by open or close.
NextOrder(n) ==
  LET d == Drain(n.kids[1])
      sorted == SortSeq(d.tuples, LAMBDA x, y : OrderBefore(n.arg, x, y))
      m == [n EXCEPT !.kids[1] = d.n, !.buf = sorted, !.flag = TRUE, !.pos = 1,
                     !.cur = IF sorted = <<>> THEN NoTuple ELSE sorted[1]]
  IN CASE ~n.flag -> Answer(m, IF d.rc = "CRASH" THEN "CRASH" ELSE "SUCCESS")
       [] n.buf = <<>> -> Answer(n, "RECORD_EOF")
       [] n.pos > Len(n.buf) -> Answer(n, "CRASH")
       [] n.pos = Len(n.buf) -> Answer([n EXCEPT !.pos = @ + 1], "RECORD_EOF")
       [] OTHER -> Answer([n EXCEPT !.pos = @ + 1, !.cur = n.buf[n.pos + 1]], "SUCCESS")

\* AggrePhysicalOperator::next: one tuple; flag is is_record_eof.
NextAggregation(n) ==
  LET d == Drain(n.kids[1])
      result == [n EXCEPT !.flag = TRUE, !.cur = AggregationTuple(n.arg, d.tuples)]
  IN CASE n.flag -> Answer(n, "RECORD_EOF")
       [] n.kids = <<>> -> Answer([n EXCEPT !.flag = TRUE, !.cur = AggregationTuple(n.arg, <<>>)], "SUCCESS")
       [] ~SumAsserts(n.arg, d.tuples) -> Answer(n, "CRASH")
       [] d.rc = "RECORD_EOF" -> Answer(WithKid(result, d.n), "SUCCESS")
       [] OTHER -> Answer(WithKid(n, d.n), d.rc)

Rid(n) == CurrentTuple(n.kids[1])[<<n.t, RidField>>].n

\* update_record takes the row's entry out of the index being scanned and puts
\* one with the new key in.  When that one is not before the old one's place,
\* the next entry has moved into it, and the scanner steps past it.
EntryMoves(n, old, new) ==
  LET x == CHOOSE i \in FindIndexByFields(n.t, {n.key[j].f : j \in DOMAIN n.key}) : TRUE
      differ == {j \in DOMAIN x.fields : old[x.fields[j]] # new[x.fields[j]]}
      f == x.fields[Min(differ)]
  IN differ # {} /\ (\/ \E g \in Range(x.fields) : IsNull(new[g])
                     \/ CompareValue(old[f], new[f]) = -1)
RECURSIVE PassOver(_, _, _)
PassOver(n, old, new) ==
  CASE n.op = "INDEX_SCAN" -> IF EntryMoves(n, old, new) THEN [n EXCEPT !.pos = @ + 1] ELSE n
    [] n.op = "PREDICATE" -> WithKid(n, PassOver(n.kids[1], old, new))
    [] OTHER -> n

\* UpdatePhysicalOperator::next: buf collects what trx_->update_record is given.
\* With a column of a unique index set to null, a second row is an error and
\* the tuple is the child's current one after its end of file.
RECURSIVE NextUpdate(_)
NextUpdate(n) ==
  LET c == NextOf(n.kids[1])
      c2 == NextOf(c.n)
      m == WithKid(n, IF n.flag THEN c2.n ELSE c.n)
      values == [f \in {n.key[i].f : i \in DOMAIN n.key} |->
                   n.key[Max({i \in DOMAIN n.key : n.key[i].f = f})].v]
      old == db[n.t][Rid(m)]
      new == values @@ old
      changed == [WithKid(m, PassOver(m.kids[1], old, new)) EXCEPT
                    !.buf = Append(@, [rid |-> Rid(m), row |-> new])]
  IN CASE n.kids = <<>> -> Answer(n, "RECORD_EOF")
       [] c.rc = "CRASH" -> Answer(n, "CRASH")
       [] c.rc # "SUCCESS" -> Answer(WithKid(n, c.n), "RECORD_EOF")
       [] n.pos = 1 -> Answer(WithKid(n, c.n), "INTERNAL")
       [] n.flag /\ c2.rc = "SUCCESS" -> Answer(m, "RECORD_DUPLICATE_KEY")
       [] OTHER -> NextUpdate(changed)

\* Mutant: DELETE does not tell the index scan to stay (set_idx_increase).
RECURSIVE NextDeleteSkipping(_)
NextDeleteSkipping(n) ==
  LET c == NextOf(n.kids[1])
      k == IF c.n.op = "INDEX_SCAN" THEN [c.n EXCEPT !.pos = @ + 1] ELSE c.n
      m == WithKid(n, k)
  IN CASE n.kids = <<>> -> Answer(n, "RECORD_EOF")
       [] c.rc = "CRASH" -> Answer(n, "CRASH")
       [] c.rc # "SUCCESS" -> Answer(m, "RECORD_EOF")
       [] OTHER -> NextDeleteSkipping([m EXCEPT !.buf = Append(@, [rid |-> Rid(m), row |-> <<>>])])

\* DeletePhysicalOperator::next
RECURSIVE NextDelete(_)
NextDelete(n) ==
  LET c == NextOf(n.kids[1])
      m == WithKid(n, c.n)
  IN CASE n.kids = <<>> -> Answer(n, "RECORD_EOF")
       [] c.rc = "CRASH" -> Answer(n, "CRASH")
       [] c.rc # "SUCCESS" -> Answer(m, "RECORD_EOF")
       [] OTHER -> NextDelete([m EXCEPT !.buf = Append(@, [rid |-> Rid(m), row |-> <<>>])])

NextOperator(n) ==
  CASE n.op \in {"TABLE_SCAN", "INDEX_SCAN"} -> NextScan(n)
    [] n.op = "PREDICATE" -> NextPredicate(n)
    [] n.op = "JOIN" -> NextJoin(n)
    [] n.op = "ORDER_BY" -> NextOrder(n)
    [] n.op = "AGGREGATION" -> NextAggregation(n)
    [] n.op = "UPDATE" -> NextUpdate(n)
    [] n.op = "DELETE" -> NextDelete(n)
    [] n.op = "INSERT" \/ n.kids = <<>> -> Answer(n, "RECORD_EOF")
    [] OTHER -> LET c == NextOf(n.kids[1]) IN Answer(WithKid(n, c.n), c.rc)

-----------------------------------------------------------------------------
(* close                                                                   *)

\* IndexScanPhysicalOperator::close calls through index_scanner_ and clears it.
CloseIndexScan(n) == Answer([n EXCEPT !.open = FALSE], IF n.open THEN "SUCCESS" ELSE "CRASH")

CloseJoin(n) ==
  LET l == Close(n.kids[1])
      r == IF n.open THEN Close(n.kids[2]) ELSE Answer(n.kids[2], l.rc)
  IN Answer([n EXCEPT !.kids = <<l.n, r.n>>, !.open = FALSE], IF l.rc = "CRASH" THEN l.rc ELSE r.rc)

\* AggrePhysicalOperator::close starts over, unless it lost its child.
CloseAggregation(n) ==
  IF n.kids = <<>> THEN Answer(n, "SUCCESS")
  ELSE LET c == Close(n.kids[1]) IN Answer([WithKid(n, c.n) EXCEPT !.flag = FALSE], c.rc)

CloseOperator(n) ==
  CASE n.op = "TABLE_SCAN" -> Answer([n EXCEPT !.open = FALSE], "SUCCESS")
    [] n.op = "INDEX_SCAN" -> CloseIndexScan(n)
    [] n.op = "JOIN" -> CloseJoin(n)
    [] n.op = "AGGREGATION" -> CloseAggregation(n)
    [] n.kids = <<>> -> Answer(n, "SUCCESS")
    [] OTHER -> LET c == Close(n.kids[1]) IN Answer(WithKid(n, c.n), c.rc)

Call(f, x, arg) ==
  CASE f = "open" -> OpenOperator(x)
    [] f = "next" -> NextOperator(x)
    [] f = "close" -> CloseOperator(x)
    [] f = "drain" -> DrainLoop(x, arg)
    [] f = "expr" -> DoExpression(x, arg)
    [] f = "subquery" -> DoSubqueryExpr(x, arg)

\* The subqueries among an operand, an expression, a plan.
OperandSubs(o) == IF o.k = "SUBQUERY" THEN {o} ELSE {}
RECURSIVE ExprSubs(_)
ExprSubs(e) ==
  CASE e.k \in {"COMPARISON", "IN", "EXISTS"} -> OperandSubs(e.l) \cup OperandSubs(e.r)
    [] e.k = "CONJUNCTION" -> UNION {ExprSubs(e.kids[i]) : i \in DOMAIN e.kids}
    [] OTHER -> OperandSubs(e)
RECURSIVE PlanSubs(_)
PlanSubs(n) ==
  ExprSubs(n.expr)
    \cup UNION {ExprSubs(n.preds[i]) : i \in DOMAIN n.preds}
    \cup (IF n.op = "UPDATE" THEN UNION {OperandSubs(n.arg[i].e) : i \in DOMAIN n.arg} ELSE {})
    \cup UNION {PlanSubs(n.kids[i]) : i \in DOMAIN n.kids}

\* operator_.reset(): ~SubQueryExpr closes the subquery's plan, whether or not
\* the executor has closed it already or ever opened it.
RECURSIVE Destroy(_)
Destroy(n) ==
  IF \E s \in PlanSubs(n) : Close(s.plan).rc = "CRASH" \/ Destroy(s.plan) = "CRASH"
  THEN "CRASH" ELSE "SUCCESS"
=============================================================================
