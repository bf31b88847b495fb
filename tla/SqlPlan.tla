------------------------------ MODULE SqlPlan -------------------------------
(***************************************************************************)
(* Plans: LogicalPlanGenerator, the rewrite rules of the optimizer and     *)
(* PhysicalPlanGenerator, as functions from plan trees to plan trees.      *)
(*                                                                         *)
(* An operand is a FIELD [k, t, f], a VALUE [k, v], a VALUELIST [k, vals]  *)
(* or a SUBQUERY [k, type, cells, need, fin, vals, plan]; an expression    *)
(* is a COMPARISON, IN or EXISTS [k, op, l, r], a CONJUNCTION [k, and,     *)
(* kids] or an operand.  A plan node holds its children and every field a  *)
(* logical or physical operator of any kind may need.                      *)
(***************************************************************************)
EXTENDS SqlValue, SequencesExt

CONSTANT Schema  \* [table -> sequence of [f, type, nullable]]

VARIABLES
  db,      \* [table -> sequence of rows, each a function of field names]
  indexes  \* the set of [t, fields, unique] in this database

NoTuple == <<>>
V(v) == [k |-> "VALUE", v |-> v]
F(t, f) == [k |-> "FIELD", t |-> t, f |-> f]
Meta(t, f) == CHOOSE m \in Range(Schema[t]) : m.f = f

Node(kind, kids) ==
  [op |-> kind, kids |-> kids, expr |-> V(BoolV(TRUE)), preds |-> <<>>, t |-> "",
   arg |-> <<>>, key |-> <<>>, pos |-> 0, buf |-> <<>>, cur |-> NoTuple,
   left |-> NoTuple, parent |-> NoTuple, open |-> FALSE, flag |-> FALSE]

-----------------------------------------------------------------------------
(* LogicalPlanGenerator                                                    *)

\* create_plan(FilterStmt): one ConjunctionExpr over all the conditions.
FilterExpr(u) ==
  CASE u.op \in {"IN", "NOT_IN"} -> [k |-> "IN", op |-> u.op, l |-> u.l, r |-> u.r]
    [] u.op \in {"EXISTS", "NOT_EXISTS"} -> [k |-> "EXISTS", op |-> u.op, l |-> u.l, r |-> u.r]
    [] OTHER -> [k |-> "COMPARISON", op |-> u.op, l |-> u.l, r |-> u.r]

Filtered(stmt, child) ==
  IF stmt.units = <<>> THEN child
  ELSE [Node("PREDICATE", <<child>>) EXCEPT
          !.expr = [k |-> "CONJUNCTION", and |-> ~stmt.has_or,
                    kids |-> [i \in DOMAIN stmt.units |-> FilterExpr(stmt.units[i])]]]

TableGet(t) == [Node("TABLE_GET", <<>>) EXCEPT !.t = t]

\* The left-deep joins of the tables of FROM.
JoinOf(tables) ==
  FoldLeft(LAMBDA acc, t : Node("JOIN", <<acc, TableGet(t)>>),
           TableGet(Head(tables)), Tail(tables))

\* create_plan(SelectStmt)
SelectPlan(stmt) ==
  LET scan == Filtered(stmt, JoinOf(stmt.tables))
      aggregates == SelectSeq(stmt.exprs, LAMBDA e : e.agg # "")
      aggre == IF aggregates = <<>> THEN scan
               ELSE [Node("AGGREGATION", <<scan>>) EXCEPT !.arg = aggregates]
      order == IF stmt.order = <<>> THEN aggre
               ELSE [Node("ORDER_BY", <<aggre>>) EXCEPT !.arg = stmt.order]
  IN [Node("PROJECTION", <<order>>) EXCEPT !.arg = stmt.exprs]

\* create_plan(UpdateStmt), create_plan(DeleteStmt)
ModifyPlan(stmt) ==
  [Node(stmt.cmd, <<Filtered(stmt, TableGet(stmt.tables[1]))>>) EXCEPT
     !.t = stmt.tables[1], !.arg = stmt.set]

\* create_plan(InsertStmt)
InsertPlan(stmt) == [Node("INSERT", <<>>) EXCEPT !.t = stmt.tables[1], !.arg = stmt.rows]

\* LogicalPlanGenerator::create
LogicalPlan(stmt) ==
  CASE stmt.cmd = "SELECT" -> SelectPlan(stmt)
    [] stmt.cmd = "INSERT" -> InsertPlan(stmt)
    [] OTHER -> ModifyPlan(stmt)

-----------------------------------------------------------------------------
(* The rewrite rules.  Each gives [x, ch]: the rewritten tree or           *)
(* expression and change_made.                                             *)

\* ComparisonSimplificationRule: a comparison of two values is a value.
ComparisonRule(e) ==
  IF e.k = "COMPARISON" /\ e.l.k = "VALUE" /\ e.r.k = "VALUE"
  THEN [x |-> V(BoolV(Compare(e.l.v, e.op, e.r.v))), ch |-> TRUE]
  ELSE [x |-> e, ch |-> FALSE]

\* try_to_get_bool_constant
IsConstant(e, b) == e.k = "VALUE" /\ e.v = BoolV(b)

\* ConjunctionSimplificationRule: constants that decide nothing are erased;
\* one that decides replaces the conjunction by its first remaining child,
\* whichever that is, and reports no change.
ConjunctionRule(e) ==
  IF e.k # "CONJUNCTION" THEN [x |-> e, ch |-> FALSE]
  ELSE LET decides == {i \in DOMAIN e.kids : IsConstant(e.kids[i], ~e.and)}
           before == IF decides = {} THEN e.kids ELSE SubSeq(e.kids, 1, Min(decides))
           rest == SelectSeq(before, LAMBDA c : ~IsConstant(c, e.and))
       IN CASE decides # {} -> [x |-> Head(rest), ch |-> FALSE]
            [] Len(rest) = 1 -> [x |-> Head(rest), ch |-> TRUE]
            [] OTHER -> [x |-> [e EXCEPT !.kids = rest], ch |-> FALSE]

\* One rule after another, and the children's results put back in their places.
Then(r, Rule(_)) == [Rule(r.x) EXCEPT !.ch = @ \/ r.ch]
WithChildren(r, rs) ==
  [x |-> [r.x EXCEPT !.kids = [i \in DOMAIN rs |-> rs[i].x]],
   ch |-> r.ch \/ \E i \in DOMAIN rs : rs[i].ch]

\* ExpressionRewriter::rewrite_expression: the children only when no rule made
\* a change.
RECURSIVE RewriteExpression(_)
RewriteKidExpressions(r) ==
  IF r.ch \/ r.x.k # "CONJUNCTION" THEN r
  ELSE WithChildren(r, [i \in DOMAIN r.x.kids |-> RewriteExpression(r.x.kids[i])])
RewriteExpression(e) == RewriteKidExpressions(Then(ComparisonRule(e), ConjunctionRule))

\* ExpressionRewriter::rewrite, over the whole tree.
WithExpression(n, r) == [x |-> [n EXCEPT !.expr = r.x], ch |-> r.ch]
RECURSIVE ExpressionRewriter(_)
ExpressionRewriter(n) ==
  WithChildren(IF n.op = "PREDICATE" THEN WithExpression(n, RewriteExpression(n.expr))
               ELSE [x |-> n, ch |-> FALSE],
               [i \in DOMAIN n.kids |-> ExpressionRewriter(n.kids[i])])

\* Mutant: a constant predicate goes away whatever it says.
PredicateRewriteAlways(n) ==
  IF Len(n.kids) = 1 /\ n.kids[1].op = "PREDICATE" /\ n.kids[1].expr.k = "VALUE"
  THEN [x |-> [n EXCEPT !.kids = n.kids[1].kids], ch |-> TRUE]
  ELSE [x |-> n, ch |-> FALSE]

\* PredicateRewriteRule: an only child that is a constant predicate goes away,
\* with everything below it when it is false.
PredicateRewrite(n) ==
  IF Len(n.kids) = 1 /\ n.kids[1].op = "PREDICATE" /\ n.kids[1].expr.k = "VALUE"
  THEN [x |-> [n EXCEPT !.kids = IF GetBoolean(n.kids[1].expr.v) THEN n.kids[1].kids ELSE <<>>],
        ch |-> TRUE]
  ELSE [x |-> n, ch |-> FALSE]

\* get_exprs_can_pushdown: an equality with a column on one side goes down,
\* whatever is on the other side.
PushesDown(e) ==
  /\ e.k = "COMPARISON" /\ e.op = "EQUAL_TO"
  /\ e.l.k = "FIELD" \/ e.r.k = "FIELD"

\* PredicatePushdownRewriter::rewrite: set_predicates replaces what an earlier
\* pass had pushed down.
PredicatePushdown(n) ==
  IF ~(n.op = "PREDICATE" /\ Len(n.kids) = 1 /\ n.kids[1].op = "TABLE_GET")
  THEN [x |-> n, ch |-> FALSE]
  ELSE LET e == n.expr
           all == e.k = "CONJUNCTION" /\ e.and
           down == IF PushesDown(e) THEN <<e>>
                   ELSE IF all THEN SelectSeq(e.kids, PushesDown) ELSE <<>>
           rest == IF PushesDown(e) THEN V(BoolV(TRUE))
                   ELSE IF all THEN [e EXCEPT !.kids = SelectSeq(@, LAMBDA c : ~PushesDown(c))]
                   ELSE e
       IN IF down = <<>> THEN [x |-> n, ch |-> FALSE]
          ELSE [x |-> [n EXCEPT !.expr = rest, !.kids[1].preds = down], ch |-> TRUE]

\* Rewriter::rewrite: the three rules at this operator, then the children.
RECURSIVE Rewrite(_)
RewriteKids(r) == WithChildren(r, [i \in DOMAIN r.x.kids |-> Rewrite(r.x.kids[i])])
Rewrite(n) ==
  RewriteKids(Then(Then(ExpressionRewriter(n), PredicateRewrite), PredicatePushdown))

\* OptimizeStage::rewrite, for the plans of subqueries.
RECURSIVE RewriteAll(_)
RewriteAgain(r) == IF r.ch THEN RewriteAll(r.x) ELSE r.x
RewriteAll(n) == RewriteAgain(Rewrite(n))

-----------------------------------------------------------------------------
(* PhysicalPlanGenerator                                                   *)

\* The conditions create_plan(TableGet) can use: an equality of a column and a
\* value, as [f, v].
KeyParts(preds) ==
  LET usable == SelectSeq(preds, LAMBDA e :
                  {e.l.k, e.r.k} = {"FIELD", "VALUE"})
  IN [i \in DOMAIN usable |->
        LET e == usable[i] IN
        IF e.l.k = "FIELD" THEN [f |-> e.l.f, v |-> e.r.v] ELSE [f |-> e.r.f, v |-> e.l.v]]

\* Table::find_index_by_fields: exactly these columns, in any order.
FindIndexByFields(t, fields) == {x \in indexes : x.t = t /\ Range(x.fields) = fields}

\* create_plan(TableGet): an index whose columns all have an equality, unless
\* the last value is null.  The key's bytes are the value's, whatever its type.
ScanPlan(n) ==
  LET parts == KeyParts(n.preds)
      found == FindIndexByFields(n.t, {parts[i].f : i \in DOMAIN parts})
  IN IF found # {} /\ ~IsNull(parts[Len(parts)].v)
     THEN [n EXCEPT !.op = "INDEX_SCAN", !.key = parts]
     ELSE [n EXCEPT !.op = "TABLE_SCAN"]

\* An ORDER_BY that lost its child makes no operator at all.
Makes(n) == ~(n.op = "ORDER_BY" /\ n.kids = <<>>)

\* create_plan of the other operators: the child's plan, when there is one.
CreatePlan(n, kids) == [n EXCEPT !.kids = kids]

\* PhysicalPlanGenerator::create
RECURSIVE PhysicalPlan(_)
PhysicalPlan(n) ==
  LET kept == SelectSeq(n.kids, Makes)
  IN IF n.op = "TABLE_GET" THEN ScanPlan(n)
     ELSE CreatePlan(n, [i \in DOMAIN kept |-> PhysicalPlan(kept[i])])
=============================================================================
