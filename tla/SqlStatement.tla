---------------------------- MODULE SqlStatement ----------------------------
(***************************************************************************)
(* One statement on its way through the stages of SessionStage::handle_sql *)
(* and PlainCommunicator::write_result: resolve, plan, rewrite, generate,  *)
(* open, fetch, close.  The transaction is a VacuousTrx: changes are made  *)
(* in place and nothing undoes them; versions, latches and conflicts are   *)
(* the subject of MvccTrx and RecordFile.                                  *)
(*                                                                         *)
(* A parsed statement is [cmd, from, joins, attrs, aggs, conds, order,     *)
(* set, rows]; a condition is [l, op, r, or], a subquery operand           *)
(* [k |-> "SUBQUERY", q |-> a parsed SELECT].                              *)
(***************************************************************************)
EXTENDS SqlExec

CONSTANTS Queries, Databases, IndexSets, Junk

VARIABLES
  query,       \* the parsed statement
  db0,         \* the tables when it arrived
  phase, stmt, plan, rc,
  first,       \* the logical plan before any rewriting
  rounds,      \* the rounds of rewriting that made a change
  out,         \* the rows in the writer's buffer
  disconnect   \* need_disconnect

input == <<junk, indexes, query, db0>>
vars == <<input, db, phase, stmt, plan, first, rounds, out, rc, disconnect>>

-----------------------------------------------------------------------------
(* Resolving: Stmt::create_stmt.  Every step gives [rc, x].                *)

Ok(x) == [rc |-> "SUCCESS", x |-> x]
Bad(code) == [rc |-> code, x |-> <<>>]

\* The next step is given the result of one that succeeded.
Bind(r, f(_)) == IF r.rc # "SUCCESS" THEN r ELSE f(r.x)

\* f on each element from left to right, stopping at the first error.
CreateEach(f(_), s) ==
  FoldLeft(LAMBDA acc, e : Bind(acc, LAMBDA xs : Bind(f(e), LAMBDA x : Ok(Append(xs, x)))),
           Ok(<<>>), s)

HasField(t, f) == \E m \in Range(Schema[t]) : m.f = f

\* The first of the names with this alias gives the table.
Unalias(names, t) ==
  LET hits == {i \in DOMAIN names : names[i].alias # "" /\ names[i].alias = t}
  IN IF t = "" \/ hits = {} THEN t ELSE names[Min(hits)].rel

\* std::unique of handle_alias and handle_sub_query_alias sees only neighbours.
AliasRepeated(names) ==
  \E i \in 1..(Len(names) - 1) : names[i].alias # "" /\ names[i].alias = names[i + 1].alias

\* handle_where_alias and, for subqueries, handle_sub_query_alias with the
\* parents' names first.
RECURSIVE UnaliasConds(_, _)
UnaliasConds(conds, names) ==
  LET side(o) ==
        CASE o.k = "FIELD" -> [o EXCEPT !.t = Unalias(names, @)]
          [] o.k = "SUBQUERY" ->
               [o EXCEPT !.q.attrs = [i \in DOMAIN @ |-> [@[i] EXCEPT !.t = Unalias(o.q.from, @)]],
                         !.q.conds = UnaliasConds(@, names \o o.q.from)]
          [] OTHER -> o
  IN [i \in DOMAIN conds |-> [conds[i] EXCEPT !.l = side(@), !.r = side(@)]]

\* FieldExpr::create, one attribute of the select list.
SelectField(a, tables) ==
  LET cols(t) == [i \in DOMAIN Schema[t] |-> [agg |-> "", t |-> t, f |-> Schema[t][i].f]]
  IN CASE a.t = "" /\ a.f = "*" -> Ok(FlattenSeq([i \in DOMAIN tables |-> cols(tables[i])]))
       [] a.t = "" -> IF Len(tables) = 1 /\ HasField(tables[1], a.f)
                      THEN Ok(<<[agg |-> "", t |-> tables[1], f |-> a.f]>>)
                      ELSE Bad("SCHEMA_FIELD_MISSING")
       [] a.t \notin Range(tables) -> Bad("SCHEMA_FIELD_MISSING")
       [] a.f = "*" -> Ok(cols(a.t))
       [] OTHER -> IF HasField(a.t, a.f) THEN Ok(<<[agg |-> "", t |-> a.t, f |-> a.f]>>)
                   ELSE Bad("SCHEMA_FIELD_MISSING")

\* AggreExpression::create: COUNT(*) reads the first column.
SelectAggregate(a, tables) ==
  CASE a.f = "*" -> IF a.agg = "COUNT"
                    THEN Ok(<<[agg |-> "COUNT_ALL", t |-> tables[1], f |-> Schema[tables[1]][1].f]>>)
                    ELSE Bad("FAILURE")
    [] OTHER -> Bind(SelectField(a, tables), LAMBDA x : Ok(<<[x[1] EXCEPT !.agg = a.agg]>>))

\* get_table_and_field
FieldOf(o, default, tables) ==
  LET t == IF o.t = "" THEN default ELSE IF o.t \in tables THEN o.t ELSE "" IN
  CASE t = "" -> Bad("SCHEMA_TABLE_NOT_EXIST")
    [] ~HasField(t, o.f) -> Bad("SCHEMA_FIELD_NOT_EXIST")
    [] OTHER -> Ok(F(t, o.f))

ExprType(e) == CASE e.agg = "" -> Meta(e.t, e.f).type
                 [] e.agg = "AVG" -> "FLOATS"
                 [] e.agg \in {"COUNT", "COUNT_ALL"} -> "INTS"
                 [] OTHER -> Meta(e.t, e.f).type

OperandType(o) ==
  CASE o.k = "FIELD" -> Meta(o.t, o.f).type
    [] o.k = "VALUE" -> o.v.t
    [] o.k = "VALUELIST" -> o.vals[1].t
    [] OTHER -> o.type

\* SubQueryExpr::if_need_parent_tuple: only a comparison of columns of two
\* tables tells (or a subquery below that needs one).
NeedParentTuple(units) ==
  \E u \in Range(units) :
    \/ u.l.k = "FIELD" /\ u.r.k = "FIELD" /\ u.l.t # u.r.t
    \/ u.l.k = "SUBQUERY" /\ u.l.need
    \/ u.r.k = "SUBQUERY" /\ u.r.need

\* The casts at the end of create_filter_unit.
CastUnit(u) ==
  LET lt == OperandType(u.l)
      rt == OperandType(u.r)
      fv == u.l.k = "FIELD" /\ u.r.k = "VALUE"
      vv == u.l.k = "VALUE" /\ u.r.k = "VALUE"
      d == ConvertStringToDate(u.r.v.n)
      cl == TypeCast(u.l.v, "FLOATS")
      cr == TypeCast(u.r.v, "FLOATS")
  IN CASE lt = rt \/ "NULLS" \in {lt, rt} -> Ok(u)
       [] fv /\ lt = "DATES" /\ rt = "CHARS" ->
            IF d = -1 THEN Bad("FAILURE") ELSE Ok([u EXCEPT !.r = V(DateV(d))])
       [] fv /\ rt = "CHARS" -> Ok([u EXCEPT !.r = V(cr.v)])
       [] vv -> IF cl.ok /\ cr.ok THEN Ok([u EXCEPT !.l = V(cl.v), !.r = V(cr.v)]) ELSE Bad("FAILURE")
       [] OTHER -> Ok(u)

RECURSIVE CreateSelect(_)

\* SubQueryExpr's constructor makes the plan at once.
SubqueryOf(s) ==
  Ok([k |-> "SUBQUERY", type |-> ExprType(s.exprs[1]), need |-> NeedParentTuple(s.units),
      fin |-> FALSE, vals |-> <<>>, plan |-> PhysicalPlan(RewriteAll(LogicalPlan(s)))])
CreateSubquery(q) == Bind(CreateSelect(q), SubqueryOf)

CreateOperand(o, default, tables) ==
  CASE o.k = "FIELD" -> FieldOf(o, default, tables)
    [] o.k = "SUBQUERY" -> CreateSubquery(o.q)
    [] OTHER -> Ok(o)

\* FilterStmt::create_filter_unit
CreateFilterUnit(c, default, tables) ==
  Bind(CreateOperand(c.l, default, tables), LAMBDA l :
    Bind(CreateOperand(c.r, default, tables), LAMBDA r :
      CastUnit([l |-> l, op |-> c.op, r |-> r])))

\* FilterStmt::create: whether the conditions are joined by OR is what the
\* second one says.
CreateFilter(conds, default, tables) ==
  Bind(CreateEach(LAMBDA c : CreateFilterUnit(c, default, tables), conds), LAMBDA us :
    Ok([units |-> us, has_or |-> Len(conds) > 1 /\ conds[2].or]))

\* OrderByStmt::create_orderby_unit
CreateOrderUnit(o, default, tables) ==
  Bind(FieldOf(o, default, tables), LAMBDA x : Ok([t |-> x.t, f |-> x.f, asc |-> o.asc]))

\* get_expressions: the select list.
CreateExprs(q, tables) ==
  IF q.attrs = <<>> THEN CreateEach(LAMBDA a : SelectAggregate(a, tables), q.aggs)
  ELSE CreateEach(LAMBDA a : SelectField([a EXCEPT !.t = Unalias(q.from, @)], tables), q.attrs)

\* The filter and the order over the tables known: those of FROM and those that
\* only a condition names, which are taken for tables of the query around this
\* one.
CreateClauses(q, tables, exprs, conds) ==
  LET named == {o.t : o \in {x \in UNION {{c.l, c.r} : c \in Range(conds)} : x.k = "FIELD"}} \ {""}
      default == IF Len(tables) = 1 THEN tables[1] ELSE ""
      known == Range(tables) \cup named
  IN IF ~(named \subseteq DOMAIN Schema) THEN Bad("SCHEMA_TABLE_NOT_EXIST")
     ELSE Bind(CreateFilter(conds, default, known), LAMBDA filter :
            Bind(CreateEach(LAMBDA o : CreateOrderUnit(o, default, known), q.order), LAMBDA order :
              Ok([cmd |-> "SELECT", tables |-> tables, exprs |-> FlattenSeq(exprs),
                  units |-> filter.units, has_or |-> filter.has_or,
                  order |-> order, set |-> <<>>, rows |-> <<>>])))

\* SelectStmt::create
CreateSelect(q) ==
  LET tables == [i \in DOMAIN q.from |-> q.from[i].rel] \o [i \in DOMAIN q.joins |-> q.joins[i].rel]
  IN CASE ~(Range(tables) \subseteq DOMAIN Schema) -> Bad("SCHEMA_TABLE_NOT_EXIST")
       [] AliasRepeated(q.from) -> Bad("INVALID_ARGUMENT")
       [] OTHER -> Bind(CreateExprs(q, tables), LAMBDA exprs :
                     CreateClauses(q, tables, exprs,
                                   UnaliasConds(q.conds, q.from)
                                     \o FlattenSeq([i \in DOMAIN q.joins |-> q.joins[i].conds])))

\* InsertStmt::create, one value for one column.
CreateInsertValue(m, v) ==
  CASE IsNull(v) -> IF m.nullable THEN Ok(v) ELSE Bad("SCHEMA_FIELD_NOT_NULLABLE")
    [] m.type = "DATES" /\ v.t = "CHARS" ->
         LET d == ConvertStringToDate(v.n) IN
         IF d = -1 THEN Bad("SCHEMA_FIELD_TYPE_MISMATCH") ELSE Ok(DateV(d))
    [] OTHER -> LET r == TypeCast(v, m.type) IN
                IF r.ok THEN Ok(r.v) ELSE Bad("SCHEMA_FIELD_TYPE_MISMATCH")

CreateInsert(q) ==
  LET t == q.from[1].rel
      row(vs) == IF Len(vs) # Len(Schema[t]) THEN Bad("SCHEMA_FIELD_MISSING")
                 ELSE CreateEach(LAMBDA i : CreateInsertValue(Schema[t][i], vs[i]),
                                 [i \in DOMAIN vs |-> i])
  IN Bind(CreateEach(row, q.rows), LAMBDA rows :
       Ok([cmd |-> "INSERT", tables |-> <<t>>, exprs |-> <<>>, units |-> <<>>, has_or |-> FALSE,
           order |-> <<>>, set |-> <<>>, rows |-> rows]))

\* UpdateStmt::create and DeleteStmt::create; the values are looked at when
\* the operator opens.
CreateModify(q) ==
  LET t == q.from[1].rel
      assign(a) == Bind(CreateOperand(a.e, t, {t}), LAMBDA e : Ok([f |-> a.f, e |-> e]))
  IN IF \E a \in Range(q.set) : ~HasField(t, a.f) THEN Bad("SCHEMA_FIELD_NOT_EXIST")
     ELSE Bind(CreateEach(assign, q.set), LAMBDA set :
            Bind(CreateFilter(q.conds, t, {t}), LAMBDA filter :
              Ok([cmd |-> q.cmd, tables |-> <<t>>, exprs |-> <<>>, units |-> filter.units,
                  has_or |-> filter.has_or, order |-> <<>>, set |-> set, rows |-> <<>>])))

\* Stmt::create_stmt
CreateStmt(q) ==
  CASE q.cmd = "SELECT" -> CreateSelect(q)
    [] q.from[1].rel \notin DOMAIN Schema -> Bad("SCHEMA_TABLE_NOT_EXIST")
    [] q.cmd = "INSERT" -> CreateInsert(q)
    [] OTHER -> CreateModify(q)

-----------------------------------------------------------------------------
(* The stages.                                                             *)

Init ==
  /\ query \in Queries /\ db0 \in Databases /\ indexes \in IndexSets /\ junk \in Junk
  /\ db = db0 /\ phase = "parsed" /\ stmt = <<>> /\ plan = <<>> /\ first = <<>>
  /\ rounds = 0 /\ out = <<>> /\ rc = "SUCCESS" /\ disconnect = FALSE

\* ResolveStage: an error is the statement's answer.
Resolve ==
  /\ phase = "parsed"
  /\ \E r \in {CreateStmt(query)} :
       /\ rc' = r.rc
       /\ stmt' = r.x
       /\ phase' = IF r.rc = "SUCCESS" THEN "resolved" ELSE "done"
  /\ UNCHANGED <<input, db, plan, first, out, disconnect, rounds>>

\* OptimizeStage::create_logical_plan
MakePlan ==
  /\ phase = "resolved"
  /\ plan' = LogicalPlan(stmt) /\ first' = plan'
  /\ phase' = "rewriting"
  /\ UNCHANGED <<input, db, stmt, out, rc, disconnect, rounds>>

\* One round of OptimizeStage::rewrite's do-while.
RewritePass ==
  /\ phase = "rewriting"
  /\ \E r \in {Rewrite(plan)} :
       /\ plan' = r.x
       /\ phase' = IF r.ch THEN "rewriting" ELSE "optimized"
       /\ rounds' = IF r.ch THEN rounds + 1 ELSE rounds
  /\ UNCHANGED <<input, db, stmt, first, out, rc, disconnect>>

\* OptimizeStage::generate_physical_plan
Generate ==
  /\ phase = "optimized"
  /\ plan' = PhysicalPlan(plan)
  /\ phase' = "planned"
  /\ UNCHANGED <<input, db, stmt, first, out, rc, disconnect, rounds>>

\* insert_entry of the unique indexes: a row with a null is in no index.
Duplicate(rows, t, i, row) ==
  \E x \in indexes :
    /\ x.t = t /\ x.unique
    /\ \A f \in Range(x.fields) : ~IsNull(row[f])
    /\ \E j \in DOMAIN rows : j # i /\ \A f \in Range(x.fields) : rows[j][f] = row[f]

\* Table::insert_record, update_record and delete_record through VacuousTrx, in
\* the order of the changes, up to the first that fails: [rows, rc].  A
\* deleted row is <<>> until the statement is over.
Applied(t, changes) ==
  FoldLeft(LAMBDA acc, c :
             CASE acc.rc # "SUCCESS" -> acc
               [] c.row # <<>> /\ Duplicate(acc.rows, t, c.rid, c.row) ->
                    [acc EXCEPT !.rc = "RECORD_DUPLICATE_KEY"]
               [] c.rid = 0 -> [acc EXCEPT !.rows = Append(@, c.row)]
               [] OTHER -> [acc EXCEPT !.rows[c.rid] = c.row],
           [rows |-> db[t], rc |-> "SUCCESS"], changes)

\* Table::make_record: the values of a VALUES list, column by column.
MakeRecord(t, vs) ==
  [f \in {m.f : m \in Range(Schema[t])} |->
     vs[CHOOSE i \in DOMAIN Schema[t] : Schema[t][i].f = f]]

Store(t, rows) == db' = [db EXCEPT ![t] = SelectSeq(rows, LAMBDA r : r # <<>>)]

\* InsertPhysicalOperator::open inserts the rows; those before a failure stay.
OpenInsert(n) ==
  LET a == Applied(n.t, [i \in DOMAIN n.arg |-> [rid |-> 0, row |-> MakeRecord(n.t, n.arg[i])]])
  IN /\ Store(n.t, a.rows)
     /\ rc' = a.rc /\ plan' = n
     /\ phase' = IF a.rc = "SUCCESS" THEN "running" ELSE "closing"

\* SqlResult::open.  disconnect is TRUE from here until the answer is written.
OpenPlan ==
  /\ phase = "planned"
  /\ disconnect' = TRUE
  /\ IF plan.op = "INSERT" THEN OpenInsert(plan)
     ELSE \E r \in {Open(plan)} :
            /\ plan' = r.n /\ rc' = r.rc
            /\ phase' = CASE r.rc = "CRASH" -> "crashed"
                          [] r.rc = "SUCCESS" -> "running"
                          [] OTHER -> "closing"
            /\ UNCHANGED db
  /\ UNCHANGED <<input, stmt, first, out, rounds>>

\* The code at which write_result_internal leaves its loop, and clear().
EndOfTuples(code) ==
  /\ rc' = IF code = "RECORD_EOF" THEN "SUCCESS" ELSE code
  /\ out' = IF code = "RECORD_EOF" THEN out ELSE <<>>
  /\ phase' = "closing"

\* SqlResult::next_tuple of SELECT: a tuple is written cell by cell; a sorted
\* result without a first row has no cells, which ends the loop at once.
FetchTuple ==
  /\ phase = "running" /\ plan.op = "PROJECTION"
  /\ \E r \in {NextOf(plan)} :
       /\ plan' = r.n
       /\ CASE r.rc = "CRASH" -> phase' = "crashed" /\ UNCHANGED <<out, rc, disconnect>>
            [] r.rc = "SUCCESS" /\ CurrentTuple(r.n) = NoTuple ->
                 /\ phase' = "closing" /\ rc' = "EMPTY"
                 /\ UNCHANGED <<out, disconnect>>
            [] r.rc = "SUCCESS" -> /\ out' = Append(out, ProjectedRow(r.n))
                                   /\ UNCHANGED <<phase, rc, disconnect>>
            [] OTHER -> EndOfTuples(r.rc) /\ disconnect' = FALSE
  /\ UNCHANGED <<input, db, stmt, first, rounds>>

\* next of UPDATE, DELETE and INSERT does all there is to do.
Modify ==
  /\ phase = "running" /\ plan.op # "PROJECTION"
  /\ \E r \in {NextOf(plan)} : \E a \in {Applied(plan.t, r.n.buf)} :
       /\ plan' = r.n
       /\ Store(plan.t, a.rows)
       /\ IF r.rc = "CRASH" THEN phase' = "crashed" /\ UNCHANGED <<out, rc>>
          ELSE EndOfTuples(IF a.rc # "SUCCESS" THEN a.rc ELSE r.rc)
  /\ disconnect' = FALSE
  /\ UNCHANGED <<input, stmt, first, rounds>>

\* SqlResult::close: what close returns counts when all went well before.
ClosePlan ==
  /\ phase = "closing"
  /\ \E c \in {Close(plan)} :
       /\ plan' = c.n
       /\ phase' = IF c.rc = "CRASH" \/ Destroy(c.n) = "CRASH" THEN "crashed" ELSE "done"
       /\ rc' = IF rc = "SUCCESS" THEN c.rc ELSE rc
       /\ disconnect' = (rc = "EMPTY")
  /\ UNCHANGED <<input, db, stmt, first, out, rounds>>

Next ==
  \/ Resolve \/ MakePlan \/ RewritePass \/ Generate
  \/ OpenPlan \/ FetchTuple \/ Modify \/ ClosePlan

StatementSpec == Init /\ [][Next]_vars
=============================================================================
