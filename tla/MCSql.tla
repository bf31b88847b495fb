------------------------------- MODULE MCSql --------------------------------
(* Two small tables, the statements over them, and the texts they use.     *)
EXTENDS SqlReference

\* "", "0", "1", "1.5", "2", "2023-02-29", "2024-02-29", "a%", "abc"
MCTexts ==
  [s \in 0..8 |->
     [num |-> <<0, 0, 2, 3, 4, 4046, 4048, 0, 0>>[s + 1],
      plain |-> s \in 1..4,
      date |-> CASE s = 5 -> <<2023, 2, 29>> [] s = 6 -> <<2024, 2, 29>> [] OTHER -> <<>>]]
MCLikes == {<<7, 7>>, <<8, 7>>}

Col(f, type, nullable) == [f |-> f, type |-> type, nullable |-> nullable]
MCSchema == [t |-> <<Col("a", "INTS", TRUE), Col("c", "CHARS", FALSE), Col("d", "DATES", TRUE)>>,
             u |-> <<Col("a", "INTS", FALSE), Col("b", "INTS", TRUE)>>]

T(a, c, d) == [a |-> a, c |-> CharsV(c), d |-> d]
U(a, b) == [a |-> IntV(a), b |-> b]
Feb29 == DateV(20240229)
MCDatabases ==
  {[t |-> <<T(IntV(2), 2, Feb29), T(Null, 8, DateV(20240101)), T(IntV(1), 3, Null), T(IntV(1), 7, DateV(20240301))>>,
    u |-> <<U(1, IntV(2)), U(2, Null), U(1, IntV(1))>>],
   [t |-> <<T(IntV(1), 2, Feb29)>>, u |-> <<>>],
   [t |-> <<>>, u |-> <<U(1, Null)>>]}

Index(t, f, unique) == [t |-> t, fields |-> <<f>>, unique |-> unique]
MCIndexSets == {{}, {Index("t", "a", FALSE), Index("u", "a", FALSE)}, {Index("t", "c", TRUE), Index("t", "d", TRUE)}}

Num(i) == V(IntV(i))
Text(s) == V(CharsV(s))
Field(t, f) == F(t, f)
Cond(l, op, r) == [l |-> l, op |-> op, r |-> r, or |-> FALSE]
List(vs) == [k |-> "VALUELIST", vals |-> vs]
Sub(q) == [k |-> "SUBQUERY", q |-> q]

Query(cmd, from) ==
  [cmd |-> cmd, from |-> from, joins |-> <<>>, attrs |-> <<>>, aggs |-> <<>>, conds |-> <<>>,
   order |-> <<>>, set |-> <<>>, rows |-> <<>>]
As(rel, alias) == [rel |-> rel, alias |-> alias]
Star == <<[t |-> "", f |-> "*"]>>
All(from, conds) == [Query("SELECT", from) EXCEPT !.attrs = Star, !.conds = conds]
One(from, attr, conds) == [All(from, conds) EXCEPT !.attrs = <<attr>>]
Agg(f, t, c) == [agg |-> f, t |-> t, f |-> c]
Aggs(from, aggs, conds) == [Query("SELECT", from) EXCEPT !.aggs = aggs, !.conds = conds]
tt == <<As("t", "")>>
uu == <<As("u", "")>>
a == Field("", "a")
c == Field("", "c")
d == Field("", "d")

Atoms ==
  {Cond(a, "EQUAL_TO", Num(1)), Cond(a, "GREAT_THAN", Num(1)), Cond(a, "EQUAL_TO", Text(2)),
   Cond(a, "LESS_THAN", V(FloatV(3))),
   Cond(Num(1), "EQUAL_TO", a), Cond(c, "EQUAL_TO", Num(1)), Cond(Num(1), "LESS_EQUAL", c),
   Cond(c, "EQUAL_TO", Text(8)), Cond(c, "LIKE", Text(7)), Cond(c, "NOT_LIKE", Text(7)),
   Cond(a, "IS", V(Null)), Cond(a, "IS_NOT", V(Null)), Cond(a, "EQUAL_TO", V(Null)),
   Cond(Num(1), "EQUAL_TO", Num(0)), Cond(Num(1), "EQUAL_TO", Num(1)), Cond(Text(2), "EQUAL_TO", Num(1)),
   Cond(d, "EQUAL_TO", Text(6)), Cond(d, "EQUAL_TO", Text(5)), Cond(d, "GREAT_EQUAL", Text(8)),
   Cond(Text(6), "EQUAL_TO", d), Cond(a, "EQUAL_TO", c),
   Cond(c, "IN", List(<<CharsV(2), CharsV(8)>>)), Cond(c, "NOT_IN", List(<<CharsV(2)>>)),
   Cond(a, "NOT_IN", List(<<IntV(1), Null>>)),
   Cond(Field("", "x"), "EQUAL_TO", Num(1))}
OrElse(x) == [x EXCEPT !.or = TRUE]

Where1 == {<<x>> : x \in Atoms}
Where2 == {<<x, y>> : x \in Atoms, y \in Atoms} \cup {<<x, OrElse(y)>> : x \in Atoms, y \in Atoms}

OfU(f, conds) == Sub(One(uu, [t |-> "", f |-> f], conds))
Correlated == <<Cond(Field("u", "a"), "EQUAL_TO", Field("t", "a"))>>
SubConds ==
  {Cond(a, "EQUAL_TO", OfU("a", <<Cond(Field("", "a"), "GREAT_THAN", Num(1))>>)),
   Cond(a, "EQUAL_TO", OfU("a", <<Cond(Field("", "a"), "EQUAL_TO", Num(2))>>)),
   Cond(a, "LESS_THAN", Sub(Aggs(uu, <<Agg("MAX", "", "a")>>, <<>>))),
   Cond(a, "EQUAL_TO", Sub(Aggs(uu, <<Agg("MIN", "", "b")>>, Correlated))),
   Cond(a, "GREAT_EQUAL", Sub(Aggs(uu, <<Agg("COUNT", "", "*")>>, Correlated))),
   Cond(Sub(Aggs(uu, <<Agg("SUM", "", "b")>>, Correlated)), "GREAT_THAN", a),
   Cond(a, "GREAT_THAN", OfU("a", <<>>)),
   Cond(a, "IN", Sub(One(uu, [t |-> "", f |-> "a"], <<>>))),
   Cond(Num(1), "IN", Sub(Aggs(uu, <<Agg("COUNT", "", "b")>>, Correlated))),
   Cond(V(Null), "EXISTS", OfU("b", Correlated)), Cond(V(Null), "NOT_EXISTS", OfU("b", Correlated)),
   Cond(V(Null), "EXISTS", Sub([All(uu, Correlated) EXCEPT !.attrs = <<[t |-> "", f |-> "a"]>>,
                                  !.order = <<[t |-> "", f |-> "a", asc |-> TRUE]>>])),
   Cond(V(Null), "EXISTS", OfU("b", <<Cond(Num(1), "EQUAL_TO", Num(0))>> \o Correlated)),
   Cond(V(Null), "EXISTS", OfU("b", <<Cond(Field("t", "a"), "EQUAL_TO", Num(1))>>))}

By(f, asc) == [t |-> "", f |-> f, asc |-> asc]
tAlias == <<As("t", "x"), As("u", "y")>>
SelectQueries ==
  {All(tt, w) : w \in Where1 \cup Where2}
    \cup {All(tt, <<x>>) : x \in SubConds}
    \cup {All(tt, <<x, Cond(c, "LIKE", Text(7))>>) : x \in SubConds}
    \cup {All(tt, <<Cond(a, "EQUAL_TO", Num(1)), Cond(a, "EQUAL_TO", OfU("a", <<>>))>>)}
    \cup {[All(tt, w) EXCEPT !.order = o] :
            w \in Where1 \cup {<<>>}, o \in {<<By("a", TRUE)>>, <<By("c", FALSE), By("a", TRUE)>>}}
    \cup {Aggs(tt, <<Agg("COUNT", "", "*"), Agg(f, "", x)>>, w) :
            f \in {"COUNT", "SUM", "AVG", "MAX", "MIN"}, x \in {"a", "c"},
            w \in {<<>>, <<Cond(a, "EQUAL_TO", Num(1))>>, <<Cond(Num(1), "EQUAL_TO", Num(0))>>}}
    \cup {All(<<As("t", ""), As("u", "")>>, w) :
            w \in {<<>>, <<Cond(Field("t", "a"), "EQUAL_TO", Field("u", "a"))>>,
                   <<Cond(Field("t", "a"), "EQUAL_TO", Field("u", "a")), Cond(Field("u", "b"), "IS", V(Null))>>}}
    \cup {[All(tt, <<>>) EXCEPT !.joins = <<[rel |-> "u", conds |-> <<Cond(Field("t", "a"), "EQUAL_TO", Field("u", "a"))>>]>>]}
    \cup {One(tAlias, [t |-> "y", f |-> "b"], <<Cond(Field("x", "a"), "LESS_THAN", Field("y", "a"))>>),
          One(<<As("u", "x"), As("u", "y")>>, [t |-> "y", f |-> "b"], <<Cond(Field("x", "a"), "LESS_THAN", Field("y", "a"))>>),
          All(<<As("u", "x"), As("u", "x")>>, <<>>),
          All(tt, <<Cond(a, "GREAT_THAN", Num(1)), Cond(c, "LIKE", Text(7)), OrElse(Cond(a, "IS", V(Null)))>>)}

ModifyQueries ==
  {[Query("DELETE", tt) EXCEPT !.conds = w] : w \in Where1 \cup {<<>>}}
    \cup {[Query("UPDATE", tt) EXCEPT !.conds = w, !.set = s] :
            w \in Where1 \cup {<<>>},
            s \in {<<[f |-> "a", e |-> Num(2)]>>, <<[f |-> "a", e |-> V(Null)]>>,
                   <<[f |-> "c", e |-> Num(2)]>>, <<[f |-> "c", e |-> V(Null)]>>,
                   <<[f |-> "d", e |-> Text(5)]>>, <<[f |-> "d", e |-> V(Null)]>>,
                   <<[f |-> "a", e |-> OfU("a", <<Cond(Field("", "b"), "EQUAL_TO", Num(2))>>)]>>,
                   <<[f |-> "a", e |-> OfU("a", <<>>)]>>}}
    \cup {[Query("INSERT", tt) EXCEPT !.rows = r] :
            r \in {<<<<IntV(1), CharsV(4), Null>>, <<Null, CharsV(8), CharsV(6)>>>>,
                   <<<<IntV(1), CharsV(4), Null>>, <<FloatV(3), CharsV(4), Null>>>>,
                   <<<<CharsV(3), CharsV(0), CharsV(5)>>>>, <<<<IntV(1)>>>>,
                   <<<<IntV(1), Null, Null>>>>}}

MCQueries == SelectQueries \cup ModifyQueries
=============================================================================
