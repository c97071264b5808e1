-------------------------------- MODULE Filter --------------------------------
(***************************************************************************)
(* FilterManager: from the tokens of a filter to the rows SQLite selects.   *)
(* PlanParser reads the tokens, SQLBuilderVisitor writes an SQL condition,  *)
(* and SQLite reads that again: a parenthesis the visitor writes or leaves  *)
(* out decides what the condition means.                                    *)
(*                                                                         *)
(* One token stands for "EXISTS (...)", one for the list of IN.  Not        *)
(* modelled: arithmetic, LIKE, JSON identifiers, constants on the left,     *)
(* lexical errors, and what stands after the first complete expression,     *)
(* which the parser ignores.                                                *)
(***************************************************************************)
EXTENDS Integers, Sequences

CONSTANTS
    Keys, Values,   \* of metadata: a value is a text of one or two digits
    Formulas        \* the sequence of those callers ask for, see Formula

Number     == 0..99
Comparison == {"==", "!=", ">"}

(* A formula names its parts by their place in the sequence. *)
Formula(parts) ==
    [op : {"key"}, key : Keys, cmp : Comparison, num : Number] \cup
    [op : {"IN"}, key : Keys, list : SUBSET Number] \cup
    [op : {"NOT"}, of : parts] \cup
    [op : {"AND", "OR", "=="}, left : parts, right : parts]

ASSUME FilterAssumption ==
    /\ Values \subseteq Number
    /\ Len(Formulas) \in Nat /\ DOMAIN Formulas = 1..Len(Formulas)
    /\ \A f \in DOMAIN Formulas : Formulas[f] \in Formula(1..f - 1)

Op(t)     == <<[t |-> t]>>
Parens(s) == Op("(") \o s \o Op(")")

(* The order of texts: "12" comes before "9". *)
TextOrder(x) == IF x < 10 THEN 11 * x ELSE 11 * (x \div 10) + 1 + (x % 10)
Compares(op, x, y) ==
    CASE op = "="  -> x = y
      [] op = "<>" -> x # y
      [] op = ">"  -> TextOrder(x) > TextOrder(y)
SqlOp == [op \in Comparison |-> CASE op = "==" -> "=" [] op = "!=" -> "<>" [] op = ">" -> ">"]

----------------------------------------------------------------------------
(* SQLBuilderVisitor.  Each visit makes its text of those of the parts, so  *)
(* a node is [token, sql]: the token it is about, and the text it becomes,  *)
(* left empty for a key or a number, which are visited with what compares   *)
(* them.                                                                    *)

Condition == [op : {"=", "<>", ">"}, num : Number] \cup [op : {"IN"}, list : SUBSET Number]
SqlToken  == [t : {"(", ")", "NOT", "AND", "OR", "=", "<>", "outer"}]
             \cup [t : {"EXISTS"}, key : Keys, condition : Condition]

handleKeyValueCondition(key, condition) ==
    <<[t |-> "EXISTS", key |-> key, condition |-> condition]>>

(* visitParens looks at the first and the last character of the text only. *)
visitParens(s) ==
    IF s[1].t = "(" /\ s[Len(s)].t \in {")", "EXISTS"} THEN s ELSE Parens(s)

visitUnary(s) == Parens(Op("NOT") \o s)

visitLogicalBare(l, op, r) == l \o Op(op) \o r   \* faulty variant: precedence is trusted
visitLogical(l, op, r) == Parens(l \o Op(op) \o r)

(* visitEquality and visitRelational *)
visitComparison(left, op, right) ==
    IF left.token.t = "key"
    THEN handleKeyValueCondition(left.token.key, [op |-> SqlOp[op], num |-> right.token.num])
    ELSE left.sql \o Op(SqlOp[op]) \o right.sql

visitTerm(left, list) == handleKeyValueCondition(left.token.key, [op |-> "IN", list |-> list])

visitBinary(left, op, right) ==
    IF op \in {"AND", "OR"} THEN visitLogical(left.sql, op, right.sql) ELSE visitComparison(left, op, right)

----------------------------------------------------------------------------
(* PlanParser::expr, by precedence climbing.                                *)

Token == [t : {"(", ")", "NOT", "AND", "OR"} \cup Comparison]
         \cup [t : {"key"}, key : Keys] \cup [t : {"num"}, num : Number] \cup [t : {"IN"}, list : SUBSET Number]
Node  == [token : Token, sql : Seq(SqlToken)]

OrFirst(op) ==   \* faulty variant
    CASE op \in {"==", "!="} -> 20 [] op = "NOT" -> 19 [] op = "IN" -> 15 [] op = ">" -> 7
      [] op = "OR" -> 3 [] op = "AND" -> 2
PlanPrec(op) ==
    CASE op \in {"==", "!="} -> 20 [] op = "NOT" -> 19 [] op = "IN" -> 15 [] op = ">" -> 7
      [] op = "AND" -> 3 [] op = "OR" -> 2

(* How the parser goes on: with a new expression, or with what may follow   *)
(* the node it has.  parse is the parser, one call deeper.                  *)
Expr(parse, rest, least)        == parse[[left |-> {}, rest |-> rest, least |-> least]]
Climb(parse, node, rest, least) == parse[[left |-> {node}, rest |-> rest, least |-> least]]

Primary(parse, s, least) ==
    LET first == Head(s)
        inner == Expr(parse, Tail(s), IF first.t = "NOT" THEN PlanPrec("NOT") ELSE 0)
        Next(sql, rest) == Climb(parse, [token |-> first, sql |-> sql], rest, least)
    IN  CASE first.t = "("   -> Next(visitParens(inner.node.sql), Tail(inner.rest))
          [] first.t = "NOT" -> Next(visitUnary(inner.node.sql), inner.rest)
          [] OTHER           -> Next(<<>>, Tail(s))

Follows(s, least) == s # <<>> /\ Head(s).t # ")" /\ PlanPrec(Head(s).t) >= least
Operator(parse, left, s, least) ==
    LET first == Head(s)
        right == Expr(parse, Tail(s), PlanPrec(first.t) + 1)
        Next(sql, rest) == Climb(parse, [token |-> first, sql |-> sql], rest, least)
    IN  CASE ~Follows(s, least) -> [node |-> left, rest |-> s]
          [] Follows(s, least) /\ first.t = "IN" -> Next(visitTerm(left, first.list), Tail(s))
          [] OTHER -> Next(visitBinary(left, first.t, right.node), right.rest)

ParserCall == [left : SUBSET Node, rest : Seq(Token), least : 0..21]
Parser[depth \in Nat] ==
    IF depth = 0 THEN <<>>
    ELSE [c \in ParserCall |->
            IF c.left = {} THEN Primary(Parser[depth - 1], c.rest, c.least)
            ELSE Operator(Parser[depth - 1], CHOOSE n \in c.left : TRUE, c.rest, c.least)]

(* Each token takes two calls at most. *)
toSQL(filter) == Expr(Parser[2 * Len(filter)], filter, 0).node.sql

----------------------------------------------------------------------------
(* SQLite: the value of a condition for one row of VectorMetadata, 0 or 1.  *)
(* rows are those of its vector, outer is the condition on the row itself,  *)
(* and the column EXISTS compares has the affinity TEXT.                    *)

Bit(b) == IF b THEN 1 ELSE 0
Holds(condition, x) ==
    IF condition.op = "IN" THEN x \in condition.list ELSE Compares(condition.op, x, condition.num)
Exists(token, rows) == \E r \in rows : r.key = token.key /\ Holds(token.condition, r.value)

(* The text with the values of what it is about, as strings. *)
Sign(token, rows, outer) ==
    CASE token.t = "outer"  -> IF outer THEN "1" ELSE "0"
      [] token.t = "EXISTS" -> IF Exists(token, rows) THEN "1" ELSE "0"
      [] OTHER              -> token.t
Valued(sql, rows, outer) == [i \in DOMAIN sql |-> Sign(sql[i], rows, outer)]

SqlSign == {"(", ")", "NOT", "AND", "OR", "=", "<>", "0", "1"}
SqlPrec(op) ==
    CASE op \in {"=", "<>"} -> 4 [] op = "NOT" -> 3 [] op = "AND" -> 2 [] op = "OR" -> 1

Applied(op, x, y) ==
    CASE op = "AND" -> Bit(x = 1 /\ y = 1)
      [] op = "OR"  -> Bit(x = 1 \/ y = 1)
      [] OTHER      -> Bit(Compares(op, x, y))

SqlPrimary(read, s, least) ==
    LET first == Head(s)
        inner == Expr(read, Tail(s), IF first = "NOT" THEN SqlPrec("NOT") ELSE 0)
    IN  CASE first = "("   -> Climb(read, inner.node, Tail(inner.rest), least)
          [] first = "NOT" -> Climb(read, Bit(inner.node = 0), inner.rest, least)
          [] OTHER         -> Climb(read, Bit(first = "1"), Tail(s), least)

SqlFollows(s, least) == s # <<>> /\ Head(s) # ")" /\ SqlPrec(Head(s)) >= least
SqlOperator(read, left, s, least) ==
    LET right == Expr(read, Tail(s), SqlPrec(Head(s)) + 1)
    IN  IF SqlFollows(s, least) THEN Climb(read, Applied(Head(s), left, right.node), right.rest, least)
        ELSE [node |-> left, rest |-> s]

ReaderCall == [left : SUBSET {0, 1}, rest : Seq(SqlSign), least : 0..5]
Reader[depth \in Nat] ==
    IF depth = 0 THEN <<>>
    ELSE [c \in ReaderCall |->
            IF c.left = {} THEN SqlPrimary(Reader[depth - 1], c.rest, c.least)
            ELSE SqlOperator(Reader[depth - 1], CHOOSE n \in c.left : TRUE, c.rest, c.least)]

Value(s) == Expr(Reader[2 * Len(s)], s, 0).node

----------------------------------------------------------------------------
(* What callers mean, and how they write it: AND before OR, a NOT or an     *)
(* equivalence with parentheses unless it is about one == or !=.            *)

Written[f \in DOMAIN Formulas] ==
    LET formula   == Formulas[f]
        Closed(g) == Parens(Written[g])
        IsOr(g)   == Formulas[g].op = "OR"
        Side(g)   == IF formula.op = "==" \/ (formula.op = "AND" /\ IsOr(g)) THEN Closed(g) ELSE Written[g]
        IsEqual(g) == Formulas[g].op = "key" /\ Formulas[g].cmp # ">"
    IN  CASE formula.op = "key" ->
               <<[t |-> "key", key |-> formula.key], [t |-> formula.cmp], [t |-> "num", num |-> formula.num]>>
          [] formula.op = "IN"  -> <<[t |-> "key", key |-> formula.key], [t |-> "IN", list |-> formula.list]>>
          [] formula.op = "NOT" ->
               Op("NOT") \o (IF IsEqual(formula.of) THEN Written[formula.of] ELSE Closed(formula.of))
          [] OTHER -> Side(formula.left) \o Op(formula.op) \o Side(formula.right)

(* The metadata a vector may have, and those of which a formula is true.    *)
Metadata == SUBSET [key : Keys, value : Values]
Having(key, values) == {rows \in Metadata : \E r \in rows : r.key = key /\ r.value \in values}
Passing(cmp, num)   == {x \in Values : Compares(SqlOp[cmp], x, num)}
Agreeing(l, r)      == {rows \in Metadata : rows \in l <=> rows \in r}
Means[f \in DOMAIN Formulas] ==
    LET formula == Formulas[f]
    IN  CASE formula.op = "key" -> Having(formula.key, Passing(formula.cmp, formula.num))
          [] formula.op = "IN"  -> Having(formula.key, formula.list)
          [] formula.op = "NOT" -> Metadata \ Means[formula.of]
          [] formula.op = "AND" -> Means[formula.left] \cap Means[formula.right]
          [] formula.op = "OR"  -> Means[formula.left] \cup Means[formula.right]
          [] OTHER               -> Agreeing(Means[formula.left], Means[formula.right])

(* "SELECT ... WHERE <a condition on the row> AND " + sqlFilter.  The       *)
(* formulas that select a row of a vector with these rows, and those that   *)
(* should.  (TLC computes a function once that is joined to another.)       *)
Once(table) == CHOOSE t \in {table} : t = table
Where   == Once([f \in DOMAIN Formulas |-> Op("outer") \o Op("AND") \o toSQL(Written[f])])
Selects == Once([outer \in BOOLEAN |-> Once([rows \in Metadata |->
                       {f \in DOMAIN Formulas : Value(Valued(Where[f], rows, outer)) # 0}])])
Meaning == Once([rows \in Metadata |-> {f \in DOMAIN Formulas : rows \in Means[f]}])
=============================================================================
